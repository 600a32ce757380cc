--------------------------- MODULE ContactEvents ----------------------------
(***************************************************************************)
(* The events of contacts and lists (services/core: contacts-write, lists, *)
(* gdpr): transactions that change a contact, its memberships or a list,   *)
(* write the contact's snapshot into the outbox and commit, interleaved    *)
(* statement by statement under READ COMMITTED, and the replica a consumer *)
(* keeps by the rule of contracts/events: the snapshot with the highest    *)
(* version replaces the copy, a deletion drops it.                         *)
(*                                                                         *)
(* The relay and the stream are abstracted to Publish (see OutboxRelay):   *)
(* committed events reach the consumer once, in any order.  Every write    *)
(* sets a field of its own.                                                *)
(***************************************************************************)
EXTENDS Integers, FiniteSets

CONSTANTS Contacts,   \* contact ids
          Lists,      \* list ids
          Sessions,   \* requests served at the same time
          Ops,        \* the operations clients use
          MaxOps      \* bound: operations in a behaviour

ASSUME ContactEventsAssumption ==
    /\ Ops \subseteq {"write", "delete", "forget", "add", "remove", "drop"}
    /\ MaxOps \in Nat

VARIABLES row,       \* contacts.contacts: state, version and fields of a contact
          members,   \* contacts.list_members
          lists,     \* contacts.lists
          outbox,    \* committed events the consumer has not seen
          log,       \* ghost: every event that was ever committed
          replica,   \* the consumer's copy: version 0 stands for none
          tx,        \* the transaction of a session
          ops,       \* operations begun
          nextId,    \* the next event id
          mixed      \* ghost: contacts with transactions that overlapped, or events out of order

dbVars == <<row, members, lists>>
vars == <<dbVars, outbox, log, replica, tx, ops, nextId, mixed>>

Fields == 1..MaxOps

Event == [id : Nat, type : {"upserted", "deleted"}, contact : Contacts,
          version : Nat, fields : SUBSET Fields, lists : SUBSET Lists]

\* A transaction: its operation, the contacts and lists it is about, its own
\* field, the members it read, and what it has written so far.
Tx == [op : Ops, contacts : SUBSET Contacts, lists : SUBSET Lists, field : Fields,
       at : {"begun", "changed", "announced"}, seen : SUBSET Contacts,
       new : [version : Nat, fields : SUBSET Fields], events : SUBSET Event]

Idle == [op |-> "none"]

TypeOK ==
    /\ row \in [Contacts -> [state : {"none", "live", "deleted", "gone"},
                             version : Nat, fields : SUBSET Fields]]
    /\ members \subseteq Lists \X Contacts
    /\ lists \subseteq Lists
    /\ outbox \subseteq log
    /\ \A e \in log : e \in Event
    /\ replica \in [Contacts -> [version : Nat, fields : SUBSET Fields, lists : SUBSET Lists]]
    /\ \A s \in Sessions : tx[s] = Idle \/ tx[s] \in Tx
    /\ ops \in 0..MaxOps
    /\ nextId \in Nat
    /\ mixed \subseteq Contacts

NoRow  == [state |-> "none", version |-> 0, fields |-> {}]
NoCopy == [version |-> 0, fields |-> {}, lists |-> {}]

Init ==
    /\ row = [c \in Contacts |-> NoRow]
    /\ members = {}
    /\ lists = Lists
    /\ outbox = {} /\ log = {}
    /\ replica = [c \in Contacts |-> NoCopy]
    /\ tx = [s \in Sessions |-> Idle]
    /\ ops = 0
    /\ nextId = 1
    /\ mixed = {}

-----------------------------------------------------------------------------
(* Locks *)

\* Row locks of two operations on one contact: FOR UPDATE, UPDATE and DELETE
\* exclude each other, and the foreign key of a new membership excludes the
\* FOR UPDATE of a write and the DELETE of a forget, not the UPDATE of a delete.
RowClash(o, u) ==
    \/ {o, u} \subseteq {"write", "delete", "forget"}
    \/ {o, u} \in {{"write", "add"}, {"forget", "add"}, {"forget", "remove"}}

\* Locks on a list: its DELETE against its memberships.
ListClash(o, u) == "drop" \in {o, u} /\ {o, u} \subseteq {"drop", "add", "remove"}

Clash(t, u) ==
    \/ t.contacts \cap u.contacts # {} /\ RowClash(t.op, u.op)
    \/ t.lists \cap u.lists # {} /\ ListClash(t.op, u.op)
    \/ /\ t.contacts \cap u.contacts # {} /\ t.lists \cap u.lists # {}
       /\ {t.op, u.op} \subseteq {"add", "remove"}
    \/ /\ {t.op, u.op} = {"forget", "drop"}
       /\ ((t.lists \cup u.lists) \X (t.contacts \cup u.contacts)) \cap members # {}

Running(s) == tx[s] # Idle

Blocked(s) == \E u \in Sessions \ {s} :
                 Running(u) /\ tx[u].at # "begun" /\ Clash(tx[s], tx[u])

-----------------------------------------------------------------------------
(* The first statements of the operations *)

\* The contacts of running transactions that share a contact or a list with a
\* new one.
Overlapping(cs, ls) ==
    LET Shares(u) == cs \cap (u.contacts \cup u.seen) # {} \/ ls \cap u.lists # {}
    IN  UNION {tx[u].contacts \cup tx[u].seen \cup cs :
                  u \in {v \in Sessions : Running(v) /\ Shares(tx[v])}}

Start(s, op, cs, ls, seen) ==
    /\ op \in Ops
    /\ ~Running(s)
    /\ ops < MaxOps
    /\ ops' = ops + 1
    /\ tx' = [tx EXCEPT ![s] = [op |-> op, contacts |-> cs, lists |-> ls, field |-> ops + 1,
                                at |-> "begun", seen |-> seen,
                                new |-> [version |-> 0, fields |-> {}], events |-> {}]]
    /\ mixed' = mixed \cup Overlapping(cs \cup seen, ls)
    /\ UNCHANGED <<dbVars, outbox, log, replica, nextId>>

\* write: the key resolves to the contact, or the contact is new.
BeginWrite(s, c) == row[c].state \in {"none", "live"} /\ Start(s, "write", {c}, {}, {})

BeginDelete(s, c) == row[c].state = "live" /\ Start(s, "delete", {c}, {}, {})

BeginForget(s, c) == row[c].state \in {"live", "deleted"} /\ Start(s, "forget", {c}, {}, {})

\* ListsService.change: assertList and the query for live contacts.
BeginChange(s, op, c, l) ==
    /\ l \in lists
    /\ row[c].state = "live"
    /\ Start(s, op, {c}, {l}, {})

\* ListsService.remove: assertList and the query for the members.
BeginDrop(s, l) ==
    /\ l \in lists
    /\ Start(s, "drop", {}, {l}, {c \in Contacts : <<l, c>> \in members})

Begin(s) ==
    \/ \E c \in Contacts : BeginWrite(s, c) \/ BeginDelete(s, c) \/ BeginForget(s, c)
    \/ \E c \in Contacts, l \in Lists : BeginChange(s, "add", c, l) \/ BeginChange(s, "remove", c, l)
    \/ \E l \in Lists : BeginDrop(s, l)

-----------------------------------------------------------------------------
(* The statement that changes rows: it waits for the locks of others and sees *)
(* what they committed; an operation that finds nothing to change ends here.  *)

\* The memberships an operation names.
Pairs(t) == t.lists \X t.contacts

Finds(t) ==
    CASE t.op = "write"  -> \A c \in t.contacts : row[c].state \in {"none", "live"}
      [] t.op = "delete" -> \A c \in t.contacts : row[c].state = "live"
      [] t.op = "forget" -> \A c \in t.contacts : row[c].state \in {"live", "deleted"}
      [] t.op = "add"    -> /\ \A c \in t.contacts : row[c].state # "gone"
                            /\ t.lists \subseteq lists
                            /\ Pairs(t) \cap members = {}
      [] t.op = "remove" -> Pairs(t) \subseteq members
      [] t.op = "drop"   -> TRUE

\* The merge of ContactsWriteService.update, or the row of insert.
Merged(t) ==
    LET old == row[CHOOSE c \in t.contacts : TRUE]
    IN  [version |-> old.version + 1, fields |-> old.fields \cup {t.field}]

\* Faulty variant of Change: update reads the contact without FOR UPDATE.
ChangeUnlocked(s) ==
    /\ Running(s) /\ tx[s].at = "begun"
    /\ tx[s].op = "write" \/ ~Blocked(s)
    /\ IF Finds(tx[s])
       THEN tx' = [tx EXCEPT ![s].at = "changed",
                             ![s].new = IF tx[s].op = "write" THEN Merged(tx[s]) ELSE @]
       ELSE tx' = [tx EXCEPT ![s] = Idle]
    /\ UNCHANGED <<dbVars, outbox, log, replica, ops, nextId, mixed>>

Change(s) ==
    /\ Running(s) /\ tx[s].at = "begun"
    /\ ~Blocked(s)
    /\ IF Finds(tx[s])
       THEN tx' = [tx EXCEPT ![s].at = "changed",
                             ![s].new = IF tx[s].op = "write" THEN Merged(tx[s]) ELSE @]
       ELSE tx' = [tx EXCEPT ![s] = Idle]
    /\ UNCHANGED <<dbVars, outbox, log, replica, ops, nextId, mixed>>

-----------------------------------------------------------------------------
(* ContactsOutbox.upserted and deleted, and the COMMIT *)

\* The memberships a transaction sees: what is committed, and its own changes.
Visible(t) ==
    CASE t.op = "add"    -> members \cup Pairs(t)
      [] t.op = "remove" -> members \ Pairs(t)
      [] t.op = "drop"   -> {m \in members : m[1] \notin t.lists}
      [] OTHER           -> members

Upserted(t, c, version, fields) ==
    [id |-> nextId, type |-> "upserted", contact |-> c, version |-> version, fields |-> fields,
     lists |-> {l \in Lists : <<l, c>> \in Visible(t)}]

Deleted(c) ==
    [id |-> nextId, type |-> "deleted", contact |-> c, version |-> 0, fields |-> {}, lists |-> {}]

\* Faulty variant of Snapshot: it reads outside the transaction.
SnapshotCommitted(t, c) ==
    IF row[c].state \in {"live", "deleted"} THEN {Upserted(t, c, row[c].version, row[c].fields)} ELSE {}

\* A snapshot reads the committed row, or the row the transaction wrote; a
\* contact that is gone has none, a deleted one has.
Snapshot(t, c) ==
    IF t.op = "write" THEN {Upserted(t, c, t.new.version, t.new.fields)}
    ELSE IF row[c].state \in {"live", "deleted"} THEN {Upserted(t, c, row[c].version, row[c].fields)}
    ELSE {}

\* Faulty variant of EventsOf: the members of a deleted list get no event.
EventsOfTargets(t) ==
    IF t.op \in {"delete", "forget"} THEN {Deleted(c) : c \in t.contacts}
    ELSE UNION {Snapshot(t, c) : c \in t.contacts}

EventsOf(t) ==
    IF t.op \in {"delete", "forget"} THEN {Deleted(c) : c \in t.contacts}
    ELSE UNION {Snapshot(t, c) : c \in t.contacts \cup t.seen}

Announce(s) ==
    /\ Running(s) /\ tx[s].at = "changed"
    /\ tx' = [tx EXCEPT ![s].at = "announced", ![s].events = EventsOf(tx[s])]
    /\ nextId' = nextId + 1
    /\ UNCHANGED <<dbVars, outbox, log, replica, ops, mixed>>

RowAfter(t, c) ==
    CASE t.op = "write"  -> [state |-> "live", version |-> t.new.version, fields |-> t.new.fields]
      [] t.op = "delete" -> [row[c] EXCEPT !.state = "deleted", !.version = @ + 1]
      [] t.op = "forget" -> [row[c] EXCEPT !.state = "gone"]
      [] OTHER           -> row[c]

\* The rows a committed transaction leaves; a foreign key deletes the
\* memberships of a list or a contact that is gone.
Apply(t) ==
    /\ row' = [c \in Contacts |-> IF c \in t.contacts THEN RowAfter(t, c) ELSE row[c]]
    /\ members' = IF t.op = "forget" THEN {m \in members : m[2] \notin t.contacts} ELSE Visible(t)
    /\ lists' = IF t.op = "drop" THEN lists \ t.lists ELSE lists

Commit(s) ==
    /\ Running(s) /\ tx[s].at = "announced"
    /\ Apply(tx[s])
    /\ outbox' = outbox \cup tx[s].events
    /\ log' = log \cup tx[s].events
    /\ tx' = [tx EXCEPT ![s] = Idle]
    /\ UNCHANGED <<replica, ops, nextId, mixed>>

\* A statement fails, the transaction times out, or the process dies.
Rollback(s) ==
    /\ Running(s)
    /\ tx' = [tx EXCEPT ![s] = Idle]
    /\ UNCHANGED <<dbVars, outbox, log, replica, ops, nextId, mixed>>

-----------------------------------------------------------------------------
(* The consumer *)

Publish(e) ==
    /\ e \in outbox
    /\ outbox' = outbox \ {e}
    /\ replica' = [replica EXCEPT ![e.contact] =
                      IF e.type = "deleted" THEN NoCopy
                      ELSE IF e.version < @.version THEN @
                      ELSE [version |-> e.version, fields |-> e.fields, lists |-> e.lists]]
    /\ mixed' = IF \E f \in outbox : f.contact = e.contact /\ f.id < e.id
                THEN mixed \cup {e.contact} ELSE mixed
    /\ UNCHANGED <<dbVars, log, tx, ops, nextId>>

Next ==
    \/ \E s \in Sessions : Begin(s) \/ Change(s) \/ Announce(s) \/ Commit(s) \/ Rollback(s)
    \/ \E e \in outbox : Publish(e)

Spec == Init /\ [][Next]_vars

-----------------------------------------------------------------------------
(* Properties *)

Upserts == {e \in log : e.type = "upserted"}

\* The version orders the snapshots of a contact: a later version has every
\* field an earlier one had, and equal versions have equal fields.  It is what
\* lets "consumers (sink, segments) ... replace their copy by version"
\* (contacts.upserted.schema.json:4), and no concurrent write is lost.
VersionsOrderTheFields ==
    \A e, f \in Upserts :
        e.contact = f.contact /\ e.version <= f.version => e.fields \subseteq f.fields

\* Every version of a contact has its event, and a contact that ended has a
\* deletion: the change and its event commit together (outbox.ts:88).
EveryVersionIsAnnounced ==
    \A c \in Contacts :
        LET ended == row[c].state \in {"deleted", "gone"}
            deletions == {e \in log : e.type = "deleted" /\ e.contact = c}
            versions == {e.version : e \in {f \in Upserts : f.contact = c}}
        IN  /\ ended => deletions # {}
            /\ \A v \in 1..row[c].version : v \in versions \/ (ended /\ v = row[c].version)

Quiescent == outbox = {} /\ \A s \in Sessions : ~Running(s)

\* Once everything is published, in whatever order, the consumer has the fields of every
\* live contact, and "every list the contact belongs to"
\* (contacts.upserted.schema.json:44), unless transactions about the contact overlapped or
\* its events came out of order: a change of the lists has no version of its own
\* (lists.service.ts:233), so the snapshots of two of them are not ordered.
ReplicaFollows ==
    Quiescent => \A c \in Contacts : row[c].state = "live" =>
        /\ replica[c].version = row[c].version /\ replica[c].fields = row[c].fields
        /\ c \in mixed \/ replica[c].lists = {l \in Lists : <<l, c>> \in members}
=============================================================================
