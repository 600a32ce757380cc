------------------------ MODULE ContactEventsProofs -------------------------
(***************************************************************************)
(* Theorems about ContactEvents, for any number of contacts, lists and     *)
(* transactions: the versions order the snapshots, every version has its   *)
(* event, and the replica follows, whatever order the events come in.      *)
(***************************************************************************)
EXTENDS ContactEvents, TLAPS

\* The stages at which a transaction holds its locks.
Holds(s) == Running(s) /\ tx[s].at # "begun"

Announced(s) == Running(s) /\ tx[s].at = "announced"

About(t) == t.contacts \cup t.seen

\* The lists of a contact, in a set of memberships.
ListsIn(pairs, c) == {l \in Lists : <<l, c>> \in pairs}

\* Operations that change the row of their contact.
RowOps == {"write", "delete", "forget"}

\* A transaction is about one contact, or about the members of the list it drops.
ShapeInv ==
    \A s \in Sessions : Running(s) =>
        IF tx[s].op = "drop" THEN tx[s].contacts = {}
        ELSE tx[s].seen = {} /\ \E c \in Contacts : tx[s].contacts = {c}

\* The row locks: one transaction at a time changes the row of a contact.
LockInv ==
    \A s, u \in Sessions :
        /\ Holds(s) /\ tx[s].op \in RowOps
        /\ Holds(u) /\ tx[u].op \in RowOps
        /\ tx[s].contacts \cap tx[u].contacts # {}
        => s = u

\* What a transaction found, and merged, is so until it commits.
FoundInv ==
    \A s \in Sessions, c \in Contacts : Holds(s) /\ c \in tx[s].contacts =>
        /\ tx[s].op = "write" => /\ row[c].state \in {"none", "live"}
                                 /\ tx[s].new.version = row[c].version + 1
                                 /\ row[c].fields \subseteq tx[s].new.fields
        /\ tx[s].op = "delete" => row[c].state = "live"
        /\ tx[s].op = "forget" => row[c].state \in {"live", "deleted"}

\* What a transaction is about to commit with its rows.
EventsInv ==
    \A s \in Sessions : Announced(s) =>
        /\ \A e \in tx[s].events :
              /\ e.contact \in About(tx[s])
              /\ e.type = "deleted" <=> tx[s].op \in {"delete", "forget"}
              /\ tx[s].op = "write" => e.version = tx[s].new.version /\ e.fields = tx[s].new.fields
        /\ tx[s].op \in RowOps => \A c \in tx[s].contacts : \E e \in tx[s].events : e.contact = c

\* Snapshots of committed rows: in the log, or about to be.
Taken == Upserts \cup UNION {tx[s].events : s \in {u \in Sessions : Announced(u) /\ tx[u].op \notin RowOps}}

\* They are no newer than the row, and the versions order them.
SnapshotsInv ==
    /\ \A e \in Taken : /\ e.version <= row[e.contact].version
                        /\ e.fields \subseteq row[e.contact].fields
                        /\ e.version = row[e.contact].version => e.fields = row[e.contact].fields
    /\ \A e, f \in Taken : e.contact = f.contact /\ e.version <= f.version => e.fields \subseteq f.fields

\* A contact that ended stays so; one that lives has a version.
RowsInv ==
    \A c \in Contacts :
        /\ row[c].state = "none" => row[c].version = 0
        /\ row[c].state = "live" => row[c].version >= 1
        /\ row[c].state \in {"none", "live"} => \A e \in log : e.contact = c => e.type = "upserted"

HistoryInv == ShapeInv /\ LockInv /\ FoundInv /\ EventsInv /\ SnapshotsInv /\ RowsInv /\ EveryVersionIsAnnounced

\* The copy of a contact that did not end is a snapshot of it, no older than any published.
CopyInv ==
    \A c \in Contacts : row[c].state \in {"none", "live"} =>
        /\ \A e \in log \ outbox : e.contact = c => e.version <= replica[c].version
        /\ \/ replica[c].version = 0
           \/ \E e \in Upserts : /\ e.contact = c /\ e.version = replica[c].version
                                 /\ e.fields = replica[c].fields

\* Transactions that share a contact or a list make all their contacts mixed; of the others,
\* a drop has seen the members its list still has.
AloneInv ==
    /\ \A s, u \in Sessions :
          /\ Running(s) /\ Running(u) /\ s # u
          /\ About(tx[s]) \cap About(tx[u]) # {} \/ tx[s].lists \cap tx[u].lists # {}
          => About(tx[s]) \subseteq mixed
    /\ \A s \in Sessions, l \in Lists, c \in Contacts \ mixed :
          Running(s) /\ tx[s].op = "drop" /\ l \in tx[s].lists /\ <<l, c>> \in members => c \in tx[s].seen

\* The events of a contact that is not mixed: ids and versions agree, and they are published
\* in that order.
IdsInv ==
    /\ \A e \in log : e.id < nextId
    /\ \A e, f \in log : e.contact = f.contact /\ e.contact \notin mixed =>
          /\ e.id = f.id => e = f
          /\ e.type = "upserted" /\ f.type = "upserted" /\ e.id <= f.id => e.version <= f.version
          /\ e \notin outbox /\ f \in outbox => e.id < f.id

\* What a transaction announced of such a contact is newer than the log, and true.
PendingInv ==
    \A s \in Sessions : Announced(s) =>
        /\ \A e, f \in tx[s].events : e.contact = f.contact => e = f
        /\ \A e \in tx[s].events :
              /\ e.id < nextId
              /\ e.contact \notin mixed =>
                    /\ \A f \in log : f.contact = e.contact =>
                          /\ f.id < e.id
                          /\ e.type = "upserted" /\ f.type = "upserted" => f.version <= e.version
                    /\ e.type = "upserted" => e.lists = ListsIn(Visible(tx[s]), e.contact)
        /\ tx[s].op \notin RowOps => \A c \in About(tx[s]) \ mixed :
              row[c].state = "live" => \E e \in tx[s].events : e.contact = c

\* The last event of such a contact tells its lists, and the copy is the last one published.
LatestInv ==
    \A c \in Contacts \ mixed :
        /\ row[c].state = "live" =>
              \A e \in log : e.contact = c /\ (\A f \in log : f.contact = c => f.id <= e.id)
                 => e.lists = ListsIn(members, c)
        /\ row[c].state \in {"none", "live"} =>
              \/ replica[c].version = 0 /\ \A e \in log \ outbox : e.contact # c
              \/ \E e \in log \ outbox :
                    /\ e.contact = c /\ \A f \in log \ outbox : f.contact = c => f.id <= e.id
                    /\ replica[c].version = e.version /\ replica[c].lists = e.lists

ListsInv == AloneInv /\ IdsInv /\ PendingInv /\ LatestInv

-----------------------------------------------------------------------------
(* Types, and what a step makes of a transaction *)

TxTypeOK == tx \in [Sessions -> {Idle} \cup Tx]

TypeInv == TypeOK /\ TxTypeOK /\ ShapeInv

\* A transaction at another stage, with what it has written so far.
Stepped(t, at, new, events) ==
    [op |-> t.op, contacts |-> t.contacts, lists |-> t.lists, field |-> t.field,
     at |-> at, seen |-> t.seen, new |-> new, events |-> events]

LEMMA SteppedFields ==
    ASSUME NEW t, NEW at, NEW new, NEW events
    PROVE  LET u == Stepped(t, at, new, events) IN
           /\ u.op = t.op /\ u.contacts = t.contacts /\ u.lists = t.lists /\ u.seen = t.seen
           /\ u.at = at /\ u.new = new /\ u.events = events
           /\ About(u) = About(t) /\ Visible(u) = Visible(t)
<1> DEFINE u == Stepped(t, at, new, events)
<1>1. /\ u.op = t.op /\ u.contacts = t.contacts /\ u.lists = t.lists /\ u.seen = t.seen
      /\ u.at = at /\ u.new = new /\ u.events = events
  BY DEF Stepped
<1> HIDE DEF u
<1>2. About(u) = About(t) /\ Visible(u) = Visible(t)
  BY <1>1 DEF About, Visible, Pairs
<1> USE DEF u
<1> QED BY <1>1, <1>2

LEMMA IdleIsNoTx == ASSUME NEW t \in Tx PROVE t # Idle
<1>1. t.op \in {"write", "delete", "forget", "add", "remove", "drop"}
  BY ContactEventsAssumption DEF Tx
<1>2. Idle.op = "none"
  BY DEF Idle
<1> QED BY <1>1, <1>2

LEMMA WholeTx == ASSUME NEW t \in Tx PROVE t = Stepped(t, t.at, t.new, t.events)
BY DEF Tx, Stepped

LEMMA TxAt ==
    ASSUME NEW t \in Tx, NEW at
    PROVE  [t EXCEPT !.at = at] = Stepped(t, at, t.new, t.events)
<1> DEFINE w == Stepped(t, t.at, t.new, t.events)
<1>1. [w EXCEPT !.at = at] = Stepped(t, at, t.new, t.events)
  BY DEF Stepped
<1> HIDE DEF w
<1>2. t = w
  BY WholeTx DEF w
<1> QED BY <1>1, <1>2

LEMMA TxNew ==
    ASSUME NEW t \in Tx, NEW at, NEW new
    PROVE  [[t EXCEPT !.at = at] EXCEPT !.new = new] = Stepped(t, at, new, t.events)
<1>1. [Stepped(t, at, t.new, t.events) EXCEPT !.new = new] = Stepped(t, at, new, t.events)
  BY DEF Stepped
<1> QED BY <1>1, TxAt

LEMMA TxEvents ==
    ASSUME NEW t \in Tx, NEW at, NEW events
    PROVE  [[t EXCEPT !.at = at] EXCEPT !.events = events] = Stepped(t, at, t.new, events)
<1>1. [Stepped(t, at, t.new, t.events) EXCEPT !.events = events] = Stepped(t, at, t.new, events)
  BY DEF Stepped
<1> QED BY <1>1, TxAt

LEMMA StartMoves ==
    ASSUME TxTypeOK, NEW s \in Sessions, NEW op, NEW cs, NEW ls, NEW seen, Start(s, op, cs, ls, seen)
    PROVE  /\ ~Running(s) /\ op \in Ops /\ ops < MaxOps /\ ops' = ops + 1
           /\ \A u \in Sessions \ {s} : tx'[u] = tx[u]
           /\ tx'[s] = [op |-> op, contacts |-> cs, lists |-> ls, field |-> ops + 1, at |-> "begun",
                       seen |-> seen, new |-> [version |-> 0, fields |-> {}], events |-> {}]
           /\ tx'[s].op = op /\ tx'[s].contacts = cs /\ tx'[s].lists = ls
           /\ tx'[s].seen = seen /\ tx'[s].at = "begun"
           /\ tx' = [tx EXCEPT ![s] = tx'[s]]
           /\ UNCHANGED <<row, members, lists, outbox, log, replica, nextId>>
           /\ mixed' = mixed \cup Overlapping(cs \cup seen, ls)
<1> DEFINE t == [op |-> op, contacts |-> cs, lists |-> ls, field |-> ops + 1, at |-> "begun",
                 seen |-> seen, new |-> [version |-> 0, fields |-> {}], events |-> {}]
<1>1. tx' = [tx EXCEPT ![s] = t]
  BY DEF Start
<1>2. t.op = op /\ t.contacts = cs /\ t.lists = ls /\ t.seen = seen /\ t.at = "begun"
  OBVIOUS
<1> HIDE DEF t
<1>3. tx'[s] = t /\ \A u \in Sessions \ {s} : tx'[u] = tx[u]
  BY <1>1 DEF TxTypeOK
<1> QED BY <1>1, <1>2, <1>3 DEF Start, dbVars, t

\* A transaction that goes on, or ends without a commit.
LEMMA ChangeMoves ==
    ASSUME TxTypeOK, NEW s \in Sessions, Change(s)
    PROVE  /\ Running(s) /\ tx[s].at = "begun" /\ ~Blocked(s) /\ tx[s] \in Tx
           /\ \A u \in Sessions \ {s} : tx'[u] = tx[u]
           /\ UNCHANGED <<row, members, lists, outbox, log, replica, ops, nextId, mixed>>
           /\ tx' = [tx EXCEPT ![s] = tx'[s]]
           /\ \/ tx'[s] = Idle
              \/ /\ Finds(tx[s])
                 /\ tx'[s] = Stepped(tx[s], "changed", IF tx[s].op = "write" THEN Merged(tx[s]) ELSE tx[s].new,
                                     tx[s].events)
<1>1. Running(s) /\ tx[s].at = "begun" /\ ~Blocked(s) /\ tx[s] \in Tx
  BY DEF Change, TxTypeOK, Running
<1>2. UNCHANGED <<row, members, lists, outbox, log, replica, ops, nextId, mixed>>
  BY DEF Change, dbVars
<1>3. CASE tx' = [tx EXCEPT ![s] = Idle]
  BY <1>1, <1>2, <1>3 DEF TxTypeOK
<1>4. CASE tx' # [tx EXCEPT ![s] = Idle]
  <2> DEFINE new == IF tx[s].op = "write" THEN Merged(tx[s]) ELSE tx[s].new
             t == Stepped(tx[s], "changed", new, tx[s].events)
  <2>1. Finds(tx[s]) /\ tx' = [tx EXCEPT ![s].at = "changed",
                                         ![s].new = IF tx[s].op = "write" THEN Merged(tx[s]) ELSE @]
    BY <1>4 DEF Change
  <2>2. tx' = [tx EXCEPT ![s] = [[tx[s] EXCEPT !.at = "changed"] EXCEPT !.new = new]]
    <3>1. [tx[s] EXCEPT !.at = "changed"].new = tx[s].new
      BY <1>1 DEF Tx
    <3> QED BY <2>1, <3>1 DEF TxTypeOK
  <2> HIDE DEF new
  <2>3. tx' = [tx EXCEPT ![s] = t]
    BY <1>1, <2>2, TxNew
  <2> HIDE DEF t
  <2>4. tx'[s] = t /\ \A u \in Sessions \ {s} : tx'[u] = tx[u]
    BY <2>3 DEF TxTypeOK
  <2> QED BY <1>1, <1>2, <2>1, <2>3, <2>4 DEF new, t
<1> QED BY <1>3, <1>4

LEMMA AnnounceMoves ==
    ASSUME TxTypeOK, NEW s \in Sessions, Announce(s)
    PROVE  /\ Running(s) /\ tx[s].at = "changed" /\ tx[s] \in Tx
           /\ \A u \in Sessions \ {s} : tx'[u] = tx[u]
           /\ UNCHANGED <<row, members, lists, outbox, log, replica, ops, mixed>> /\ nextId' = nextId + 1
           /\ tx' = [tx EXCEPT ![s] = tx'[s]]
           /\ tx'[s] = Stepped(tx[s], "announced", tx[s].new, EventsOf(tx[s]))
<1>1. Running(s) /\ tx[s].at = "changed" /\ tx[s] \in Tx
  BY DEF Announce, TxTypeOK, Running
<1> DEFINE events == EventsOf(tx[s])
           t == Stepped(tx[s], "announced", tx[s].new, events)
<1>2. tx' = [tx EXCEPT ![s].at = "announced", ![s].events = events]
  BY DEF Announce
<1> HIDE DEF events
<1>3. [[tx[s] EXCEPT !.at = "announced"] EXCEPT !.events = events] = t
  BY <1>1, TxEvents
<1>4. tx' = [tx EXCEPT ![s] = t]
  <2> HIDE DEF t
  <2>1. tx' = [tx EXCEPT ![s] = [[tx[s] EXCEPT !.at = "announced"] EXCEPT !.events = events]]
    BY <1>2 DEF TxTypeOK
  <2> QED BY <1>3, <2>1
<1> HIDE DEF t
<1>5. tx'[s] = t /\ \A u \in Sessions \ {s} : tx'[u] = tx[u]
  BY <1>4 DEF TxTypeOK
<1> QED BY <1>1, <1>4, <1>5 DEF Announce, dbVars, t, events

LEMMA EndMoves ==
    ASSUME TxTypeOK, NEW s \in Sessions, tx' = [tx EXCEPT ![s] = Idle]
    PROVE  /\ tx'[s] = Idle /\ \A u \in Sessions \ {s} : tx'[u] = tx[u]
           /\ \A u \in Sessions : Running(u)' => u # s /\ Running(u) /\ tx'[u] = tx[u]
BY DEF TxTypeOK, Running

LEMMA InitTypes == Init => TypeInv
<1> SUFFICES ASSUME Init PROVE TypeInv
  OBVIOUS
<1>1. TypeOK
  BY ContactEventsAssumption DEF Init, TypeOK, NoRow, NoCopy
<1>2. TxTypeOK /\ ShapeInv
  BY DEF Init, TxTypeOK, ShapeInv, Running
<1> QED BY <1>1, <1>2 DEF TypeInv

\* The events of a transaction are events.
LEMMA EventTypes ==
    ASSUME TypeOK, NEW t \in Tx
    PROVE  EventsOf(t) \subseteq Event
<1>1. \A c \in Contacts : Deleted(c) \in Event
  BY DEF TypeOK, Deleted, Event
<1>2. ASSUME NEW c \in Contacts, NEW version \in Nat, NEW fields \in SUBSET Fields
      PROVE  Upserted(t, c, version, fields) \in Event
  <2>1. {l \in Lists : <<l, c>> \in Visible(t)} \in SUBSET Lists
    OBVIOUS
  <2> QED BY <2>1 DEF TypeOK, Upserted, Event
<1>3. t.contacts \subseteq Contacts /\ t.seen \subseteq Contacts /\ t.new.version \in Nat /\ t.new.fields \in SUBSET Fields
  BY DEF Tx
<1>4. \A c \in Contacts : row[c].version \in Nat /\ row[c].fields \in SUBSET Fields
  BY DEF TypeOK
<1>5. \A c \in Contacts : Snapshot(t, c) \subseteq Event
  BY <1>2, <1>3, <1>4 DEF Snapshot
<1> QED BY <1>1, <1>3, <1>5 DEF EventsOf

LEMMA MergedOfOne ==
    ASSUME NEW t, NEW c, t.contacts = {c}
    PROVE  Merged(t) = [version |-> row[c].version + 1, fields |-> row[c].fields \cup {t.field}]
<1>1. (CHOOSE d \in t.contacts : TRUE) = c
  OBVIOUS
<1> QED BY <1>1, Zenon DEF Merged

\* One transaction takes a step.
LEMMA TxStep ==
    ASSUME TxTypeOK, ShapeInv, NEW s \in Sessions, NEW t \in {Idle} \cup Tx, tx' = [tx EXCEPT ![s] = t],
           t # Idle => IF t.op = "drop" THEN t.contacts = {}
                       ELSE t.seen = {} /\ \E c \in Contacts : t.contacts = {c}
    PROVE  TxTypeOK' /\ ShapeInv' /\ \A u \in Sessions : tx'[u] = Idle \/ tx'[u] \in Tx
<1>1. TxTypeOK' /\ tx'[s] = t /\ \A u \in Sessions \ {s} : tx'[u] = tx[u]
  BY DEF TxTypeOK
<1>2. ShapeInv'
  BY <1>1 DEF ShapeInv, Running
<1> QED BY <1>1, <1>2 DEF TxTypeOK

LEMMA StartTypes ==
    ASSUME TypeInv, NEW s \in Sessions, NEW op, NEW cs \in SUBSET Contacts, NEW ls \in SUBSET Lists,
           NEW seen \in SUBSET Contacts, Start(s, op, cs, ls, seen),
           IF op = "drop" THEN cs = {} ELSE seen = {} /\ \E c \in Contacts : cs = {c}
    PROVE  TypeInv'
<1>1. TypeOK /\ TxTypeOK /\ ShapeInv
  BY DEF TypeInv
<1>2. /\ op \in Ops /\ ops < MaxOps /\ ops' = ops + 1
      /\ tx'[s] = [op |-> op, contacts |-> cs, lists |-> ls, field |-> ops + 1, at |-> "begun",
                   seen |-> seen, new |-> [version |-> 0, fields |-> {}], events |-> {}]
      /\ tx'[s].op = op /\ tx'[s].contacts = cs /\ tx'[s].seen = seen /\ tx' = [tx EXCEPT ![s] = tx'[s]]
  <2>1. op \in Ops /\ ops < MaxOps /\ ops' = ops + 1
    BY <1>1, StartMoves
  <2>2. tx'[s] = [op |-> op, contacts |-> cs, lists |-> ls, field |-> ops + 1, at |-> "begun",
                   seen |-> seen, new |-> [version |-> 0, fields |-> {}], events |-> {}]
    BY <1>1, StartMoves
  <2>3. tx'[s].op = op /\ tx'[s].contacts = cs /\ tx'[s].seen = seen
    BY <2>2
  <2>4. tx' = [tx EXCEPT ![s] = tx'[s]]
    BY <1>1, StartMoves
  <2> QED BY <2>1, <2>2, <2>3, <2>4
<1>3. UNCHANGED <<row, members, lists, outbox, log, replica, nextId>>
  BY <1>1, StartMoves
<1>4. ops' \in 0..MaxOps /\ ops + 1 \in Fields
  BY <1>1, <1>2, ContactEventsAssumption DEF TypeOK, Fields
<1>5. tx'[s] \in Tx
  BY <1>2, <1>4 DEF Tx
<1> DEFINE t == tx'[s]
<1>6. TxTypeOK' /\ ShapeInv' /\ \A u \in Sessions : tx'[u] = Idle \/ tx'[u] \in Tx
  <2>1. /\ tx' = [tx EXCEPT ![s] = t] /\ t \in Tx
        /\ IF t.op = "drop" THEN t.contacts = {} ELSE t.seen = {} /\ \E c \in Contacts : t.contacts = {c}
    BY <1>2, <1>5
  <2> HIDE DEF t
  <2> QED BY <1>1, <2>1, TxStep
<1>7. mixed' \subseteq Contacts
  <2>1. \A u \in Sessions : Running(u) => tx[u].contacts \subseteq Contacts /\ tx[u].seen \subseteq Contacts
    BY <1>1 DEF TxTypeOK, Running, Tx
  <2>2. Overlapping(cs \cup seen, ls) \subseteq Contacts
    BY <2>1 DEF Overlapping
  <2>3. mixed' = mixed \cup Overlapping(cs \cup seen, ls)
    BY <1>1, StartMoves, Zenon
  <2> QED BY <1>1, <2>2, <2>3 DEF TypeOK
<1>8. TypeOK'
  BY <1>1, <1>3, <1>4, <1>6, <1>7 DEF TypeOK
<1> QED BY <1>6, <1>8 DEF TypeInv

LEMMA RowAfterType ==
    ASSUME TypeOK, NEW t \in Tx, NEW c \in Contacts
    PROVE  RowAfter(t, c) \in [state : {"none", "live", "deleted", "gone"}, version : Nat, fields : SUBSET Fields]
<1>1. row[c] \in [state : {"none", "live", "deleted", "gone"}, version : Nat, fields : SUBSET Fields]
  BY DEF TypeOK
<1>2. CASE t.op = "write"
  BY <1>2 DEF RowAfter, Tx
<1>3. CASE t.op = "delete"
  <2> DEFINE old == row[c]
             ended == [old EXCEPT !.state = "deleted"]
  <2>1. ended \in [state : {"none", "live", "deleted", "gone"}, version : Nat, fields : SUBSET Fields]
        /\ ended.version = old.version
    BY <1>1
  <2>2. RowAfter(t, c) = [ended EXCEPT !.version = @ + 1]
    BY <1>1, <1>3 DEF RowAfter
  <2> HIDE DEF ended
  <2> QED BY <1>1, <2>1, <2>2
<1>4. CASE t.op = "forget"
  BY <1>1, <1>4 DEF RowAfter
<1>5. CASE t.op \notin RowOps
  BY <1>1, <1>5 DEF RowAfter, RowOps
<1> QED BY <1>2, <1>3, <1>4, <1>5 DEF RowOps

LEMMA TypesNext == TypeInv /\ [Next]_vars => TypeInv'
<1> SUFFICES ASSUME TypeInv, [Next]_vars PROVE TypeInv'
  OBVIOUS
<1>0. TypeOK /\ TxTypeOK /\ ShapeInv
  BY DEF TypeInv
<1>1. ASSUME NEW s \in Sessions, Begin(s) PROVE TypeInv'
  <2>1. ASSUME NEW c \in Contacts, NEW op \in {"write", "delete", "forget"}, Start(s, op, {c}, {}, {})
        PROVE  TypeInv'
    BY <2>1, StartTypes
  <2>2. ASSUME NEW c \in Contacts, NEW l \in Lists, NEW op \in {"add", "remove"}, Start(s, op, {c}, {l}, {})
        PROVE  TypeInv'
    BY <2>2, StartTypes
  <2>3. ASSUME NEW l \in Lists, Start(s, "drop", {}, {l}, {c \in Contacts : <<l, c>> \in members})
        PROVE  TypeInv'
    <3> DEFINE seen == {c \in Contacts : <<l, c>> \in members}
    <3>1. seen \in SUBSET Contacts /\ Start(s, "drop", {}, {l}, seen)
      BY <2>3
    <3> HIDE DEF seen
    <3> QED BY <3>1, StartTypes
  <2> QED BY <1>1, <2>1, <2>2, <2>3 DEF Begin, BeginWrite, BeginDelete, BeginForget, BeginChange, BeginDrop
<1>2. ASSUME NEW s \in Sessions, tx' = [tx EXCEPT ![s] = Idle] PROVE TxTypeOK' /\ ShapeInv'
  BY <1>0, <1>2, TxStep
<1>3. ASSUME NEW s \in Sessions, Running(s)
      PROVE  /\ tx[s] \in Tx
             /\ IF tx[s].op = "drop" THEN tx[s].contacts = {}
                ELSE tx[s].seen = {} /\ \E c \in Contacts : tx[s].contacts = {c}
  BY <1>0, <1>3 DEF TxTypeOK, Running, ShapeInv
<1>4. ASSUME NEW s \in Sessions, NEW at \in {"changed", "announced"}, NEW new, NEW events \in SUBSET Event,
             new \in [version : Nat, fields : SUBSET Fields],
             Running(s), tx' = [tx EXCEPT ![s] = Stepped(tx[s], at, new, events)]
      PROVE  TxTypeOK' /\ ShapeInv'
  <2> DEFINE t == Stepped(tx[s], at, new, events)
  <2>1. t \in Tx
    BY <1>3, <1>4 DEF Stepped, Tx
  <2>2. t.op = tx[s].op /\ t.contacts = tx[s].contacts /\ t.seen = tx[s].seen
    BY SteppedFields
  <2> HIDE DEF t
  <2>3. tx' = [tx EXCEPT ![s] = t]
    BY <1>4 DEF t
  <2>4. t # Idle => IF t.op = "drop" THEN t.contacts = {}
                    ELSE t.seen = {} /\ \E c \in Contacts : t.contacts = {c}
    BY <1>3, <1>4, <2>2
  <2> QED BY <1>0, <2>1, <2>3, <2>4, TxStep
<1>5. ASSUME UNCHANGED <<row, members, lists, outbox, log, replica, ops, mixed>>, nextId' \in Nat,
             TxTypeOK', ShapeInv'
      PROVE  TypeInv'
  BY <1>0, <1>5 DEF TypeOK, TypeInv, TxTypeOK
<1>6. nextId \in Nat /\ nextId + 1 \in Nat
  BY <1>0 DEF TypeOK
<1>7. ASSUME NEW s \in Sessions, Change(s) PROVE TypeInv'
  <2>1. Running(s) /\ UNCHANGED <<row, members, lists, outbox, log, replica, ops, mixed, nextId>>
    BY <1>0, <1>7, ChangeMoves
  <2>2. CASE tx'[s] = Idle
    BY <1>0, <1>2, <1>5, <1>6, <1>7, <2>1, <2>2, ChangeMoves
  <2>3. CASE tx'[s] # Idle
    <3> DEFINE new == IF tx[s].op = "write" THEN Merged(tx[s]) ELSE tx[s].new
    <3>1. tx' = [tx EXCEPT ![s] = Stepped(tx[s], "changed", new, tx[s].events)]
      BY <1>0, <1>7, <2>3, ChangeMoves
    <3>2. new \in [version : Nat, fields : SUBSET Fields] /\ tx[s].events \in SUBSET Event
      <4>1. tx[s].new \in [version : Nat, fields : SUBSET Fields] /\ tx[s].events \in SUBSET Event
            /\ tx[s].field \in Fields
        BY <1>3, <2>1 DEF Tx
      <4>2. CASE tx[s].op = "write"
        <5>1. PICK c \in Contacts : tx[s].contacts = {c}
          BY <1>3, <2>1, <4>2
        <5>2. row[c].version + 1 \in Nat /\ row[c].fields \cup {tx[s].field} \in SUBSET Fields
          BY <1>0, <4>1 DEF TypeOK
        <5>3. Merged(tx[s]) = [version |-> row[c].version + 1, fields |-> row[c].fields \cup {tx[s].field}]
          BY <5>1, MergedOfOne
        <5> QED BY <4>1, <4>2, <5>2, <5>3
      <4> QED BY <4>1, <4>2
    <3> HIDE DEF new
    <3>3. TxTypeOK' /\ ShapeInv'
      BY <1>4, <2>1, <3>1, <3>2
    <3> QED BY <1>5, <1>6, <2>1, <3>3
  <2> QED BY <2>2, <2>3
<1>8. ASSUME NEW s \in Sessions, Announce(s) PROVE TypeInv'
  <2>1. /\ Running(s) /\ UNCHANGED <<row, members, lists, outbox, log, replica, ops, mixed>> /\ nextId' = nextId + 1
        /\ tx' = [tx EXCEPT ![s] = Stepped(tx[s], "announced", tx[s].new, EventsOf(tx[s]))]
    BY <1>0, <1>8, AnnounceMoves
  <2>2. EventsOf(tx[s]) \in SUBSET Event
    BY <1>0, <1>3, <2>1, EventTypes
  <2>3. tx[s].new \in [version : Nat, fields : SUBSET Fields]
    BY <1>3, <2>1 DEF Tx
  <2>4. TxTypeOK' /\ ShapeInv'
    BY <1>4, <2>1, <2>2, <2>3
  <2> QED BY <1>5, <1>6, <2>1, <2>4
<1>9. ASSUME NEW s \in Sessions, Commit(s) PROVE TypeInv'
  <2>1. /\ Running(s) /\ tx' = [tx EXCEPT ![s] = Idle] /\ UNCHANGED <<replica, ops, nextId, mixed>>
        /\ Apply(tx[s]) /\ outbox' = outbox \cup tx[s].events /\ log' = log \cup tx[s].events
    BY <1>9 DEF Commit
  <2>2. tx[s] \in Tx /\ tx[s].contacts \subseteq Contacts /\ tx[s].lists \subseteq Lists /\ tx[s].events \subseteq Event
    BY <1>3, <2>1 DEF Tx
  <2>3. row' \in [Contacts -> [state : {"none", "live", "deleted", "gone"}, version : Nat, fields : SUBSET Fields]]
    <3>1. \A c \in Contacts : row[c] \in [state : {"none", "live", "deleted", "gone"}, version : Nat, fields : SUBSET Fields]
      BY <1>0 DEF TypeOK
    <3> QED BY <1>0, <2>1, <2>2, <3>1, RowAfterType DEF Apply
  <2>4. members' \subseteq Lists \X Contacts /\ lists' \subseteq Lists
    BY <1>0, <2>1, <2>2 DEF Apply, Visible, Pairs, TypeOK
  <2>5. outbox' \subseteq log' /\ \A e \in log' : e \in Event
    BY <1>0, <2>1, <2>2 DEF TypeOK
  <2>6. TxTypeOK' /\ ShapeInv'
    BY <1>2, <2>1
  <2> QED BY <1>0, <2>1, <2>3, <2>4, <2>5, <2>6 DEF TypeOK, TypeInv, TxTypeOK
<1>10. ASSUME NEW s \in Sessions, Rollback(s) PROVE TypeInv'
  <2>1. UNCHANGED <<row, members, lists, outbox, log, replica, ops, nextId, mixed>> /\ tx' = [tx EXCEPT ![s] = Idle]
    BY <1>10 DEF Rollback, dbVars
  <2> QED BY <1>2, <1>5, <1>6, <2>1
<1>11. ASSUME NEW e \in outbox, Publish(e) PROVE TypeInv'
  <2>1. UNCHANGED <<row, members, lists, log, tx, ops, nextId>> /\ outbox' = outbox \ {e}
    BY <1>11 DEF Publish, dbVars
  <2>2. e \in Event /\ e.contact \in Contacts
    BY <1>0 DEF TypeOK, Event
  <2>3. replica' \in [Contacts -> [version : Nat, fields : SUBSET Fields, lists : SUBSET Lists]]
    <3>1. [version |-> e.version, fields |-> e.fields, lists |-> e.lists]
             \in [version : Nat, fields : SUBSET Fields, lists : SUBSET Lists]
      BY <2>2 DEF Event
    <3>2. NoCopy \in [version : Nat, fields : SUBSET Fields, lists : SUBSET Lists]
      BY DEF NoCopy
    <3> QED BY <1>0, <1>11, <2>2, <3>1, <3>2 DEF Publish, TypeOK
  <2>4. mixed' \subseteq Contacts
    BY <1>0, <1>11, <2>2 DEF Publish, TypeOK
  <2>5. TxTypeOK' /\ ShapeInv'
    BY <1>0, <2>1 DEF TxTypeOK, ShapeInv, Running
  <2> QED BY <1>0, <2>1, <2>3, <2>4, <2>5 DEF TypeOK, TypeInv
<1>12. CASE UNCHANGED vars
  <2>1. UNCHANGED <<row, members, lists, outbox, log, replica, tx, ops, nextId, mixed>>
    BY <1>12 DEF vars, dbVars
  <2>2. TxTypeOK' /\ ShapeInv'
    BY <1>0, <2>1 DEF TxTypeOK, ShapeInv, Running
  <2> QED BY <1>5, <1>6, <2>1, <2>2
<1> QED BY <1>1, <1>7, <1>8, <1>9, <1>10, <1>11, <1>12 DEF Next

-----------------------------------------------------------------------------
(* The history of a contact *)

\* Fields of transactions that others leave alone.
LEMMA OthersHold ==
    ASSUME NEW s \in Sessions, \A u \in Sessions \ {s} : tx'[u] = tx[u]
    PROVE  \A u \in Sessions \ {s} : /\ Running(u)' <=> Running(u)
                                     /\ Holds(u)' <=> Holds(u)
                                     /\ Announced(u)' <=> Announced(u)
BY DEF Running, Holds, Announced

LEMMA TakenAre ==
    ASSUME TypeInv
    PROVE  /\ \A e \in log : e \in Event
           /\ \A s \in Sessions : Running(s) => tx[s] \in Tx /\ tx[s].events \subseteq Event
           /\ \A e \in Taken : e \in Event
<1>1. \A e \in log : e \in Event
  BY DEF TypeInv, TypeOK
<1>2. \A s \in Sessions : Running(s) => tx[s] \in Tx /\ tx[s].events \subseteq Event
  BY DEF TypeInv, TxTypeOK, Running, Tx
<1>3. \A s \in Sessions : Announced(s) => Running(s)
  BY DEF Announced
<1> QED BY <1>1, <1>2, <1>3 DEF Taken, Upserts

\* A transaction that holds nothing takes a step.
LEMMA HistoryQuiet ==
    ASSUME HistoryInv, ShapeInv', NEW s \in Sessions, \A u \in Sessions \ {s} : tx'[u] = tx[u],
           ~Holds(s)', UNCHANGED <<row, log>>
    PROVE  HistoryInv'
<1>1. \A u \in Sessions : /\ Holds(u)' => Holds(u) /\ tx'[u] = tx[u] /\ u # s
                          /\ Announced(u)' => Announced(u) /\ tx'[u] = tx[u] /\ u # s
  BY OthersHold DEF Holds, Announced
<1>2. Taken' \subseteq Taken
  BY <1>1 DEF Taken, Upserts
<1>3. LockInv'
  BY <1>1 DEF HistoryInv, LockInv
<1>4. FoundInv'
  BY <1>1 DEF HistoryInv, FoundInv
<1>5. EventsInv'
  BY <1>1 DEF HistoryInv, EventsInv, About
<1>6. SnapshotsInv'
  BY <1>2 DEF HistoryInv, SnapshotsInv
<1>7. RowsInv' /\ EveryVersionIsAnnounced'
  BY DEF HistoryInv, RowsInv, EveryVersionIsAnnounced, Upserts
<1> QED BY <1>3, <1>4, <1>5, <1>6, <1>7 DEF HistoryInv

LEMMA HistoryChange ==
    ASSUME TypeInv, HistoryInv, ShapeInv', NEW s \in Sessions, Change(s)
    PROVE  HistoryInv'
<1>0. TxTypeOK
  BY DEF TypeInv
<1>1. /\ Running(s) /\ tx[s].at = "begun" /\ ~Blocked(s) /\ UNCHANGED <<row, log>>
      /\ \A u \in Sessions \ {s} : tx'[u] = tx[u]
  BY <1>0, ChangeMoves
<1>2. CASE tx'[s] = Idle
  BY <1>1, <1>2, HistoryQuiet DEF Holds, Running
<1>3. CASE tx'[s] # Idle
  <2> DEFINE new == IF tx[s].op = "write" THEN Merged(tx[s]) ELSE tx[s].new
  <2>1. Finds(tx[s]) /\ tx'[s] = Stepped(tx[s], "changed", new, tx[s].events)
    BY <1>0, <1>3, ChangeMoves
  <2>2. tx'[s].op = tx[s].op /\ tx'[s].contacts = tx[s].contacts /\ tx'[s].new = new /\ tx'[s].at = "changed"
    BY <2>1, SteppedFields
  <2>3. \A u \in Sessions : Announced(u)' => Announced(u) /\ u # s /\ tx'[u] = tx[u]
    BY <1>1, <2>2, OthersHold DEF Announced
  <2>4. \A u \in Sessions \ {s} : Holds(u)' => Holds(u) /\ tx'[u] = tx[u]
    BY <1>1, OthersHold
  <2>5. Taken' \subseteq Taken
    BY <1>1, <2>3 DEF Taken, Upserts
  <2>6. LockInv'
    <3>1. ASSUME NEW u \in Sessions \ {s}, Holds(u), tx[s].op \in RowOps, tx[u].op \in RowOps,
                 tx[s].contacts \cap tx[u].contacts # {}
          PROVE  FALSE
      <4>1. {tx[s].op, tx[u].op} \subseteq {"write", "delete", "forget"}
        BY <3>1 DEF RowOps
      <4>2. Clash(tx[s], tx[u])
        BY <3>1, <4>1 DEF Clash, RowClash
      <4> QED BY <1>1, <3>1, <4>2 DEF Blocked, Holds
    <3> QED BY <2>2, <2>4, <3>1 DEF HistoryInv, LockInv
  <2>7. FoundInv'
    <3> SUFFICES ASSUME NEW c \in Contacts, c \in tx[s].contacts
                 PROVE  /\ tx[s].op = "write" => /\ row[c].state \in {"none", "live"}
                                                 /\ new.version = row[c].version + 1
                                                 /\ row[c].fields \subseteq new.fields
                        /\ tx[s].op = "delete" => row[c].state = "live"
                        /\ tx[s].op = "forget" => row[c].state \in {"live", "deleted"}
      BY <1>1, <2>2, <2>4 DEF HistoryInv, FoundInv
    <3>1. CASE tx[s].op = "write"
      <4>1. tx[s].contacts = {c}
        BY <1>1, <3>1 DEF HistoryInv, ShapeInv
      <4>2. Merged(tx[s]) = [version |-> row[c].version + 1, fields |-> row[c].fields \cup {tx[s].field}]
        BY <4>1, MergedOfOne
      <4> QED BY <2>1, <3>1, <4>2 DEF Finds
    <3>2. CASE tx[s].op # "write"
      BY <2>1, <3>2 DEF Finds
    <3> QED BY <3>1, <3>2
  <2>8. EventsInv'
    BY <2>3 DEF HistoryInv, EventsInv, About
  <2>9. SnapshotsInv'
    BY <1>1, <2>5 DEF HistoryInv, SnapshotsInv
  <2>10. RowsInv' /\ EveryVersionIsAnnounced'
    BY <1>1 DEF HistoryInv, RowsInv, EveryVersionIsAnnounced, Upserts
  <2> QED BY <2>6, <2>7, <2>8, <2>9, <2>10 DEF HistoryInv
<1> QED BY <1>2, <1>3

\* What a transaction announces.
LEMMA EventsAre ==
    ASSUME TypeOK, NEW t \in Tx,
           IF t.op = "drop" THEN t.contacts = {} ELSE t.seen = {} /\ \E c \in Contacts : t.contacts = {c}
    PROVE  /\ \A e \in EventsOf(t) : e.contact \in About(t) /\ e.contact \in Contacts /\ e.id = nextId
           /\ \A e, f \in EventsOf(t) : e.contact = f.contact => e = f
           /\ t.op \in {"delete", "forget"} =>
                 /\ \A e \in EventsOf(t) : e.type = "deleted"
                 /\ \A c \in t.contacts : \E e \in EventsOf(t) : e.contact = c
           /\ t.op = "write" =>
                 /\ \A e \in EventsOf(t) : /\ e.type = "upserted" /\ e.version = t.new.version
                                           /\ e.fields = t.new.fields /\ e.lists = ListsIn(Visible(t), e.contact)
                 /\ \A c \in t.contacts : \E e \in EventsOf(t) : e.contact = c
           /\ t.op \notin RowOps =>
                 /\ \A e \in EventsOf(t) : /\ e.type = "upserted" /\ e.version = row[e.contact].version
                                           /\ e.fields = row[e.contact].fields
                                           /\ e.lists = ListsIn(Visible(t), e.contact)
                 /\ \A c \in About(t) : row[c].state = "live" => \E e \in EventsOf(t) : e.contact = c
<1>1. About(t) \subseteq Contacts
  BY DEF Tx, About
<1>2. \A c : Deleted(c).id = nextId /\ Deleted(c).type = "deleted" /\ Deleted(c).contact = c
  BY DEF Deleted
<1>3. \A c, version, fields : LET e == Upserted(t, c, version, fields) IN
         /\ e.id = nextId /\ e.type = "upserted" /\ e.contact = c /\ e.version = version
         /\ e.fields = fields /\ e.lists = ListsIn(Visible(t), c)
  BY DEF Upserted, ListsIn
<1>4. CASE t.op \in {"delete", "forget"}
  <2>1. EventsOf(t) = {Deleted(c) : c \in t.contacts}
    BY <1>4 DEF EventsOf
  <2> QED BY <1>1, <1>2, <1>4, <2>1 DEF About, RowOps
<1>5. CASE t.op = "write"
  <2>1. EventsOf(t) = {Upserted(t, c, t.new.version, t.new.fields) : c \in t.contacts}
    BY <1>5 DEF EventsOf, Snapshot
  <2> QED BY <1>1, <1>3, <1>5, <2>1 DEF About, RowOps
<1>6. CASE t.op \notin RowOps
  <2>1. EventsOf(t) = {Upserted(t, c, row[c].version, row[c].fields) :
                          c \in {d \in About(t) : row[d].state \in {"live", "deleted"}}}
    BY <1>6 DEF EventsOf, Snapshot, About, RowOps
  <2> QED BY <1>1, <1>3, <1>6, <2>1 DEF RowOps
<1> QED BY <1>4, <1>5, <1>6 DEF RowOps

LEMMA HistoryAnnounce ==
    ASSUME TypeInv, HistoryInv, ShapeInv', NEW s \in Sessions, Announce(s)
    PROVE  HistoryInv'
<1>0. TypeOK /\ TxTypeOK /\ ShapeInv
  BY DEF TypeInv
<1> DEFINE events == EventsOf(tx[s])
<1>1. /\ Running(s) /\ tx[s].at = "changed" /\ tx[s] \in Tx /\ UNCHANGED <<row, log>>
      /\ \A u \in Sessions \ {s} : tx'[u] = tx[u]
      /\ tx'[s] = Stepped(tx[s], "announced", tx[s].new, events)
  BY <1>0, AnnounceMoves
<1>2. IF tx[s].op = "drop" THEN tx[s].contacts = {}
      ELSE tx[s].seen = {} /\ \E c \in Contacts : tx[s].contacts = {c}
  BY <1>0, <1>1 DEF ShapeInv
<1>3. /\ \A e \in events : e.contact \in About(tx[s]) /\ e.contact \in Contacts
      /\ tx[s].op \in {"delete", "forget"} => \A e \in events : e.type = "deleted"
      /\ tx[s].op = "write" =>
            \A e \in events : e.type = "upserted" /\ e.version = tx[s].new.version /\ e.fields = tx[s].new.fields
      /\ tx[s].op \in RowOps => \A c \in tx[s].contacts : \E e \in events : e.contact = c
      /\ tx[s].op \notin RowOps =>
            \A e \in events : /\ e.type = "upserted" /\ e.version = row[e.contact].version
                              /\ e.fields = row[e.contact].fields
  BY <1>0, <1>1, <1>2, EventsAre DEF RowOps
<1>4. /\ tx'[s].op = tx[s].op /\ tx'[s].contacts = tx[s].contacts /\ tx'[s].new = tx[s].new
      /\ tx'[s].at = "announced" /\ tx'[s].events = events /\ About(tx'[s]) = About(tx[s])
  BY <1>1, SteppedFields
<1> HIDE DEF events
<1>5. \A u \in Sessions : Holds(u)' => /\ Holds(u) /\ tx'[u].op = tx[u].op /\ tx'[u].new = tx[u].new
                                       /\ tx'[u].contacts = tx[u].contacts
  BY <1>1, <1>4, OthersHold DEF Holds
<1>6. \A u \in Sessions \ {s} : Announced(u)' => Announced(u) /\ tx'[u] = tx[u]
  BY <1>1, OthersHold
<1>7. Taken' \subseteq Taken \cup (IF tx[s].op \notin RowOps THEN events ELSE {})
  BY <1>1, <1>4, <1>6 DEF Taken, Upserts
<1>8. LockInv' /\ FoundInv'
  <2>1. LockInv'
    BY <1>5 DEF HistoryInv, LockInv
  <2>2. FoundInv'
    BY <1>1, <1>5 DEF HistoryInv, FoundInv
  <2> QED BY <2>1, <2>2
<1>9. EventsInv'
  <2>1. ASSUME NEW u \in Sessions, Announced(u)', u # s
        PROVE  /\ \A e \in tx'[u].events :
                     /\ e.contact \in About(tx'[u])
                     /\ e.type = "deleted" <=> tx'[u].op \in {"delete", "forget"}
                     /\ tx'[u].op = "write" => e.version = tx'[u].new.version /\ e.fields = tx'[u].new.fields
               /\ tx'[u].op \in RowOps => \A c \in tx'[u].contacts : \E e \in tx'[u].events : e.contact = c
    BY <1>6, <2>1 DEF HistoryInv, EventsInv
  <2>2. /\ \A e \in tx'[s].events :
              /\ e.contact \in About(tx'[s])
              /\ e.type = "deleted" <=> tx'[s].op \in {"delete", "forget"}
              /\ tx'[s].op = "write" => e.version = tx'[s].new.version /\ e.fields = tx'[s].new.fields
        /\ tx'[s].op \in RowOps => \A c \in tx'[s].contacts : \E e \in tx'[s].events : e.contact = c
    BY <1>3, <1>4 DEF RowOps
  <2> QED BY <2>1, <2>2 DEF EventsInv, About
<1>10. SnapshotsInv'
  <2>1. \A e \in Taken' : /\ e.version <= row[e.contact].version
                          /\ e.fields \subseteq row[e.contact].fields
                          /\ e.version = row[e.contact].version => e.fields = row[e.contact].fields
    <3>1. \A c \in Contacts : row[c].version <= row[c].version
      BY <1>0 DEF TypeOK
    <3> QED BY <1>3, <1>7, <3>1 DEF HistoryInv, SnapshotsInv
  <2>2. ASSUME NEW e \in Taken', NEW f \in Taken', e.contact = f.contact, e.version <= f.version
        PROVE  e.fields \subseteq f.fields
    <3>1. CASE e \in Taken /\ f \in Taken
      BY <2>2, <3>1 DEF HistoryInv, SnapshotsInv
    <3>2. CASE f \notin Taken
      BY <1>3, <1>7, <2>1, <2>2, <3>2
    <3>3. CASE e \notin Taken /\ f \in Taken
      <4>1. e \in events /\ e.version = row[f.contact].version /\ e.fields = row[f.contact].fields
        BY <1>3, <1>7, <2>2, <3>3
      <4>2. f.version <= row[f.contact].version /\ f.version \in Nat /\ row[f.contact].version \in Nat
        BY <1>0, <2>1, TakenAre, <3>3 DEF TypeOK, Event
      <4>3. f.version = row[f.contact].version
        BY <2>2, <4>1, <4>2
      <4> QED BY <2>1, <4>1, <4>3
    <3> QED BY <3>1, <3>2, <3>3
  <2> QED BY <1>1, <2>1, <2>2 DEF SnapshotsInv
<1>11. RowsInv' /\ EveryVersionIsAnnounced'
  BY <1>1 DEF HistoryInv, RowsInv, EveryVersionIsAnnounced, Upserts
<1> QED BY <1>8, <1>9, <1>10, <1>11 DEF HistoryInv

\* What a commit leaves of the rows and the log.
LEMMA CommitMoves ==
    ASSUME TypeInv, HistoryInv, NEW s \in Sessions, Commit(s)
    PROVE  /\ Announced(s) /\ tx[s] \in Tx
           /\ IF tx[s].op = "drop" THEN tx[s].contacts = {}
              ELSE tx[s].seen = {} /\ \E c \in Contacts : tx[s].contacts = {c}
           /\ tx'[s] = Idle /\ \A u \in Sessions \ {s} : tx'[u] = tx[u]
           /\ \A u \in Sessions : /\ Running(u)' => u # s /\ Running(u) /\ tx'[u] = tx[u]
                                  /\ Holds(u)' => u # s /\ Holds(u) /\ tx'[u] = tx[u]
                                  /\ Announced(u)' => u # s /\ Announced(u) /\ tx'[u] = tx[u]
           /\ \A c \in Contacts : row'[c] = IF c \in tx[s].contacts THEN RowAfter(tx[s], c) ELSE row[c]
           /\ log' = log \cup tx[s].events /\ outbox' = outbox \cup tx[s].events
           /\ UNCHANGED <<replica, ops, nextId, mixed>>
<1>1. Running(s) /\ tx[s].at = "announced" /\ Apply(tx[s]) /\ tx' = [tx EXCEPT ![s] = Idle]
  BY DEF Commit
<1>2. /\ tx[s] \in Tx /\ TxTypeOK
      /\ IF tx[s].op = "drop" THEN tx[s].contacts = {}
         ELSE tx[s].seen = {} /\ \E c \in Contacts : tx[s].contacts = {c}
  BY <1>1 DEF TypeInv, TxTypeOK, Running, ShapeInv
<1>3. /\ tx'[s] = Idle /\ \A u \in Sessions \ {s} : tx'[u] = tx[u]
      /\ \A u \in Sessions : Running(u)' => u # s /\ Running(u) /\ tx'[u] = tx[u]
  BY <1>1, <1>2, EndMoves
<1>4. \A u \in Sessions : /\ Holds(u)' => u # s /\ Holds(u) /\ tx'[u] = tx[u]
                          /\ Announced(u)' => u # s /\ Announced(u) /\ tx'[u] = tx[u]
  BY <1>3 DEF Holds, Announced
<1>5. \A c \in Contacts : row'[c] = IF c \in tx[s].contacts THEN RowAfter(tx[s], c) ELSE row[c]
  BY <1>1 DEF Apply
<1> QED BY <1>1, <1>2, <1>3, <1>4, <1>5 DEF Commit, Announced

\* A transaction on a list commits its snapshots; no row changes.
LEMMA HistoryCommitLists ==
    ASSUME TypeInv, HistoryInv, ShapeInv', NEW s \in Sessions, Commit(s), tx[s].op \notin RowOps
    PROVE  HistoryInv'
<1>1. /\ Announced(s) /\ log' = log \cup tx[s].events /\ s \in Sessions
      /\ \A u \in Sessions : /\ Holds(u)' => u # s /\ Holds(u) /\ tx'[u] = tx[u]
                             /\ Announced(u)' => u # s /\ Announced(u) /\ tx'[u] = tx[u]
  BY CommitMoves
<1>2. \A c \in Contacts : row'[c] = row[c]
  <2>1. \A c \in Contacts : RowAfter(tx[s], c) = row[c]
    BY DEF RowAfter, RowOps
  <2>2. \A c \in Contacts : row'[c] = IF c \in tx[s].contacts THEN RowAfter(tx[s], c) ELSE row[c]
    BY CommitMoves
  <2> QED BY <2>1, <2>2
<1>3. \A e \in tx[s].events : e.contact \in Contacts /\ e.type = "upserted"
  <2>1. \A e \in tx[s].events : e \in Event /\ e.type # "deleted"
    BY <1>1, TakenAre DEF HistoryInv, EventsInv, RowOps, Announced
  <2> QED BY <2>1 DEF Event
<1>4. Taken' \subseteq Taken /\ \A e \in Taken : e.contact \in Contacts
  <2>1. Taken' \subseteq Taken
    BY <1>1, <1>3 DEF Taken, Upserts
  <2> QED BY <2>1, TakenAre DEF Event
<1>5. Upserts \subseteq Upserts' /\ log \subseteq log' /\ \A e \in log' \ log : e.type = "upserted"
  BY <1>1, <1>3 DEF Upserts
<1>6. LockInv'
  BY <1>1 DEF HistoryInv, LockInv
<1>7. FoundInv'
  BY <1>1, <1>2 DEF HistoryInv, FoundInv
<1>8. EventsInv'
  BY <1>1 DEF HistoryInv, EventsInv, About
<1>9. SnapshotsInv'
  BY <1>2, <1>4 DEF HistoryInv, SnapshotsInv
<1>10. RowsInv'
  BY <1>2, <1>5 DEF HistoryInv, RowsInv
<1>11. EveryVersionIsAnnounced'
  BY <1>2, <1>5 DEF HistoryInv, EveryVersionIsAnnounced
<1> QED BY <1>6, <1>7, <1>8, <1>9, <1>10, <1>11 DEF HistoryInv

\* What the other transactions hold is not about the contact whose row changes.
LEMMA OthersApart ==
    ASSUME TypeInv, HistoryInv, NEW s \in Sessions, Commit(s), NEW c \in Contacts, tx[s].contacts = {c},
           tx[s].op \in RowOps
    PROVE  /\ \A u \in Sessions : Holds(u)' /\ tx[u].op \in RowOps => c \notin tx[u].contacts
           /\ LockInv' /\ EventsInv' /\ FoundInv'
<1>1. /\ Holds(s) /\ \A d \in Contacts \ {c} : row'[d] = row[d]
      /\ \A u \in Sessions : /\ Holds(u)' => u # s /\ Holds(u) /\ tx'[u] = tx[u]
                             /\ Announced(u)' => u # s /\ Announced(u) /\ tx'[u] = tx[u]
  BY CommitMoves DEF Holds, Announced
<1>2. \A u \in Sessions : Holds(u)' /\ tx[u].op \in RowOps => c \notin tx[u].contacts
  BY <1>1 DEF HistoryInv, LockInv
<1>3. LockInv' /\ EventsInv'
  BY <1>1 DEF HistoryInv, LockInv, EventsInv, About
<1>4. FoundInv'
  <2> SUFFICES ASSUME NEW u \in Sessions, NEW d \in Contacts, Holds(u)', d \in tx'[u].contacts
               PROVE  /\ tx'[u].op = "write" => /\ row'[d].state \in {"none", "live"}
                                                /\ tx'[u].new.version = row'[d].version + 1
                                                /\ row'[d].fields \subseteq tx'[u].new.fields
                      /\ tx'[u].op = "delete" => row'[d].state = "live"
                      /\ tx'[u].op = "forget" => row'[d].state \in {"live", "deleted"}
    BY DEF FoundInv
  <2>1. CASE d = c
    BY <1>1, <1>2, <2>1 DEF RowOps
  <2>2. CASE d # c
    BY <1>1, <2>2 DEF HistoryInv, FoundInv
  <2> QED BY <2>1, <2>2
<1> QED BY <1>2, <1>3, <1>4

\* A write commits the next version of its contact, and the event of it.
LEMMA HistoryCommitWrite ==
    ASSUME TypeInv, HistoryInv, ShapeInv', NEW s \in Sessions, Commit(s), tx[s].op = "write"
    PROVE  HistoryInv'
<1> DEFINE t == tx[s]
<1>1. PICK c \in Contacts : t.contacts = {c} /\ t.seen = {}
  BY CommitMoves
<1>2. /\ Announced(s) /\ Holds(s) /\ t \in Tx /\ log' = log \cup t.events
      /\ \A u \in Sessions : Announced(u)' => u # s /\ Announced(u) /\ tx'[u] = tx[u]
      /\ \A d \in Contacts \ {c} : row'[d] = row[d]
      /\ row'[c] = [state |-> "live", version |-> t.new.version, fields |-> t.new.fields]
  BY <1>1, CommitMoves DEF RowAfter, Announced, Holds
<1>3. /\ row[c].state \in {"none", "live"} /\ t.new.version = row[c].version + 1
      /\ row[c].fields \subseteq t.new.fields /\ row[c].version \in Nat
  BY <1>1, <1>2 DEF HistoryInv, FoundInv, TypeInv, TypeOK
<1>4. /\ \A e \in t.events : /\ e \in Event /\ e.contact = c /\ e.type = "upserted"
                             /\ e.version = t.new.version /\ e.fields = t.new.fields
      /\ \E e \in t.events : e.contact = c
  <2>1. \A e \in t.events : e \in Event /\ e.type \in {"upserted", "deleted"}
    BY <1>2, TakenAre DEF Announced, Event
  <2>2. About(t) = {c}
    BY <1>1 DEF About
  <2> HIDE DEF t
  <2>3. /\ \A e \in t.events : /\ e.contact \in About(t)
                               /\ e.type = "deleted" <=> t.op \in {"delete", "forget"}
                               /\ t.op = "write" => e.version = t.new.version /\ e.fields = t.new.fields
        /\ t.op \in RowOps => \A d \in t.contacts : \E e \in t.events : e.contact = d
    BY <1>2 DEF HistoryInv, EventsInv, t
  <2>4. t.op = "write"
    BY DEF t
  <2> QED BY <1>1, <2>1, <2>2, <2>3, <2>4 DEF RowOps
<1> HIDE DEF t
<1>5. \A e \in Taken : e \in Event /\ e.contact \in Contacts
  BY TakenAre DEF Event
<1>6. Taken' \subseteq Taken \cup t.events /\ Upserts' = Upserts \cup t.events
  BY <1>2, <1>4 DEF Taken, Upserts, t
<1>7. LockInv' /\ EventsInv' /\ FoundInv'
  BY <1>1, OthersApart DEF RowOps, t
<1>8. SnapshotsInv'
  <2>1. \A e \in Taken' : /\ e.version <= row'[e.contact].version
                          /\ e.fields \subseteq row'[e.contact].fields
                          /\ e.version = row'[e.contact].version => e.fields = row'[e.contact].fields
    <3>1. ASSUME NEW e \in Taken, e.contact = c
          PROVE  e.version < t.new.version /\ e.fields \subseteq t.new.fields
      <4>1. e.version <= row[c].version /\ e.fields \subseteq row[c].fields /\ e.version \in Nat
        BY <1>5, <3>1 DEF HistoryInv, SnapshotsInv, Event
      <4> QED BY <1>3, <4>1
    <3>2. ASSUME NEW e \in Taken, e.contact = c
          PROVE  e.version <= t.new.version /\ e.fields \subseteq t.new.fields /\ e.version # t.new.version
      <4>1. e.version \in Nat /\ t.new.version \in Nat
        BY <1>3, <1>5 DEF Event
      <4> QED BY <3>1, <3>2, <4>1
    <3>3. t.new.version <= t.new.version
      BY <1>3
    <3> QED BY <1>2, <1>4, <1>5, <1>6, <3>2, <3>3 DEF HistoryInv, SnapshotsInv
  <2>2. ASSUME NEW e \in Taken', NEW f \in Taken', e.contact = f.contact, e.version <= f.version
        PROVE  e.fields \subseteq f.fields
    <3>1. CASE e \in Taken /\ f \in Taken
      BY <2>2, <3>1 DEF HistoryInv, SnapshotsInv
    <3>2. CASE f \notin Taken
      BY <1>2, <1>4, <1>6, <2>1, <2>2, <3>2
    <3>3. CASE e \notin Taken /\ f \in Taken
      <4>1. e \in t.events /\ e.version = t.new.version /\ f.contact = c
        BY <1>4, <1>6, <2>2, <3>3
      <4>2. f.version <= row[c].version /\ f.version \in Nat
        BY <1>5, <3>3, <4>1 DEF HistoryInv, SnapshotsInv, Event
      <4> QED BY <1>3, <2>2, <4>1, <4>2
    <3> QED BY <3>1, <3>2, <3>3
  <2> QED BY <2>1, <2>2 DEF SnapshotsInv
<1>9. RowsInv'
  <2>1. \A e \in log' : e.contact = c => e.type = "upserted"
    BY <1>2, <1>3, <1>4 DEF HistoryInv, RowsInv
  <2>2. \A e \in log' : e.contact # c => e \in log
    BY <1>2, <1>4
  <2> QED BY <1>2, <1>3, <2>1, <2>2 DEF HistoryInv, RowsInv
<1>10. EveryVersionIsAnnounced'
  <2> SUFFICES ASSUME NEW d \in Contacts
               PROVE  /\ row'[d].state \in {"deleted", "gone"} => \E e \in log' : e.type = "deleted" /\ e.contact = d
                      /\ \A v \in 1..row'[d].version :
                            \/ \E e \in Upserts' : e.contact = d /\ e.version = v
                            \/ row'[d].state \in {"deleted", "gone"} /\ v = row'[d].version
    BY DEF EveryVersionIsAnnounced
  <2>1. /\ row[d].state \in {"deleted", "gone"} => \E e \in log : e.type = "deleted" /\ e.contact = d
        /\ \A v \in 1..row[d].version :
              \/ \E e \in Upserts : e.contact = d /\ e.version = v
              \/ row[d].state \in {"deleted", "gone"} /\ v = row[d].version
    BY DEF HistoryInv, EveryVersionIsAnnounced
  <2>2. CASE d # c
    BY <1>2, <1>6, <2>1, <2>2
  <2>3. CASE d = c
    <3>1. \A v \in 1..row'[c].version : v \in 1..row[c].version \/ v = t.new.version
      BY <1>2, <1>3
    <3> QED BY <1>2, <1>3, <1>4, <1>6, <2>1, <2>3, <3>1
  <2> QED BY <2>2, <2>3
<1> QED BY <1>7, <1>8, <1>9, <1>10 DEF HistoryInv

\* A deletion commits a version that has no snapshot, or no version, and the event of it.
LEMMA HistoryCommitEnd ==
    ASSUME TypeInv, HistoryInv, ShapeInv', NEW s \in Sessions, Commit(s), tx[s].op \in {"delete", "forget"}
    PROVE  HistoryInv'
<1> DEFINE t == tx[s]
<1>1. PICK c \in Contacts : t.contacts = {c} /\ t.seen = {}
  BY CommitMoves
<1>2. /\ Announced(s) /\ Holds(s) /\ t \in Tx /\ log' = log \cup t.events
      /\ \A u \in Sessions : Announced(u)' => u # s /\ Announced(u) /\ tx'[u] = tx[u]
      /\ \A d \in Contacts \ {c} : row'[d] = row[d]
      /\ row'[c] = RowAfter(t, c)
  BY <1>1, CommitMoves DEF Announced, Holds
<1>3. /\ row[c] \in [state : {"none", "live", "deleted", "gone"}, version : Nat, fields : SUBSET Fields]
      /\ row[c].version \in Nat /\ row[c].state \in {"live", "deleted"}
      /\ t.op = "delete" => row[c].state = "live"
  BY <1>1, <1>2 DEF HistoryInv, FoundInv, TypeInv, TypeOK
<1>4. /\ row'[c].state \in {"deleted", "gone"} /\ row'[c].fields = row[c].fields
      /\ \/ row'[c].version = row[c].version + 1 /\ row[c].state = "live"
         \/ row'[c].version = row[c].version
      /\ row'[c].version \in Nat
  <2>1. CASE t.op = "delete"
    <3> DEFINE ended == [row[c] EXCEPT !.state = "deleted"]
    <3>1. row'[c] = [ended EXCEPT !.version = @ + 1]
      BY <1>2, <1>3, <2>1 DEF RowAfter
    <3>2. /\ ended.version = row[c].version /\ ended.state = "deleted" /\ ended.fields = row[c].fields
          /\ ended \in [state : {"none", "live", "deleted", "gone"}, version : Nat, fields : SUBSET Fields]
      BY <1>3
    <3> HIDE DEF ended
    <3> QED BY <1>3, <2>1, <3>1, <3>2
  <2>2. CASE t.op = "forget"
    BY <1>2, <1>3, <2>2 DEF RowAfter
  <2> QED BY <2>1, <2>2
<1>5. /\ \A e \in t.events : e.contact = c /\ e.type = "deleted"
      /\ \E e \in t.events : e.contact = c
  <2>1. About(t) = {c}
    BY <1>1 DEF About
  <2> HIDE DEF t
  <2>2. /\ \A e \in t.events : e.contact \in About(t) /\ (e.type = "deleted" <=> t.op \in {"delete", "forget"})
        /\ t.op \in RowOps => \A d \in t.contacts : \E e \in t.events : e.contact = d
    BY <1>2 DEF HistoryInv, EventsInv, t
  <2>3. t.op \in {"delete", "forget"}
    BY DEF t
  <2> QED BY <1>1, <2>1, <2>2, <2>3 DEF RowOps
<1> HIDE DEF t
<1>6. \A e \in Taken : e \in Event /\ e.contact \in Contacts
  BY TakenAre DEF Event
<1>7. Taken' \subseteq Taken /\ Upserts' = Upserts
  BY <1>2, <1>5 DEF Taken, Upserts
<1>8. LockInv' /\ EventsInv' /\ FoundInv'
  BY <1>1, OthersApart DEF RowOps, t
<1>9. SnapshotsInv'
  <2>1. ASSUME NEW e \in Taken, e.contact = c
        PROVE  /\ e.version <= row'[c].version /\ e.fields \subseteq row'[c].fields
               /\ e.version = row'[c].version => e.fields = row'[c].fields
    <3>1. /\ e.version <= row[c].version /\ e.fields \subseteq row[c].fields /\ e.version \in Nat
          /\ e.version = row[c].version => e.fields = row[c].fields
      BY <1>6, <2>1 DEF HistoryInv, SnapshotsInv, Event
    <3> QED BY <1>3, <1>4, <3>1
  <2> QED BY <1>2, <1>6, <1>7, <2>1 DEF HistoryInv, SnapshotsInv
<1>10. RowsInv'
  <2>1. \A e \in log' : e.contact # c => e \in log
    BY <1>2, <1>5
  <2> QED BY <1>2, <1>4, <2>1 DEF HistoryInv, RowsInv
<1>11. EveryVersionIsAnnounced'
  <2> SUFFICES ASSUME NEW d \in Contacts
               PROVE  /\ row'[d].state \in {"deleted", "gone"} => \E e \in log' : e.type = "deleted" /\ e.contact = d
                      /\ \A v \in 1..row'[d].version :
                            \/ \E e \in Upserts' : e.contact = d /\ e.version = v
                            \/ row'[d].state \in {"deleted", "gone"} /\ v = row'[d].version
    BY DEF EveryVersionIsAnnounced
  <2>1. /\ row[d].state \in {"deleted", "gone"} => \E e \in log : e.type = "deleted" /\ e.contact = d
        /\ \A v \in 1..row[d].version :
              \/ \E e \in Upserts : e.contact = d /\ e.version = v
              \/ row[d].state \in {"deleted", "gone"} /\ v = row[d].version
    BY DEF HistoryInv, EveryVersionIsAnnounced
  <2>2. CASE d # c
    BY <1>2, <1>7, <2>1, <2>2
  <2>3. CASE d = c
    <3>1. \A v \in 1..row'[c].version : v \in 1..row[c].version \/ v = row'[c].version
      BY <1>3, <1>4
    <3>2. \A v \in 1..row[c].version :
             v = row'[c].version \/ \E e \in Upserts : e.contact = c /\ e.version = v
      BY <1>3, <1>4, <2>1, <2>3
    <3> QED BY <1>2, <1>4, <1>5, <1>7, <2>3, <3>1, <3>2
  <2> QED BY <2>2, <2>3
<1> QED BY <1>8, <1>9, <1>10, <1>11 DEF HistoryInv

LEMMA HistoryNext == TypeInv /\ HistoryInv /\ [Next]_vars => HistoryInv'
<1> SUFFICES ASSUME TypeInv, HistoryInv, [Next]_vars PROVE HistoryInv'
  OBVIOUS
<1>0. TxTypeOK /\ ShapeInv'
  BY TypesNext DEF TypeInv
<1>1. ASSUME NEW s \in Sessions, Begin(s) PROVE HistoryInv'
  <2>1. ASSUME NEW op, NEW cs, NEW ls, NEW seen, Start(s, op, cs, ls, seen) PROVE HistoryInv'
    <3>1. /\ \A u \in Sessions \ {s} : tx'[u] = tx[u]
          /\ UNCHANGED <<row, log>>
      BY <1>0, <2>1, StartMoves
    <3>2. tx'[s].at = "begun"
      BY <1>0, <2>1, StartMoves
    <3> QED BY <1>0, <3>1, <3>2, HistoryQuiet DEF Holds
  <2> QED BY <1>1, <2>1 DEF Begin, BeginWrite, BeginDelete, BeginForget, BeginChange, BeginDrop
<1>2. ASSUME NEW s \in Sessions, Commit(s) PROVE HistoryInv'
  BY <1>0, <1>2, HistoryCommitLists, HistoryCommitWrite, HistoryCommitEnd DEF RowOps
<1>3. ASSUME NEW s \in Sessions, Rollback(s) PROVE HistoryInv'
  <2>1. tx'[s] = Idle /\ (\A u \in Sessions \ {s} : tx'[u] = tx[u]) /\ UNCHANGED <<row, log>>
    BY <1>0, <1>3, EndMoves DEF Rollback, dbVars
  <2> QED BY <1>0, <2>1, HistoryQuiet DEF Holds, Running
<1>4. ASSUME UNCHANGED <<row, log, tx>> PROVE HistoryInv'
  <2>1. \A s : (Running(s)' <=> Running(s)) /\ (Holds(s)' <=> Holds(s)) /\ (Announced(s)' <=> Announced(s))
    BY <1>4 DEF Running, Holds, Announced
  <2>2. Upserts' = Upserts /\ Taken' = Taken
    BY <1>4, <2>1 DEF Upserts, Taken
  <2>3. LockInv' /\ FoundInv'
    BY <1>4, <2>1 DEF HistoryInv, LockInv, FoundInv
  <2>4. EventsInv' /\ SnapshotsInv'
    BY <1>4, <2>1, <2>2 DEF HistoryInv, EventsInv, SnapshotsInv, About
  <2>5. RowsInv' /\ EveryVersionIsAnnounced'
    BY <1>4, <2>2 DEF HistoryInv, RowsInv, EveryVersionIsAnnounced
  <2> QED BY <1>0, <2>3, <2>4, <2>5 DEF HistoryInv
<1>5. ASSUME NEW e \in outbox, Publish(e) PROVE HistoryInv'
  BY <1>4, <1>5 DEF Publish, dbVars
<1>6. CASE UNCHANGED vars
  BY <1>4, <1>6 DEF vars, dbVars
<1> QED BY <1>0, <1>1, <1>2, <1>3, <1>5, <1>6, HistoryChange, HistoryAnnounce DEF Next

LEMMA HistoryInit == Init => HistoryInv
<1> SUFFICES ASSUME Init PROVE HistoryInv
  OBVIOUS
<1>1. \A s \in Sessions : ~Running(s) /\ ~Holds(s) /\ ~Announced(s)
  BY DEF Init, Running, Holds, Announced
<1>2. log = {} /\ \A c \in Contacts : row[c].state = "none" /\ row[c].version = 0
  BY DEF Init, NoRow
<1>3. Upserts = {} /\ Taken = {}
  BY <1>1, <1>2 DEF Upserts, Taken
<1> QED BY <1>1, <1>2, <1>3 DEF HistoryInv, ShapeInv, LockInv, FoundInv, EventsInv, SnapshotsInv, RowsInv,
                                EveryVersionIsAnnounced

-----------------------------------------------------------------------------
(* The consumer's copy *)

\* The steps that leave the database and the consumer alone.
LEMMA QuietSteps ==
    ASSUME NEW s \in Sessions, Begin(s) \/ Change(s) \/ Announce(s) \/ Rollback(s)
    PROVE  UNCHANGED <<row, members, lists, outbox, log, replica>>
<1>1. ASSUME NEW op, NEW cs, NEW ls, NEW seen, Start(s, op, cs, ls, seen)
      PROVE  UNCHANGED <<row, members, lists, outbox, log, replica>>
  BY <1>1 DEF Start, dbVars
<1>2. CASE Begin(s)
  BY <1>1, <1>2 DEF Begin, BeginWrite, BeginDelete, BeginForget, BeginChange, BeginDrop
<1>3. CASE Change(s) \/ Announce(s) \/ Rollback(s)
  BY <1>3 DEF Change, Announce, Rollback, dbVars
<1> QED BY <1>2, <1>3

\* What a published event makes of the copies.
LEMMA PublishMoves ==
    ASSUME TypeInv, NEW e \in outbox, Publish(e)
    PROVE  /\ UNCHANGED <<row, members, lists, log, tx, ops, nextId>>
           /\ e \in log /\ e \in Event /\ e.contact \in Contacts /\ e.version \in Nat /\ e.id \in Nat
           /\ outbox' = outbox \ {e} /\ log' \ outbox' = (log \ outbox) \cup {e}
           /\ \A c \in Contacts : c # e.contact => replica'[c] = replica[c]
           /\ \A c \in Contacts : replica[c].version \in Nat
           /\ e.type = "upserted" =>
                 IF e.version < replica[e.contact].version THEN replica'[e.contact] = replica[e.contact]
                 ELSE /\ replica'[e.contact].version = e.version
                      /\ replica'[e.contact].fields = e.fields /\ replica'[e.contact].lists = e.lists
           /\ mixed \subseteq mixed'
           /\ e.contact \notin mixed' => \A f \in outbox : f.contact = e.contact => ~(f.id < e.id)
<1>1. /\ UNCHANGED <<row, members, lists, log, tx, ops, nextId>> /\ outbox' = outbox \ {e}
      /\ replica' = [replica EXCEPT ![e.contact] =
                        IF e.type = "deleted" THEN NoCopy
                        ELSE IF e.version < @.version THEN @
                        ELSE [version |-> e.version, fields |-> e.fields, lists |-> e.lists]]
      /\ mixed' = IF \E f \in outbox : f.contact = e.contact /\ f.id < e.id
                  THEN mixed \cup {e.contact} ELSE mixed
  BY DEF Publish, dbVars
<1>2. e \in log /\ e \in Event /\ e.contact \in Contacts /\ e.version \in Nat /\ e.id \in Nat
  BY DEF TypeInv, TypeOK, Event
<1>3. replica \in [Contacts -> [version : Nat, fields : SUBSET Fields, lists : SUBSET Lists]]
  BY DEF TypeInv, TypeOK
<1>4. /\ \A c \in Contacts : c # e.contact => replica'[c] = replica[c]
      /\ \A c \in Contacts : replica[c].version \in Nat
      /\ e.type = "upserted" =>
            IF e.version < replica[e.contact].version THEN replica'[e.contact] = replica[e.contact]
            ELSE replica'[e.contact] = [version |-> e.version, fields |-> e.fields, lists |-> e.lists]
  BY <1>1, <1>2, <1>3
<1>5. log' \ outbox' = (log \ outbox) \cup {e}
  BY <1>1, <1>2
<1>6. mixed \subseteq mixed' /\ (e.contact \notin mixed' => \A f \in outbox : f.contact = e.contact => ~(f.id < e.id))
  BY <1>1
<1> QED BY <1>1, <1>2, <1>4, <1>5, <1>6

\* A contact that has not ended after a commit had not before; its events that were
\* published are those that were.
LEMMA StillLive ==
    ASSUME TypeInv, HistoryInv, NEW s \in Sessions, Commit(s), NEW c \in Contacts,
           row'[c].state \in {"none", "live"}
    PROVE  row[c].state \in {"none", "live"}
<1>1. /\ Holds(s) /\ tx[s] \in Tx /\ row'[c] = IF c \in tx[s].contacts THEN RowAfter(tx[s], c) ELSE row[c]
  BY CommitMoves DEF Announced, Holds
<1>2. CASE c \notin tx[s].contacts
  BY <1>1, <1>2
<1>3. CASE c \in tx[s].contacts /\ tx[s].op = "write"
  BY <1>1, <1>3 DEF HistoryInv, FoundInv
<1>4. CASE c \in tx[s].contacts /\ tx[s].op \in {"delete", "forget"}
  <2>1. row[c] \in [state : {"none", "live", "deleted", "gone"}, version : Nat, fields : SUBSET Fields]
    BY DEF TypeInv, TypeOK
  <2>2. RowAfter(tx[s], c).state \in {"deleted", "gone"}
    <3>1. CASE tx[s].op = "delete"
      BY <2>1, <3>1 DEF RowAfter
    <3>2. CASE tx[s].op = "forget"
      BY <2>1, <3>2 DEF RowAfter
    <3> QED BY <1>4, <3>1, <3>2
  <2> QED BY <1>1, <1>4, <2>2
<1>5. CASE tx[s].op \notin RowOps
  <2>1. RowAfter(tx[s], c) = row[c]
    BY <1>5 DEF RowAfter, RowOps
  <2> QED BY <1>1, <2>1
<1> QED BY <1>2, <1>3, <1>4, <1>5 DEF RowOps

LEMMA CopyNext == TypeInv /\ HistoryInv /\ CopyInv /\ [Next]_vars => CopyInv'
<1> SUFFICES ASSUME TypeInv, HistoryInv, CopyInv, [Next]_vars PROVE CopyInv'
  OBVIOUS
<1>1. ASSUME UNCHANGED <<row, outbox, log, replica>> PROVE CopyInv'
  BY <1>1 DEF CopyInv, Upserts
<1>2. ASSUME NEW s \in Sessions, Commit(s) PROVE CopyInv'
  <2>1. log' \ outbox' \subseteq log \ outbox /\ Upserts \subseteq Upserts' /\ replica' = replica
    BY <1>2, CommitMoves DEF Upserts
  <2> QED BY <1>2, <2>1, StillLive DEF CopyInv
<1>3. ASSUME NEW e \in outbox, Publish(e) PROVE CopyInv'
  <2>1. /\ row' = row /\ log' = log /\ log' \ outbox' = (log \ outbox) \cup {e}
        /\ e \in log /\ e \in Event /\ e.version \in Nat
        /\ \A c \in Contacts : c # e.contact => replica'[c] = replica[c]
        /\ \A c \in Contacts : replica[c].version \in Nat
        /\ e.type = "upserted" =>
              IF e.version < replica[e.contact].version THEN replica'[e.contact] = replica[e.contact]
              ELSE /\ replica'[e.contact].version = e.version
                   /\ replica'[e.contact].fields = e.fields
    BY <1>3, PublishMoves
  <2>2. Upserts' = Upserts /\ \A f \in log : f.version \in Nat
    BY <2>1, TakenAre DEF Upserts, Event
  <2> SUFFICES ASSUME NEW c \in Contacts, row[c].state \in {"none", "live"}
               PROVE  /\ \A f \in log' \ outbox' : f.contact = c => f.version <= replica'[c].version
                      /\ \/ replica'[c].version = 0
                         \/ \E f \in Upserts : /\ f.contact = c /\ f.version = replica'[c].version
                                               /\ f.fields = replica'[c].fields
    BY <2>1, <2>2 DEF CopyInv
  <2>3. CASE c # e.contact
    BY <2>1, <2>3 DEF CopyInv
  <2>4. CASE c = e.contact
    <3>1. e.type = "upserted" /\ e \in Upserts
      BY <2>1, <2>4 DEF HistoryInv, RowsInv, Upserts
    <3>2. \A f \in log \ outbox : f.contact = c => f.version <= replica[c].version
      BY DEF CopyInv
    <3>3. CASE e.version < replica[c].version
      BY <2>1, <2>4, <3>1, <3>2, <3>3 DEF CopyInv
    <3>4. CASE ~(e.version < replica[c].version)
      <4>1. replica'[c].version = e.version /\ replica'[c].fields = e.fields /\ replica[c].version <= e.version
        BY <2>1, <2>4, <3>1, <3>4
      <4>2. \A f \in log' \ outbox' : f.contact = c => f.version <= e.version
        BY <2>1, <2>2, <3>2, <4>1
      <4> QED BY <2>4, <3>1, <4>1, <4>2
    <3> QED BY <3>3, <3>4
  <2> QED BY <2>3, <2>4
<1>4. CASE UNCHANGED vars
  BY <1>1, <1>4 DEF vars, dbVars
<1> QED BY <1>1, <1>2, <1>3, <1>4, QuietSteps DEF Next

LEMMA CopyInit == Init => CopyInv
BY DEF Init, CopyInv, NoCopy

-----------------------------------------------------------------------------
(* The lists of the consumer's copy *)

\* Transactions that do not overlap stay so when nothing but their stages changes.
LEMMA AloneKept ==
    ASSUME AloneInv, mixed \subseteq mixed', UNCHANGED members,
           \A u \in Sessions : Running(u)' =>
               /\ Running(u) /\ About(tx'[u]) = About(tx[u]) /\ tx'[u].lists = tx[u].lists
               /\ tx'[u].op = tx[u].op /\ tx'[u].seen = tx[u].seen
    PROVE  AloneInv'
<1>1. ASSUME NEW s \in Sessions, NEW u \in Sessions, Running(s)', Running(u)', s # u,
             About(tx'[s]) \cap About(tx'[u]) # {} \/ tx'[s].lists \cap tx'[u].lists # {}
      PROVE  About(tx'[s]) \subseteq mixed'
  BY <1>1 DEF AloneInv
<1>2. ASSUME NEW s \in Sessions, NEW l \in Lists, NEW c \in Contacts \ mixed',
             Running(s)', tx'[s].op = "drop", l \in tx'[s].lists, <<l, c>> \in members'
      PROVE  c \in tx'[s].seen
  BY <1>2 DEF AloneInv
<1> QED BY <1>1, <1>2 DEF AloneInv

\* A step that commits and publishes nothing and announces nothing.
LEMMA ListsQuiet ==
    ASSUME TypeInv, ListsInv, AloneInv', nextId' = nextId, mixed \subseteq mixed',
           UNCHANGED <<row, members, outbox, log, replica>>,
           \A u \in Sessions : Announced(u)' => Announced(u) /\ tx'[u] = tx[u]
    PROVE  ListsInv'
<1>1. IdsInv'
  BY DEF ListsInv, IdsInv
<1>2. PendingInv'
  <2>1. \A t : Visible(t)' = Visible(t)
    BY DEF Visible, Pairs
  <2> QED BY <2>1 DEF ListsInv, PendingInv, About, ListsIn
<1>3. LatestInv'
  BY DEF ListsInv, LatestInv, ListsIn
<1> QED BY <1>1, <1>2, <1>3 DEF ListsInv

LEMMA AloneStart ==
    ASSUME TypeInv, AloneInv, NEW s \in Sessions, NEW op, NEW cs, NEW ls, NEW seen,
           Start(s, op, cs, ls, seen),
           op = "drop" => \A l \in ls, c \in Contacts : <<l, c>> \in members => c \in seen
    PROVE  AloneInv'
<1>0. TxTypeOK
  BY DEF TypeInv
<1>1. /\ \A u \in Sessions \ {s} : tx'[u] = tx[u]
      /\ UNCHANGED members /\ mixed' = mixed \cup Overlapping(cs \cup seen, ls)
      /\ ~Running(s)
  <2>1. mixed' = mixed \cup Overlapping(cs \cup seen, ls) /\ UNCHANGED members
    BY DEF Start, dbVars
  <2>2. ~Running(s) /\ \A u \in Sessions \ {s} : tx'[u] = tx[u]
    BY <1>0, StartMoves
  <2> QED BY <2>1, <2>2
<1>2. tx'[s].op = op /\ tx'[s].contacts = cs /\ tx'[s].lists = ls /\ tx'[s].seen = seen
  <2> DEFINE t == [op |-> op, contacts |-> cs, lists |-> ls, field |-> ops + 1, at |-> "begun",
                   seen |-> seen, new |-> [version |-> 0, fields |-> {}], events |-> {}]
  <2>1. tx' = [tx EXCEPT ![s] = t]
    BY DEF Start
  <2>2. t.op = op /\ t.contacts = cs /\ t.lists = ls /\ t.seen = seen
    OBVIOUS
  <2> HIDE DEF t
  <2>3. tx'[s] = t
    BY <1>0, <2>1 DEF TxTypeOK
  <2> QED BY <2>2, <2>3
<1>3. About(tx'[s]) = cs \cup seen
  BY <1>2 DEF About
<1>4. \A u \in Sessions \ {s} : Running(u)' <=> Running(u)
  BY <1>1, OthersHold
<1>5. ASSUME NEW u \in Sessions \ {s}, Running(u),
             (cs \cup seen) \cap About(tx[u]) # {} \/ ls \cap tx[u].lists # {}
      PROVE  About(tx[u]) \cup cs \cup seen \subseteq mixed'
  <2>1. About(tx[u]) \cup (cs \cup seen) \subseteq Overlapping(cs \cup seen, ls)
    BY <1>5 DEF Overlapping, About
  <2> QED BY <1>1, <2>1
<1>6. ASSUME NEW v \in Sessions, NEW u \in Sessions, Running(v)', Running(u)', v # u,
             About(tx'[v]) \cap About(tx'[u]) # {} \/ tx'[v].lists \cap tx'[u].lists # {}
      PROVE  About(tx'[v]) \subseteq mixed'
  <2>1. CASE v = s
    BY <1>1, <1>2, <1>3, <1>4, <1>5, <1>6, <2>1
  <2>2. CASE u = s
    BY <1>1, <1>2, <1>3, <1>4, <1>5, <1>6, <2>2
  <2>3. CASE v # s /\ u # s
    BY <1>1, <1>4, <1>6, <2>3 DEF AloneInv
  <2> QED BY <2>1, <2>2, <2>3
<1>7. ASSUME NEW v \in Sessions, NEW l \in Lists, NEW c \in Contacts \ mixed',
             Running(v)', tx'[v].op = "drop", l \in tx'[v].lists, <<l, c>> \in members'
      PROVE  c \in tx'[v].seen
  <2>1. CASE v = s
    BY <1>1, <1>2, <1>7, <2>1
  <2>2. CASE v # s
    BY <1>1, <1>4, <1>7, <2>2 DEF AloneInv
  <2> QED BY <2>1, <2>2
<1> QED BY <1>6, <1>7 DEF AloneInv

LEMMA ListsBegin ==
    ASSUME TypeInv, ListsInv, NEW s \in Sessions, Begin(s)
    PROVE  ListsInv'
<1>1. ASSUME NEW op, NEW cs, NEW ls, NEW seen, Start(s, op, cs, ls, seen),
             op = "drop" => \A l \in ls, c \in Contacts : <<l, c>> \in members => c \in seen
      PROVE  ListsInv'
  <2>1. AloneInv'
    BY <1>1, AloneStart DEF ListsInv
  <2>2. /\ \A u \in Sessions \ {s} : tx'[u] = tx[u]
        /\ UNCHANGED <<row, members, outbox, log, replica, nextId>> /\ mixed \subseteq mixed'
    BY <1>1, StartMoves DEF TypeInv
  <2>3. tx'[s].at = "begun"
    BY <1>1, StartMoves DEF TypeInv
  <2>4. \A u \in Sessions : Announced(u)' => Announced(u) /\ tx'[u] = tx[u]
    BY <2>2, <2>3, OthersHold DEF Announced
  <2> QED BY <2>1, <2>2, <2>4, ListsQuiet
<1>2. ASSUME NEW l \in Lists, BeginDrop(s, l) PROVE ListsInv'
  <2>1. Start(s, "drop", {}, {l}, {c \in Contacts : <<l, c>> \in members})
    BY <1>2 DEF BeginDrop
  <2> QED BY <1>1, <2>1
<1>3. ASSUME NEW c \in Contacts, BeginWrite(s, c) \/ BeginDelete(s, c) \/ BeginForget(s, c) PROVE ListsInv'
  BY <1>1, <1>3 DEF BeginWrite, BeginDelete, BeginForget
<1>4. ASSUME NEW c \in Contacts, NEW l \in Lists, BeginChange(s, "add", c, l) \/ BeginChange(s, "remove", c, l)
      PROVE  ListsInv'
  BY <1>1, <1>4 DEF BeginChange
<1> QED BY <1>2, <1>3, <1>4 DEF Begin

\* The stages before the announcement, and a rollback.
LEMMA ListsStep ==
    ASSUME TypeInv, ListsInv, NEW s \in Sessions, Change(s) \/ Rollback(s)
    PROVE  ListsInv'
<1>1. /\ \A u \in Sessions \ {s} : tx'[u] = tx[u]
      /\ UNCHANGED <<row, members, outbox, log, replica, nextId, mixed>>
      /\ Running(s)
      /\ \/ tx'[s] = Idle
         \/ \E new : tx'[s] = Stepped(tx[s], "changed", new, tx[s].events)
  <2>1. CASE Change(s)
    BY <2>1, ChangeMoves DEF TypeInv
  <2>2. CASE Rollback(s)
    BY <2>2, EndMoves DEF Rollback, dbVars, TypeInv
  <2> QED BY <2>1, <2>2
<1>2. Running(s)' => /\ About(tx'[s]) = About(tx[s]) /\ tx'[s].lists = tx[s].lists
                     /\ tx'[s].op = tx[s].op /\ tx'[s].seen = tx[s].seen /\ tx'[s].at = "changed"
  BY <1>1, SteppedFields DEF Running
<1>3. \A u \in Sessions \ {s} : (Running(u)' <=> Running(u)) /\ (Announced(u)' <=> Announced(u))
  BY <1>1, OthersHold
<1>4. AloneInv'
  BY <1>1, <1>2, <1>3, AloneKept DEF ListsInv
<1>5. \A u \in Sessions : Announced(u)' => Announced(u) /\ tx'[u] = tx[u]
  BY <1>1, <1>2, <1>3 DEF Announced
<1> QED BY <1>1, <1>4, <1>5, ListsQuiet

\* What a transaction announces has the next id, the version and the lists of its contact.
LEMMA ListsAnnounce ==
    ASSUME TypeInv, HistoryInv, ListsInv, NEW s \in Sessions, Announce(s)
    PROVE  ListsInv'
<1> DEFINE t == tx[s]
<1>1. /\ Running(s) /\ t.at = "changed" /\ t \in Tx
      /\ \A u \in Sessions \ {s} : tx'[u] = tx[u]
      /\ UNCHANGED <<row, members, outbox, log, replica, mixed>> /\ nextId' = nextId + 1
      /\ tx'[s] = Stepped(t, "announced", t.new, EventsOf(t))
  BY AnnounceMoves DEF TypeInv
<1>2. /\ tx'[s].op = t.op /\ tx'[s].contacts = t.contacts /\ tx'[s].lists = t.lists /\ tx'[s].seen = t.seen
      /\ tx'[s].events = EventsOf(t) /\ About(tx'[s]) = About(t) /\ Visible(tx'[s]) = Visible(t)
  BY <1>1, SteppedFields
<1>3. \A u \in Sessions \ {s} : (Running(u)' <=> Running(u)) /\ (Announced(u)' <=> Announced(u))
  BY <1>1, OthersHold
<1>4. AloneInv'
  BY <1>1, <1>2, <1>3, AloneKept DEF ListsInv
<1>5. nextId \in Nat /\ \A f \in log : f \in Event /\ f.id \in Nat /\ f.id < nextId /\ f.version \in Nat
  BY TakenAre DEF ListsInv, IdsInv, TypeInv, TypeOK, Event
<1>6. IdsInv'
  BY <1>1, <1>5 DEF ListsInv, IdsInv
<1>7. \A w : Visible(w)' = Visible(w)
  BY <1>1 DEF Visible, Pairs
<1>8. LatestInv'
  BY <1>1 DEF ListsInv, LatestInv, ListsIn
<1>9. PendingInv'
  <2>0. TypeOK /\ IF t.op = "drop" THEN t.contacts = {} ELSE t.seen = {} /\ \E c \in Contacts : t.contacts = {c}
    BY <1>1 DEF TypeInv, ShapeInv
  <2>1. /\ \A e \in EventsOf(t) : e.contact \in About(t) /\ e.contact \in Contacts /\ e.id = nextId
        /\ \A e, f \in EventsOf(t) : e.contact = f.contact => e = f
    BY <1>1, <2>0, EventsAre
  <2>2. \A e \in EventsOf(t) : e.type = "upserted" =>
           e.lists = ListsIn(Visible(t), e.contact) /\ row[e.contact].version <= e.version
    <3>1. \A c \in Contacts : row[c].version \in Nat /\ row[c].version <= row[c].version
      BY <2>0 DEF TypeOK
    <3>2. CASE t.op = "write"
      <4>1. \A e \in EventsOf(t) : e.version = t.new.version /\ e.lists = ListsIn(Visible(t), e.contact)
        BY <1>1, <2>0, <3>2, EventsAre
      <4>2. \A c \in t.contacts : t.new.version = row[c].version + 1 /\ c \in Contacts
        BY <1>1, <3>2 DEF HistoryInv, FoundInv, Holds, Tx
      <4>3. About(t) = t.contacts
        BY <2>0, <3>2 DEF About
      <4> QED BY <2>1, <3>1, <4>1, <4>2, <4>3
    <3>3. CASE t.op \notin RowOps
      BY <1>1, <2>0, <2>1, <3>1, <3>3, EventsAre
    <3>4. CASE t.op \in {"delete", "forget"}
      BY <1>1, <2>0, <3>4, EventsAre
    <3> QED BY <3>2, <3>3, <3>4 DEF RowOps
  <2>3. \A f \in log : f.type = "upserted" => f.version <= row[f.contact].version
    BY DEF HistoryInv, SnapshotsInv, Taken, Upserts
  <2>4. ASSUME NEW e \in EventsOf(t), NEW f \in log, f.contact = e.contact
        PROVE  f.id < e.id /\ (e.type = "upserted" /\ f.type = "upserted" => f.version <= e.version)
    <3>1. f.id < e.id
      BY <1>5, <2>1
    <3>2. ASSUME e.type = "upserted", f.type = "upserted" PROVE f.version <= e.version
      <4>1. f.version <= row[e.contact].version /\ row[e.contact].version <= e.version
        BY <2>2, <2>3, <2>4, <3>2
      <4>2. e.version \in Nat /\ f.version \in Nat /\ row[e.contact].version \in Nat
        <5>1. EventsOf(t) \in SUBSET Event
          BY <1>1, <2>0, EventTypes
        <5> QED BY <1>5, <2>0, <5>1 DEF Event, TypeOK
      <4> QED BY <4>1, <4>2
    <3> QED BY <3>1, <3>2
  <2>5. t.op \notin RowOps => \A c \in About(t) : row[c].state = "live" => \E e \in EventsOf(t) : e.contact = c
    BY <1>1, <2>0, EventsAre
  <2>6. ASSUME NEW u \in Sessions, Announced(u)'
        PROVE  /\ \A e, f \in tx'[u].events : e.contact = f.contact => e = f
               /\ \A e \in tx'[u].events :
                     /\ e.id < nextId'
                     /\ e.contact \notin mixed =>
                           /\ \A f \in log : f.contact = e.contact =>
                                 /\ f.id < e.id
                                 /\ e.type = "upserted" /\ f.type = "upserted" => f.version <= e.version
                           /\ e.type = "upserted" => e.lists = ListsIn(Visible(tx'[u]), e.contact)
               /\ tx'[u].op \notin RowOps => \A c \in About(tx'[u]) \ mixed :
                     row[c].state = "live" => \E e \in tx'[u].events : e.contact = c
    <3>1. CASE u = s
      <4>1. \A e \in EventsOf(t) : e.id < nextId + 1
        BY <1>5, <2>1
      <4> QED BY <1>1, <1>2, <2>1, <2>2, <2>4, <2>5, <3>1, <4>1
    <3>2. CASE u # s
      <4>1. Announced(u) /\ tx'[u] = tx[u]
        BY <1>1, <1>3, <2>6, <3>2
      <4>2. tx[u].events \subseteq Event
        BY <4>1, TakenAre DEF Announced
      <4>3. \A e \in tx[u].events : e.id < nextId /\ e.id \in Nat
        BY <4>1, <4>2 DEF ListsInv, PendingInv, Event
      <4>4. \A e \in tx[u].events : e.id < nextId + 1
        BY <1>5, <4>3
      <4> QED BY <1>1, <4>1, <4>4 DEF ListsInv, PendingInv
    <3> QED BY <3>1, <3>2
  <2> QED BY <1>1, <1>7, <2>6 DEF PendingInv, About, ListsIn
<1> QED BY <1>4, <1>6, <1>8, <1>9 DEF ListsInv

\* A commit leaves the memberships, the row and the log of the contacts it is not about.
LEMMA CommitApart ==
    ASSUME TypeInv, HistoryInv, ListsInv, NEW s \in Sessions, Commit(s),
           NEW c \in Contacts, c \notin mixed, c \notin About(tx[s])
    PROVE  /\ row'[c] = row[c]
           /\ \A l \in Lists : <<l, c>> \in members' <=> <<l, c>> \in members
           /\ \A e \in tx[s].events : e.contact # c
<1>1. Announced(s) /\ Running(s) /\ tx[s] \in Tx /\ c \notin tx[s].contacts /\ c \notin tx[s].seen
  BY CommitMoves DEF Announced, About
<1>2. row'[c] = row[c]
  BY <1>1, CommitMoves
<1>3. \A e \in tx[s].events : e.contact # c
  BY <1>1 DEF HistoryInv, EventsInv
<1>4. members' = IF tx[s].op = "forget" THEN {m \in members : m[2] \notin tx[s].contacts} ELSE Visible(tx[s])
  BY DEF Commit, Apply
<1>5. ASSUME NEW l \in Lists PROVE <<l, c>> \in members' <=> <<l, c>> \in members
  <2>1. <<l, c>> \notin Pairs(tx[s])
    BY <1>1 DEF Pairs
  <2>2. CASE tx[s].op = "forget"
    BY <1>1, <1>4, <2>2
  <2>3. CASE tx[s].op = "drop"
    <3>1. <<l, c>> \in members => l \notin tx[s].lists
      BY <1>1, <2>3 DEF ListsInv, AloneInv
    <3>2. members' = {m \in members : m[1] \notin tx[s].lists}
      BY <1>4, <2>3 DEF Visible
    <3> QED BY <3>1, <3>2
  <2>4. CASE tx[s].op \notin {"forget", "drop"}
    BY <1>4, <2>1, <2>4 DEF Visible
  <2> QED BY <2>2, <2>3, <2>4
<1> QED BY <1>2, <1>3, <1>5

LEMMA CommitAlone ==
    ASSUME TypeInv, HistoryInv, ListsInv, NEW s \in Sessions, Commit(s)
    PROVE  AloneInv'
<1>1. /\ Running(s) /\ tx[s] \in Tx /\ mixed' = mixed
      /\ \A u \in Sessions : Running(u)' => u # s /\ Running(u) /\ tx'[u] = tx[u]
  BY CommitMoves DEF Announced
<1>2. ASSUME NEW u \in Sessions, NEW v \in Sessions, Running(u)', Running(v)', u # v,
             About(tx'[u]) \cap About(tx'[v]) # {} \/ tx'[u].lists \cap tx'[v].lists # {}
      PROVE  About(tx'[u]) \subseteq mixed'
  BY <1>1, <1>2 DEF ListsInv, AloneInv
<1>3. ASSUME NEW u \in Sessions, NEW l \in Lists, NEW c \in Contacts \ mixed',
             Running(u)', tx'[u].op = "drop", l \in tx'[u].lists, <<l, c>> \in members'
      PROVE  c \in tx'[u].seen
  <2>1. u # s /\ Running(u) /\ tx'[u] = tx[u] /\ c \notin mixed
    BY <1>1, <1>3
  <2>2. <<l, c>> \in members \/ <<l, c>> \in Pairs(tx[s])
    <3>1. members' = (IF tx[s].op = "forget" THEN {m \in members : m[2] \notin tx[s].contacts} ELSE Visible(tx[s]))
      BY DEF Commit, Apply
    <3>2. \A m : m \in Visible(tx[s]) => m \in members \/ m \in Pairs(tx[s])
      BY DEF Visible
    <3> QED BY <1>3, <3>1, <3>2
  <2>3. CASE <<l, c>> \in members
    BY <1>3, <2>1, <2>3 DEF ListsInv, AloneInv
  <2>4. CASE <<l, c>> \in Pairs(tx[s])
    <3>1. l \in tx[s].lists \cap tx[u].lists /\ c \in About(tx[s])
      BY <1>3, <2>1, <2>4 DEF Pairs, About
    <3>2. About(tx[s]) \subseteq mixed
      BY <1>1, <2>1, <3>1 DEF ListsInv, AloneInv
    <3> QED BY <2>1, <3>1, <3>2
  <2> QED BY <2>2, <2>3, <2>4
<1> QED BY <1>2, <1>3 DEF AloneInv

\* The events of a commit come after those of the log.
LEMMA CommitIds ==
    ASSUME TypeInv, HistoryInv, ListsInv, NEW s \in Sessions, Commit(s)
    PROVE  /\ IdsInv'
           /\ \A e \in tx[s].events : e.contact \notin mixed => e \notin log
           /\ \A c \in Contacts \ mixed : \A e : e.contact = c =>
                 (e \in log' \ outbox' <=> e \in log \ outbox)
<1>1. /\ Announced(s) /\ tx[s] \in Tx /\ mixed' = mixed /\ nextId' = nextId
      /\ log' = log \cup tx[s].events /\ outbox' = outbox \cup tx[s].events
  BY CommitMoves
<1>2. /\ \A e \in log : e.id \in Nat /\ e.version \in Nat
      /\ \A e \in tx[s].events : e.id \in Nat /\ e.version \in Nat
  BY <1>1, TakenAre DEF Event, Announced
<1>3. /\ \A e \in tx[s].events : e.id < nextId
      /\ \A e, f \in tx[s].events : e.contact = f.contact => e = f
      /\ \A e \in tx[s].events, f \in log : e.contact \notin mixed /\ f.contact = e.contact =>
            /\ f.id < e.id
            /\ e.type = "upserted" /\ f.type = "upserted" => f.version <= e.version
  BY <1>1 DEF ListsInv, PendingInv
<1>4. \A e \in tx[s].events : e.contact \notin mixed => e \notin log
  BY <1>2, <1>3
<1>5. \A c \in Contacts \ mixed : \A e : e.contact = c => (e \in log' \ outbox' <=> e \in log \ outbox)
  BY <1>1, <1>4
<1>6. ASSUME NEW e \in log', NEW f \in log', e.contact = f.contact, e.contact \notin mixed
      PROVE  /\ e.id = f.id => e = f
             /\ e.type = "upserted" /\ f.type = "upserted" /\ e.id <= f.id => e.version <= f.version
             /\ e \notin outbox' /\ f \in outbox' => e.id < f.id
  <2>1. CASE e \in log /\ f \in log
    BY <1>1, <1>4, <1>6, <2>1 DEF ListsInv, IdsInv
  <2>2. CASE e \in log /\ f \in tx[s].events
    BY <1>2, <1>3, <1>6, <2>2
  <2>3. CASE e \in tx[s].events /\ f \in log
    BY <1>1, <1>2, <1>3, <1>6, <2>3
  <2>4. CASE e \in tx[s].events /\ f \in tx[s].events
    BY <1>1, <1>2, <1>3, <1>6, <2>4
  <2> QED BY <1>1, <2>1, <2>2, <2>3, <2>4
<1>7. \A e \in log' : e.id < nextId'
  BY <1>1, <1>3 DEF ListsInv, IdsInv
<1>8. IdsInv'
  BY <1>1, <1>6, <1>7 DEF IdsInv
<1> QED BY <1>4, <1>5, <1>8

LEMMA CommitPending ==
    ASSUME TypeInv, HistoryInv, ListsInv, NEW s \in Sessions, Commit(s)
    PROVE  PendingInv'
<1>1. /\ Running(s) /\ tx[s] \in Tx /\ mixed' = mixed /\ nextId' = nextId /\ log' = log \cup tx[s].events
      /\ \A u \in Sessions : Announced(u)' => u # s /\ Announced(u) /\ tx'[u] = tx[u]
  BY CommitMoves DEF Announced
<1>2. ASSUME NEW u \in Sessions, Announced(u), u # s, NEW c \in Contacts \ mixed, c \in About(tx[u])
      PROVE  c \notin About(tx[s])
  BY <1>1, <1>2 DEF ListsInv, AloneInv, Announced
<1>3. ASSUME NEW u \in Sessions, Announced(u), u # s, NEW c \in Contacts \ mixed, c \in About(tx[u])
      PROVE  /\ ListsIn(Visible(tx[u])', c) = ListsIn(Visible(tx[u]), c)
             /\ row'[c] = row[c] /\ \A e \in tx[s].events : e.contact # c
  <2>1. /\ row'[c] = row[c] /\ \A e \in tx[s].events : e.contact # c
        /\ \A l \in Lists : <<l, c>> \in members' <=> <<l, c>> \in members
    BY <1>2, <1>3, CommitApart
  <2>2. tx'[u] = tx[u] /\ Pairs(tx[u])' = Pairs(tx[u])
    BY <1>3, CommitMoves DEF Pairs
  <2>3. \A l \in Lists : <<l, c>> \in Visible(tx[u])' <=> <<l, c>> \in Visible(tx[u])
    BY <2>1, <2>2 DEF Visible
  <2> QED BY <2>1, <2>3 DEF ListsIn
<1>4. ASSUME NEW u \in Sessions, Announced(u)'
      PROVE  /\ \A e, f \in tx'[u].events : e.contact = f.contact => e = f
             /\ \A e \in tx'[u].events :
                   /\ e.id < nextId'
                   /\ e.contact \notin mixed' =>
                         /\ \A f \in log' : f.contact = e.contact =>
                               /\ f.id < e.id
                               /\ e.type = "upserted" /\ f.type = "upserted" => f.version <= e.version
                         /\ e.type = "upserted" => e.lists = ListsIn(Visible(tx[u])', e.contact)
             /\ tx'[u].op \notin RowOps => \A c \in About(tx'[u]) \ mixed' :
                   row'[c].state = "live" => \E e \in tx'[u].events : e.contact = c
  <2>1. u # s /\ Announced(u) /\ tx'[u] = tx[u] /\ tx[u] \in Tx
    BY <1>1, <1>4, TakenAre DEF Announced
  <2>2. About(tx[u]) \subseteq Contacts /\ \A e \in tx[u].events : e.contact \in About(tx[u])
    BY <2>1 DEF HistoryInv, EventsInv, Tx, About
  <2>3. /\ \A e, f \in tx[u].events : e.contact = f.contact => e = f
        /\ \A e \in tx[u].events :
              /\ e.id < nextId
              /\ e.contact \notin mixed =>
                    /\ \A f \in log : f.contact = e.contact =>
                          /\ f.id < e.id
                          /\ e.type = "upserted" /\ f.type = "upserted" => f.version <= e.version
                    /\ e.type = "upserted" => e.lists = ListsIn(Visible(tx[u]), e.contact)
        /\ tx[u].op \notin RowOps => \A c \in About(tx[u]) \ mixed :
              row[c].state = "live" => \E e \in tx[u].events : e.contact = c
    BY <2>1 DEF ListsInv, PendingInv
  <2>4. \A e \in tx[u].events : e.contact \notin mixed =>
           /\ ListsIn(Visible(tx[u])', e.contact) = ListsIn(Visible(tx[u]), e.contact)
           /\ \A f \in tx[s].events : f.contact # e.contact
    BY <1>3, <2>1, <2>2
  <2>5. \A c \in About(tx[u]) \ mixed : row'[c] = row[c]
    BY <1>3, <2>1, <2>2
  <2> QED BY <1>1, <2>1, <2>3, <2>4, <2>5
<1> QED BY <1>4 DEF PendingInv, About, ListsIn

\* After a commit the last event of a contact is the one it wrote; what was published is not touched.
LEMMA CommitLatest ==
    ASSUME TypeInv, HistoryInv, ListsInv, NEW s \in Sessions, Commit(s)
    PROVE  LatestInv'
<1> DEFINE t == tx[s]
<1>1. /\ Announced(s) /\ t \in Tx /\ mixed' = mixed /\ log' = log \cup t.events /\ replica' = replica
      /\ IF t.op = "drop" THEN t.contacts = {} ELSE t.seen = {} /\ \E c \in Contacts : t.contacts = {c}
      /\ \A c \in Contacts : row'[c] = IF c \in t.contacts THEN RowAfter(t, c) ELSE row[c]
  BY CommitMoves
<1>2. ASSUME NEW c \in Contacts \ mixed, row'[c].state = "live", NEW e \in log', e.contact = c,
             \A f \in log' : f.contact = c => f.id <= e.id
      PROVE  e.lists = ListsIn(members', c)
  <2>1. CASE c \notin About(t)
    <3>1. /\ row'[c] = row[c] /\ \A f \in t.events : f.contact # c
          /\ \A l \in Lists : <<l, c>> \in members' <=> <<l, c>> \in members
      BY <2>1, CommitApart
    <3>2. e \in log /\ \A f \in log : f.contact = c => f.id <= e.id
      BY <1>1, <1>2, <3>1
    <3>3. e.lists = ListsIn(members, c)
      BY <1>2, <3>1, <3>2 DEF ListsInv, LatestInv
    <3> QED BY <3>1, <3>3 DEF ListsIn
  <2>2. CASE c \in About(t)
    <3>1. row[c].state \in {"none", "live"} /\ (t.op \notin RowOps => row'[c] = row[c])
      <4>1. t.op \notin RowOps => RowAfter(t, c) = row[c]
        BY DEF RowAfter, RowOps
      <4> QED BY <1>1, <1>2, <4>1, StillLive
    <3>2. t.op \notin {"delete", "forget"}
      <4> SUFFICES ASSUME t.op \in {"delete", "forget"} PROVE FALSE
        OBVIOUS
      <4>1. row'[c] = RowAfter(t, c) /\ c \in t.contacts
        BY <1>1, <2>2 DEF About
      <4>2. row[c] \in [state : {"none", "live", "deleted", "gone"}, version : Nat, fields : SUBSET Fields]
        BY DEF TypeInv, TypeOK
      <4>3. CASE t.op = "delete"
        BY <1>2, <4>1, <4>2, <4>3 DEF RowAfter
      <4>4. CASE t.op = "forget"
        BY <1>2, <4>1, <4>2, <4>4 DEF RowAfter
      <4> QED BY <4>3, <4>4
    <3>3. PICK g \in t.events : g.contact = c
      <4>1. CASE t.op \in RowOps
        <5>1. c \in t.contacts
          BY <1>1, <2>2, <4>1 DEF About, RowOps
        <5> QED BY <1>1, <4>1, <5>1 DEF HistoryInv, EventsInv
      <4>2. CASE t.op \notin RowOps
        BY <1>1, <1>2, <2>2, <3>1, <4>2 DEF ListsInv, PendingInv
      <4> QED BY <4>1, <4>2
    <3>4. /\ \A f \in log : f.contact = c => f.id < g.id
          /\ \A f \in t.events : f.contact = c => f = g
          /\ g.type = "upserted" => g.lists = ListsIn(Visible(t), c)
      BY <1>1, <1>2, <3>3 DEF ListsInv, PendingInv
    <3>5. e = g
      <4>1. g.id <= e.id /\ g.id \in Nat /\ e.id \in Nat
        BY <1>1, <1>2, <3>3, TakenAre DEF Announced, Event
      <4>2. e \notin log
        BY <1>2, <3>4, <4>1
      <4> QED BY <1>1, <1>2, <3>4, <4>2
    <3>6. g.type = "upserted"
      <4>1. g \in Event /\ g.type # "deleted"
        BY <1>1, <3>2, <3>3, TakenAre DEF HistoryInv, EventsInv, Announced
      <4> QED BY <4>1 DEF Event
    <3>7. members' = Visible(t)
      BY <3>2 DEF Commit, Apply
    <3> QED BY <3>4, <3>5, <3>6, <3>7
  <2> QED BY <2>1, <2>2
<1>3. ASSUME NEW c \in Contacts \ mixed, row'[c].state \in {"none", "live"}
      PROVE  \/ replica[c].version = 0 /\ \A e \in log' \ outbox' : e.contact # c
             \/ \E e \in log' \ outbox' :
                   /\ e.contact = c /\ \A f \in log' \ outbox' : f.contact = c => f.id <= e.id
                   /\ replica[c].version = e.version /\ replica[c].lists = e.lists
  <2>1. \A e : e.contact = c => (e \in log' \ outbox' <=> e \in log \ outbox)
    BY <1>3, CommitIds
  <2>2. row[c].state \in {"none", "live"}
    BY <1>3, StillLive
  <2>3. \/ replica[c].version = 0 /\ \A e \in log \ outbox : e.contact # c
        \/ \E e \in log \ outbox :
              /\ e.contact = c /\ \A f \in log \ outbox : f.contact = c => f.id <= e.id
              /\ replica[c].version = e.version /\ replica[c].lists = e.lists
    BY <1>3, <2>2 DEF ListsInv, LatestInv
  <2> QED BY <2>1, <2>3
<1> QED BY <1>1, <1>2, <1>3 DEF LatestInv, ListsIn

LEMMA ListsPublish ==
    ASSUME TypeInv, HistoryInv, CopyInv, ListsInv, NEW e \in outbox, Publish(e)
    PROVE  ListsInv'
<1>1. /\ UNCHANGED <<row, members, log, tx, nextId>> /\ mixed \subseteq mixed'
      /\ e \in log /\ e.contact \in Contacts /\ e.version \in Nat /\ e.id \in Nat
      /\ outbox' = outbox \ {e} /\ log' \ outbox' = (log \ outbox) \cup {e}
      /\ \A c \in Contacts : c # e.contact => replica'[c] = replica[c]
      /\ \A c \in Contacts : replica[c].version \in Nat
      /\ e.type = "upserted" =>
            IF e.version < replica[e.contact].version THEN replica'[e.contact] = replica[e.contact]
            ELSE replica'[e.contact].version = e.version /\ replica'[e.contact].lists = e.lists
      /\ e.contact \notin mixed' => \A f \in outbox : f.contact = e.contact => ~(f.id < e.id)
  BY PublishMoves
<1>2. \A f \in log : f.id \in Nat /\ f.version \in Nat
  BY TakenAre DEF Event
<1>3. \A u : (Running(u)' <=> Running(u)) /\ (Announced(u)' <=> Announced(u))
  BY <1>1 DEF Running, Announced
<1>4. AloneInv'
  BY <1>1, <1>3, AloneKept DEF ListsInv, About
<1>5. \A f, g \in log : f.contact = g.contact /\ f.contact \notin mixed =>
         /\ f.id = g.id => f = g
         /\ f.type = "upserted" /\ g.type = "upserted" /\ f.id <= g.id => f.version <= g.version
         /\ f \notin outbox /\ g \in outbox => f.id < g.id
  BY DEF ListsInv, IdsInv
<1>6. ASSUME NEW f \in log, NEW g \in log, f.contact = g.contact, f.contact \notin mixed',
             f \notin outbox', g \in outbox'
      PROVE  f.id < g.id
  <2>1. CASE f = e
    <3>1. ~(g.id < e.id) /\ g # e
      BY <1>1, <1>6, <2>1
    <3> QED BY <1>1, <1>2, <1>5, <1>6, <2>1, <3>1
  <2>2. CASE f # e
    BY <1>1, <1>5, <1>6, <2>2
  <2> QED BY <2>1, <2>2
<1>7. IdsInv'
  BY <1>1, <1>5, <1>6 DEF ListsInv, IdsInv
<1>8. PendingInv'
  <2>1. \A t : Visible(t)' = Visible(t)
    BY <1>1 DEF Visible, Pairs
  <2> QED BY <1>1, <1>3, <2>1 DEF ListsInv, PendingInv, About, ListsIn
<1>9. ASSUME NEW c \in Contacts \ mixed', row[c].state \in {"none", "live"}
      PROVE  \/ replica'[c].version = 0 /\ \A f \in log' \ outbox' : f.contact # c
             \/ \E f \in log' \ outbox' :
                   /\ f.contact = c /\ \A g \in log' \ outbox' : g.contact = c => g.id <= f.id
                   /\ replica'[c].version = f.version /\ replica'[c].lists = f.lists
  <2>1. \/ replica[c].version = 0 /\ \A f \in log \ outbox : f.contact # c
        \/ \E f \in log \ outbox :
              /\ f.contact = c /\ \A g \in log \ outbox : g.contact = c => g.id <= f.id
              /\ replica[c].version = f.version /\ replica[c].lists = f.lists
    BY <1>1, <1>9 DEF ListsInv, LatestInv
  <2>2. CASE c # e.contact
    BY <1>1, <2>1, <2>2
  <2>3. CASE c = e.contact
    <3>1. \A g \in log \ outbox : g.contact = c => g.id < e.id /\ g.version <= e.version
      <4>1. \A g \in log : g.contact = c => g.type = "upserted"
        BY <1>9 DEF HistoryInv, RowsInv
      <4>2. c \notin mixed
        BY <1>1, <1>9
      <4>3. \A g \in log \ outbox : g.contact = c => g.id < e.id
        BY <1>1, <1>5, <2>3, <4>2
      <4>4. \A g \in log \ outbox : g.contact = c => g.id <= e.id
        BY <1>1, <1>2, <4>3
      <4> QED BY <1>1, <1>5, <2>3, <4>1, <4>2, <4>3, <4>4
    <3>2. ~(e.version < replica[c].version)
      BY <1>1, <1>2, <2>1, <3>1
    <3>3. e.type = "upserted"
      BY <1>1, <1>9, <2>3 DEF HistoryInv, RowsInv
    <3>4. replica'[c].version = e.version /\ replica'[c].lists = e.lists
      BY <1>1, <2>3, <3>2, <3>3
    <3>5. \A g \in log' \ outbox' : g.contact = c => g.id <= e.id
      BY <1>1, <1>2, <3>1
    <3> QED BY <1>1, <2>3, <3>4, <3>5
  <2> QED BY <2>2, <2>3
<1>10. \A c \in Contacts \ mixed' : row[c].state = "live" =>
         \A f \in log : f.contact = c /\ (\A g \in log : g.contact = c => g.id <= f.id)
            => f.lists = ListsIn(members, c)
  BY <1>1 DEF ListsInv, LatestInv
<1>11. LatestInv'
  BY <1>1, <1>9, <1>10 DEF LatestInv, ListsIn
<1> QED BY <1>4, <1>7, <1>8, <1>11 DEF ListsInv

LEMMA ListsNext == TypeInv /\ HistoryInv /\ CopyInv /\ ListsInv /\ [Next]_vars => ListsInv'
<1> SUFFICES ASSUME TypeInv, HistoryInv, CopyInv, ListsInv, [Next]_vars PROVE ListsInv'
  OBVIOUS
<1>1. ASSUME NEW s \in Sessions, Commit(s) PROVE ListsInv'
  BY <1>1, CommitAlone, CommitIds, CommitPending, CommitLatest DEF ListsInv
<1>2. CASE UNCHANGED vars
  <2>1. UNCHANGED <<row, members, outbox, log, replica, tx, nextId, mixed>>
    BY <1>2 DEF vars, dbVars
  <2>2. AloneInv'
    BY <2>1 DEF ListsInv, AloneInv, Running, About
  <2>3. \A u \in Sessions : Announced(u)' => Announced(u) /\ tx'[u] = tx[u]
    BY <2>1 DEF Announced, Running
  <2> QED BY <2>1, <2>2, <2>3, ListsQuiet
<1> QED BY <1>1, <1>2, ListsBegin, ListsStep, ListsAnnounce, ListsPublish DEF Next

LEMMA ListsInit == Init => ListsInv
<1> SUFFICES ASSUME Init PROVE ListsInv
  OBVIOUS
<1>1. /\ \A s \in Sessions : ~Running(s) /\ ~Announced(s)
      /\ log = {} /\ \A c \in Contacts : row[c].state = "none" /\ replica[c].version = 0
  BY DEF Init, Running, Announced, NoRow, NoCopy
<1> QED BY <1>1 DEF ListsInv, AloneInv, IdsInv, PendingInv, LatestInv

-----------------------------------------------------------------------------
(* Theorems *)

\* Rows, memberships, events, copies and transactions have their types.
THEOREM TypeCorrect == Spec => []TypeOK
<1>1. Init => TypeInv
  BY InitTypes
<1>2. TypeInv /\ [Next]_vars => TypeInv'
  BY TypesNext
<1>3. TypeInv => TypeOK
  BY DEF TypeInv
<1> QED BY <1>1, <1>2, <1>3, PTL DEF Spec

LEMMA History == Spec => [](TypeInv /\ HistoryInv)
<1>1. Init => TypeInv /\ HistoryInv
  BY InitTypes, HistoryInit
<1>2. TypeInv /\ HistoryInv /\ [Next]_vars => (TypeInv /\ HistoryInv)'
  BY TypesNext, HistoryNext
<1> QED BY <1>1, <1>2, PTL DEF Spec

\* The version orders a contact's snapshots (contacts.upserted.schema.json:4): the FOR UPDATE
\* of a write, ContactsWriteService.update, keeps its merge and its version in step with the row.
THEOREM VersionsOrder == Spec => []VersionsOrderTheFields
<1>1. HistoryInv => VersionsOrderTheFields
  BY DEF HistoryInv, SnapshotsInv, Taken, VersionsOrderTheFields
<1> QED BY <1>1, History, PTL

\* A change and its event commit together (outbox.ts:88): no version of a contact and no
\* deletion is without its event, wherever transactions fail.
THEOREM EveryVersion == Spec => []EveryVersionIsAnnounced
<1>1. HistoryInv => EveryVersionIsAnnounced
  BY DEF HistoryInv
<1> QED BY <1>1, History, PTL

LEMMA Copies == Spec => [](TypeInv /\ HistoryInv /\ CopyInv /\ ListsInv)
<1>1. Init => TypeInv /\ HistoryInv /\ CopyInv /\ ListsInv
  BY InitTypes, HistoryInit, CopyInit, ListsInit
<1>2. TypeInv /\ HistoryInv /\ CopyInv /\ ListsInv /\ [Next]_vars => (TypeInv /\ HistoryInv /\ CopyInv /\ ListsInv)'
  BY TypesNext, HistoryNext, CopyNext, ListsNext
<1> QED BY <1>1, <1>2, PTL DEF Spec

\* A consumer that replaces its copy by version ends with the fields of every live contact, in
\* whatever order events come, and with "every list the contact belongs to"
\* (contacts.upserted.schema.json:44) unless transactions about it overlapped: only then a
\* change of the lists, which has no version of its own (lists.service.ts:233), is lost.
THEOREM Replica == Spec => []ReplicaFollows
<1>1. ASSUME TypeInv, HistoryInv, CopyInv, ListsInv, Quiescent, NEW c \in Contacts, row[c].state = "live"
      PROVE  /\ replica[c].version = row[c].version /\ replica[c].fields = row[c].fields
             /\ c \in mixed \/ replica[c].lists = ListsIn(members, c)
  <2>1. /\ log \ outbox = log /\ row[c].version \in Nat /\ row[c].version >= 1 /\ replica[c].version \in Nat
    BY <1>1 DEF Quiescent, HistoryInv, RowsInv, TypeInv, TypeOK
  <2>2. PICK e \in Upserts : e.contact = c /\ e.version = row[c].version
    <3>1. row[c].version \in 1..row[c].version
      BY <2>1
    <3> QED BY <1>1, <3>1 DEF HistoryInv, EveryVersionIsAnnounced
  <2>3. e \in log /\ row[c].version <= replica[c].version
    BY <1>1, <2>1, <2>2 DEF CopyInv, Upserts
  <2>4. PICK f \in Upserts : f.contact = c /\ f.version = replica[c].version /\ f.fields = replica[c].fields
    BY <1>1, <2>1, <2>3 DEF CopyInv
  <2>5. f.version <= row[c].version /\ (f.version = row[c].version => f.fields = row[c].fields)
    BY <1>1, <2>4 DEF HistoryInv, SnapshotsInv, Taken
  <2>6. replica[c].version = row[c].version /\ replica[c].fields = row[c].fields
    BY <2>1, <2>3, <2>4, <2>5
  <2>7. ASSUME c \notin mixed PROVE replica[c].lists = ListsIn(members, c)
    <3>1. PICK g \in log : /\ g.contact = c /\ \A h \in log : h.contact = c => h.id <= g.id
                           /\ replica[c].lists = g.lists
      BY <1>1, <2>1, <2>2, <2>3, <2>7 DEF ListsInv, LatestInv
    <3> QED BY <1>1, <2>7, <3>1 DEF ListsInv, LatestInv
  <2> QED BY <2>6, <2>7
<1>2. TypeInv /\ HistoryInv /\ CopyInv /\ ListsInv => ReplicaFollows
  BY <1>1 DEF ReplicaFollows, ListsIn
<1> QED BY <1>2, Copies, PTL
=============================================================================
