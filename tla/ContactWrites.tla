--------------------------- MODULE ContactWrites ----------------------------
(***************************************************************************)
(* The write engine of contacts (services/core contacts-write) with the    *)
(* registry of field definitions, one custom unique field and its removal  *)
(* (fields), and the history of consents (consents).  Requests run in the  *)
(* processes of core; a transaction is one step, the readings before it    *)
(* are others.  The fields of a contact are email (an indexed column), val *)
(* (the custom field) and opt (a consent).                                 *)
(***************************************************************************)
EXTENDS Naturals, FiniteSets

CONSTANTS Contacts, Emails, Values, Requests, Procs,
          Attempts,   \* ATTEMPTS
          MaxOps,     \* bound: requests in a behaviour
          None,       \* null, nothing
          Unset       \* a field the body does not mention

ASSUME ContactWritesAssumption ==
    /\ Attempts \in Nat \ {0} /\ MaxOps \in Nat /\ None # Unset
    /\ {None, Unset} \cap (Contacts \cup Emails \cup Values \cup {"yes"}) = {}

VARIABLES contact,  \* contacts.contacts
          owner,    \* contacts.unique_values: value of the custom field to contact
          consent,  \* contacts.consents: the last row of a contact
          field,    \* the custom field's definition
          cache,    \* FieldRegistry.cache of each process: does it have the field?
          purged,   \* a purge of the field has committed
          req,      \* the requests being served
          ops,      \* requests begun
          revived,  \* ghost: contacts given a value after the field was removed
          repeated  \* ghost: a consent row repeats the one before

db == <<contact, owner, consent>>
ghosts == <<revived, repeated>>
vars == <<db, field, cache, purged, req, ops, ghosts>>

Idle == [at |-> "idle"]

Fld == {"email", "val", "opt"}

Body == [id : Contacts \cup {None}, email : Emails \cup {None, Unset},
         val : Values \cup {None, Unset}, opt : {"yes", None, Unset}]

\* What a handler holds: its process and body, the contact it resolved (None: to be
\* created) and the rows its purge has locked.
Req == [at : {"resolve", "check", "write", "delete", "change", "changed", "purge", "purging"},
        proc : Procs, mode : {"create", "update", "upsert", "delete", "add", "remove"},
        key : {"email", "val", "id", None}, body : Body \cup {None},
        id : Contacts \cup {None}, tries : 1..Attempts, rows : SUBSET Contacts]

\* Every variable has its shape.
TypeOK ==
    /\ contact \in [Contacts -> [at : {"none", "live", "deleted"}, email : Emails \cup {None},
                                 val : Values \cup {None}, opt : {"yes", None}]]
    /\ owner \in [Values -> Contacts \cup {None}]
    /\ consent \in [Contacts -> {"yes", None}]
    /\ field \in {"none", "live", "deleted"} /\ purged \in BOOLEAN
    /\ cache \in [Procs -> BOOLEAN \cup {None}]
    /\ req \in [Requests -> {Idle} \cup Req] /\ ops \in 0..MaxOps
    /\ revived \subseteq Contacts /\ repeated \in BOOLEAN

Init ==
    /\ contact = [c \in Contacts |-> [at |-> "none", email |-> None, val |-> None, opt |-> None]]
    /\ owner = [v \in Values |-> None] /\ consent = [c \in Contacts |-> None]
    /\ field \in {"none", "live"} /\ purged = FALSE
    /\ cache = [p \in Procs |-> None]
    /\ req = [r \in Requests |-> Idle] /\ ops = 0
    /\ revived = {} /\ repeated = FALSE

-----------------------------------------------------------------------------
(* Definitions and keys *)

At(r, stage) == req[r] # Idle /\ req[r].at = stage

Live(c) == contact[c].at = "live"

\* FieldRegistry.fields: the cached definitions, or those of the database.
Fields(p) == IF cache[p] = None THEN field = "live" ELSE cache[p]

Load(p) == cache' = [cache EXCEPT ![p] = Fields(p)]

\* FieldRegistry.invalidate, of this process only.
Invalidated(p) == [cache EXCEPT ![p] = None]

\* KeyResolver.resolve: the live contact that has the value.
Resolved(key, b) ==
    {c \in Contacts : Live(c) /\ CASE key = "id" -> c = b.id
                                  [] key = "email" -> contact[c].email = b.email
                                  [] key = "val" -> owner[b.val] = c}

Given(b, f) == b[f] \notin {None, Unset}

\* Bodies have their key and one other field (bound); a deletion has its key only.  With
\* the key id the other modes fail or do what update does.
Bodies == [key \in {"email", "val", "id"} |-> [mode \in {"create", "update", "upsert", "delete"} |->
    {b \in Body : /\ IF key = "id" THEN b.id # None /\ mode \in {"update", "delete"} ELSE b.id = None /\ Given(b, key)
                  /\ Cardinality({f \in Fld \ {key} : b[f] # Unset}) = IF mode = "delete" THEN 0 ELSE 1}]]

Request(p, mode, key, b) == [at |-> "change", proc |-> p, mode |-> mode, key |-> key, body |-> b,
                             id |-> None, tries |-> 1, rows |-> {}]

End(r) == req' = [req EXCEPT ![r] = Idle]

\* attempt: the definitions are read and the body is validated; 2009 or 2011 without the field.
Attempt(r, q) ==
    /\ Load(q.proc)
    /\ req' = [req EXCEPT ![r] = IF q.body.val # Unset /\ ~Fields(q.proc) THEN Idle ELSE [q EXCEPT !.at = "resolve"]]

\* write, delete, ConsentsService.set
BeginWrite(r, p) ==
    /\ req[r] = Idle /\ ops < MaxOps /\ ops' = ops + 1
    /\ \E key \in DOMAIN Bodies : \E mode \in DOMAIN Bodies[key] : \E b \in Bodies[key][mode] :
          Attempt(r, Request(p, mode, key, b))
    /\ UNCHANGED <<db, field, purged, ghosts>>

\* 2009 without the field; 2012 or 2008 when the mode does not fit what was found.
ResolveKey(r) ==
    LET q == req[r]
        found == Resolved(q.key, q.body)
        fits == IF found # {} THEN q.mode # "create" ELSE q.mode \in {"create", "upsert"} /\ q.key # "id"
    IN  /\ At(r, "resolve") /\ Load(q.proc)
        /\ IF ~fits \/ (q.key = "val" /\ ~Fields(q.proc)) THEN End(r)
           ELSE \E c \in IF found = {} THEN {None} ELSE found :
                   req' = [req EXCEPT ![r].at = IF q.mode = "delete" THEN "delete" ELSE "check", ![r].id = c]
        /\ UNCHANGED <<db, field, purged, ops, ghosts>>

\* The other unique fields of the body belong to this contact or to nobody: or 2012.
CheckUnique(r) ==
    LET q == req[r]
        asked == {f \in {"email", "val"} \ {q.key} : Given(q.body, f)}
        free == \A f \in asked : Resolved(f, q.body) \subseteq {q.id}
    IN  /\ At(r, "check") /\ Load(q.proc)
        /\ IF free /\ ("val" \in asked => Fields(q.proc)) THEN req' = [req EXCEPT ![r].at = "write"] ELSE End(r)
        /\ UNCHANGED <<db, field, purged, ops, ghosts>>

-----------------------------------------------------------------------------
(* Writing *)

\* Rows a purge has updated and not committed.
Locked == UNION {req[q].rows : q \in {p \in Requests : At(p, "purging")}}

Merged(c, b) ==
    [at |-> "live", email |-> IF b.email = Unset THEN contact[c].email ELSE b.email,
     val |-> IF b.val = Unset THEN contact[c].val ELSE b.val,
     opt |-> IF b.opt = Unset THEN contact[c].opt ELSE b.opt]

\* Faulty variant of Changed: what the body sets counts as changed.
ChangedAll(c, b) == {f \in Fld : b[f] # Unset}

Changed(c, b) == {f \in Fld : b[f] # Unset /\ Merged(c, b)[f] # contact[c][f]}

\* Faulty variant of Insertable: the lost race on a unique value is not noticed.
InsertableAnyway(c, b) ==
    "email" \in Changed(c, b) /\ Given(b, "email") => \A d \in Contacts \ {c} : Live(d) => contact[d].email # b.email

\* The unique indexes, after the contact's own value was freed.
Insertable(c, b) ==
    /\ "email" \in Changed(c, b) /\ Given(b, "email") => \A d \in Contacts \ {c} : Live(d) => contact[d].email # b.email
    /\ "val" \in Changed(c, b) /\ Given(b, "val") => owner[b.val] = None

\* syncUniqueValues: the old value of a changed field is freed, the new one taken.
Owners(c, b) ==
    IF "val" \notin Changed(c, b) THEN owner
    ELSE [v \in Values |-> IF v = b.val THEN c ELSE IF owner[v] = c THEN None ELSE owner[v]]

\* The transaction rolls back; write tries again from its reading, ATTEMPTS times in all.
Retry(r) ==
    /\ IF req[r].tries = Attempts THEN End(r) /\ UNCHANGED cache
       ELSE Attempt(r, [req[r] EXCEPT !.id = None, !.tries = @ + 1])
    /\ UNCHANGED <<db, ghosts>>

\* update or insert, syncUniqueValues and the hook of consents, in one transaction.
Write(r) ==
    LET q == req[r]
        b == q.body
        Store(c) ==
            /\ contact' = [contact EXCEPT ![c] = Merged(c, b)]
            /\ owner' = Owners(c, b)
            /\ consent' = IF "opt" \in Changed(c, b) THEN [consent EXCEPT ![c] = b.opt] ELSE consent
            /\ repeated' = (repeated \/ ("opt" \in Changed(c, b) /\ consent[c] = b.opt))
            /\ revived' = IF "val" \in Changed(c, b) /\ field = "deleted" THEN revived \cup {c} ELSE revived
            /\ End(r) /\ UNCHANGED cache
    IN  /\ At(r, "write") /\ UNCHANGED <<field, purged, ops>>
        /\ \/ /\ q.id # None /\ q.id \notin Locked
              /\ IF Live(q.id) /\ Insertable(q.id, b) THEN Store(q.id) ELSE Retry(r)
           \/ \E c \in Contacts :
                 /\ q.id = None /\ contact[c].at = "none"
                 /\ IF Insertable(c, b) THEN Store(c) ELSE Retry(r)

Freed(c) == [v \in Values |-> IF owner[v] = c THEN None ELSE owner[v]]

\* softDelete: a contact that is gone meanwhile is 2008.
SoftDelete(r) ==
    LET c == req[r].id IN
    /\ At(r, "delete") /\ c \notin Locked /\ End(r)
    /\ IF Live(c) THEN contact' = [contact EXCEPT ![c].at = "deleted"] /\ owner' = Freed(c)
       ELSE UNCHANGED <<contact, owner>>
    /\ UNCHANGED <<consent, field, cache, purged, ops, ghosts>>

-----------------------------------------------------------------------------
(* The custom field *)

\* create, or remove of a field that was found.
BeginField(r, p) ==
    /\ req[r] = Idle /\ ops < MaxOps /\ ops' = ops + 1
    /\ \/ field = "none" /\ req' = [req EXCEPT ![r] = Request(p, "add", None, None)]
       \/ field = "live" /\ req' = [req EXCEPT ![r] = Request(p, "remove", None, None)]
    /\ UNCHANGED <<db, field, cache, purged, ghosts>>

\* The definition is written; of two creations one finds the name in use.
ChangeField(r) ==
    LET q == req[r] IN
    /\ At(r, "change")
    /\ IF q.mode = "add" /\ field # "none" THEN End(r) /\ cache' = Invalidated(q.proc) /\ UNCHANGED field
       ELSE /\ field' = IF q.mode = "add" THEN "live" ELSE "deleted"
            /\ req' = [req EXCEPT ![r].at = "changed"] /\ UNCHANGED cache
    /\ UNCHANGED <<db, purged, ops, ghosts>>

\* invalidate, the answer, and for a removal the purge in the background.
AnswerField(r) ==
    LET q == req[r] IN
    /\ At(r, "changed")
    /\ cache' = Invalidated(q.proc)
    /\ IF q.mode = "add" THEN End(r) ELSE req' = [req EXCEPT ![r].at = "purge"]
    /\ UNCHANGED <<db, field, purged, ops, ghosts>>

\* Faulty variant of Keyed: the rows are looked for while the field is defined only.
KeyedDefined == {c \in Contacts : contact[c].val # None /\ field = "live"}

Keyed == {c \in Contacts : contact[c].val # None}

\* purge: its UPDATE locks the rows that have the key ...
StartPurge(r) ==
    /\ At(r, "purge") /\ Keyed \cap Locked = {}
    /\ req' = [req EXCEPT ![r].at = "purging", ![r].rows = Keyed]
    /\ UNCHANGED <<db, field, cache, purged, ops, ghosts>>

\* ... then the unique values are deleted, and it commits.
CommitPurge(r) ==
    /\ At(r, "purging")
    /\ contact' = [c \in Contacts |-> IF c \in req[r].rows THEN [contact[c] EXCEPT !.val = None] ELSE contact[c]]
    /\ owner' = [v \in Values |-> None]
    /\ purged' = TRUE /\ revived' = revived \ req[r].rows
    /\ End(r)
    /\ UNCHANGED <<consent, field, cache, ops, repeated>>

-----------------------------------------------------------------------------

\* An error of the database or the network: the request ends, the rest of its work with
\* it.  A creation invalidates in a finally, a removal does not.
Fail(r) ==
    /\ req[r] # Idle /\ End(r)
    /\ cache' = IF req[r].mode = "add" THEN Invalidated(req[r].proc) ELSE cache
    /\ UNCHANGED <<db, field, purged, ops, ghosts>>

\* A process restarts.
Restart(p) ==
    /\ cache' = Invalidated(p)
    /\ req' = [r \in Requests |-> IF req[r] # Idle /\ req[r].proc = p THEN Idle ELSE req[r]]
    /\ UNCHANGED <<db, field, purged, ops, ghosts>>

Next ==
    \/ \E r \in Requests, p \in Procs : BeginWrite(r, p) \/ BeginField(r, p)
    \/ \E r \in Requests : \/ ResolveKey(r) \/ CheckUnique(r) \/ Write(r) \/ SoftDelete(r)
                           \/ ChangeField(r) \/ AnswerField(r) \/ StartPurge(r) \/ CommitPurge(r) \/ Fail(r)
    \/ \E p \in Procs : Restart(p)

Spec == Init /\ [][Next]_vars
-----------------------------------------------------------------------------
(* Properties *)

\* No two live contacts have one email or, while the field exists, one value of the
\* unique field, whatever requests created them or set it at once
\* (contacts-write.service.ts:280, :305).
OneOwner ==
    \A c, d \in Contacts : Live(c) /\ Live(d) /\ c # d =>
        /\ contact[c].email = None \/ contact[c].email # contact[d].email
        /\ field # "deleted" => contact[c].val = None \/ contact[c].val # contact[d].val

\* After a purge only those contacts have the field that a request with older
\* definitions wrote after the removal (field-registry.ts:64, fields.service.ts:138).
PurgedStaysClean == purged => {c \in Contacts : contact[c].val # None} \subseteq revived

\* The last row of a contact's consent history is its value, and no row repeats the
\* one before it (consents.service.ts:29).
HistoryFollows == ~repeated /\ \A c \in Contacts : consent[c] = contact[c].opt
=============================================================================
