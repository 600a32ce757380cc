-------------------------- MODULE FieldDefinitions --------------------------
(***************************************************************************)
(* Definitions kept as one JSON array: the choices of a contact field      *)
(* (services/core fields) and the columns of a relational table            *)
(* (relational).  Both are read, extended and written back in separate     *)
(* statements, while other requests store values that refer to them.  A    *)
(* choice is its id and its label, which is what it means to people.       *)
(***************************************************************************)
EXTENDS Integers, FiniteSets

CONSTANTS Contacts, Labels, Columns, Requests, Procs,
          MaxId,   \* bound: ids of choices
          MaxOps,  \* bound: requests in a behaviour
          None

FieldDefinitionsAssumption ==
    /\ MaxId \in Nat \ {0} /\ MaxOps \in Nat
    /\ None \notin Labels \cup Columns \cup Contacts \cup BOOLEAN \cup Int
    /\ \A s \in SUBSET Columns : s # None

VARIABLES choices, \* field_definitions.choices
          cached,  \* FieldRegistry.cache of each process
          value,   \* contacts.data of the field
          columns, \* relational_tables.columns, None when the table is removed
          rows,    \* relational_rows: the columns the row of a contact has data in
          req,     \* the requests being served
          ops,     \* requests begun
          meant,   \* ghost: the label of the choice a contact's value was taken for
          raced    \* ghost: where something was written after what it had been read from changed

ghosts == <<meant, raced>>
vars == <<choices, cached, value, columns, rows, req, ops, ghosts>>

Ids == 1..MaxId
Choices == [Ids -> Labels \cup {None}]
Idle == [at |-> "idle"]

\* What a handler read (seen), the values it looked at, and what it is asked for.
Req == [at : {"choices", "invalidate"}, proc : Procs, seen : Choices, used : [Contacts -> Ids \cup {None}],
        keep : SUBSET Ids, add : Labels \cup {None}]
       \cup [at : {"value"}, proc : Procs, seen : Choices, contact : Contacts, id : Ids \cup {None}]
       \cup [at : {"column"}, seen : SUBSET Columns, add : Columns]
       \cup [at : {"row"}, contact : Contacts, data : SUBSET Columns]

\* Every variable has its shape.
TypeOK ==
    /\ choices \in Choices
    /\ cached \in [Procs -> Choices \cup {None}]
    /\ value \in [Contacts -> Ids \cup {None}]
    /\ columns \in (SUBSET Columns) \cup {None}
    /\ rows \in [Contacts -> (SUBSET Columns) \cup {None}]
    /\ req \in [Requests -> {Idle} \cup Req] /\ ops \in 0..MaxOps
    /\ raced \subseteq {"field", "table"}
    /\ meant \in [Contacts -> Labels \cup {None}]

\* A field with one choice and a table without columns.
Init ==
    /\ \E l \in Labels : choices = [i \in Ids |-> IF i = 1 THEN l ELSE None]
    /\ cached = [p \in Procs |-> None]
    /\ value = [c \in Contacts |-> None] /\ meant = value
    /\ columns = {}
    /\ rows = [c \in Contacts |-> None]
    /\ req = [r \in Requests |-> Idle] /\ ops = 0
    /\ raced = {}

At(r, stage) == req[r] # Idle /\ req[r].at = stage

Begin(r, q) == /\ req[r] = Idle /\ ops < MaxOps /\ ops' = ops + 1
               /\ req' = [req EXCEPT ![r] = q]

End(r) == req' = [req EXCEPT ![r] = Idle]

-----------------------------------------------------------------------------
(* Choices *)

Present(ch) == {i \in Ids : ch[i] # None}

\* Faulty variant of NextId: the choices are counted.
NextIdCounted(ch) == Cardinality(Present(ch)) + 1

\* withChoiceIds: one more than the greatest id.
NextId(ch) == 1 + (CHOOSE m \in Present(ch) \cup {0} : \A i \in Present(ch) : i <= m)

InUse(S) == \E c \in Contacts : value[c] \in S

\* update: the definition is read, its choices that the body leaves out must be unused.
BeginChoices(r, p) ==
    /\ \E keep \in SUBSET Present(choices), add \in Labels \cup {None} :
          /\ add # None => NextId(choices) <= MaxId
          /\ ~InUse(Present(choices) \ keep)
          /\ Begin(r, [at |-> "choices", proc |-> p, seen |-> choices, used |-> value, keep |-> keep, add |-> add])
    /\ UNCHANGED <<choices, cached, value, columns, rows, ghosts>>

\* The definition is written from what was read.
WriteChoices(r) ==
    LET q == req[r]
        new == IF q.add = None THEN {} ELSE {NextId(q.seen)}
    IN  /\ At(r, "choices")
        /\ choices' = [i \in Ids |-> IF i \in new THEN q.add ELSE IF i \in q.keep THEN q.seen[i] ELSE None]
        /\ raced' = IF choices # q.seen \/ value # q.used THEN raced \cup {"field"} ELSE raced
        /\ req' = [req EXCEPT ![r].at = "invalidate"]
        /\ UNCHANGED <<cached, value, columns, rows, ops, meant>>

\* The cache of this process, in a finally: also when the update failed.
Invalidate(r) ==
    /\ At(r, "invalidate") \/ At(r, "choices")
    /\ cached' = [cached EXCEPT ![req[r].proc] = None] /\ End(r)
    /\ UNCHANGED <<choices, value, columns, rows, ops, ghosts>>

\* A write of a contact: the value is checked against the cached definition ...
BeginValue(r, p, c, i) ==
    LET defs == IF cached[p] = None THEN choices ELSE cached[p] IN
    /\ cached' = [cached EXCEPT ![p] = defs]
    /\ i # None => defs[i] # None
    /\ Begin(r, [at |-> "value", proc |-> p, seen |-> defs, contact |-> c, id |-> i])
    /\ UNCHANGED <<choices, value, columns, rows, ghosts>>

\* ... and stored.
WriteValue(r) ==
    LET q == req[r] IN
    /\ At(r, "value") /\ End(r)
    /\ value' = [value EXCEPT ![q.contact] = q.id]
    /\ meant' = [meant EXCEPT ![q.contact] = IF q.id = None THEN None ELSE q.seen[q.id]]
    /\ raced' = IF choices # q.seen THEN raced \cup {"field"} ELSE raced
    /\ UNCHANGED <<choices, cached, columns, rows, ops>>

-----------------------------------------------------------------------------
(* Relational tables *)

\* update: the table is read and the new column must not be there.
BeginColumn(r, x) ==
    /\ columns # None /\ x \notin columns
    /\ Begin(r, [at |-> "column", seen |-> columns, add |-> x])
    /\ UNCHANGED <<choices, cached, value, columns, rows, ghosts>>

Extended(q) == q.seen \cup {q.add}

\* The columns are written from what was read; nothing, when the table is gone.
WriteColumn(r) ==
    /\ At(r, "column") /\ End(r)
    /\ IF columns = None THEN UNCHANGED <<columns, raced>>
       ELSE /\ columns' = Extended(req[r])
            /\ raced' = IF columns # req[r].seen THEN raced \cup {"table"} ELSE raced
    /\ UNCHANGED <<choices, cached, value, rows, ops, meant>>

\* Faulty variant of Fits: any data is taken.
FitsAll(data) == TRUE

\* normalizeValue column by column: 2011 for an unknown one.
Fits(data) == data \subseteq columns

\* upsertRows: the row is checked against the table's columns ...
BeginRow(r, c, data) ==
    /\ columns # None /\ Fits(data)
    /\ Begin(r, [at |-> "row", contact |-> c, data |-> data])
    /\ UNCHANGED <<choices, cached, value, columns, rows, ghosts>>

\* ... and upserted, unless the table is gone (foreign key).
WriteRow(r) ==
    /\ At(r, "row") /\ End(r)
    /\ rows' = IF columns = None THEN rows ELSE [rows EXCEPT ![req[r].contact] = req[r].data]
    /\ UNCHANGED <<choices, cached, value, columns, ops, ghosts>>

\* remove: the rows go with the table.
RemoveTable ==
    /\ columns # None /\ ops < MaxOps /\ ops' = ops + 1
    /\ columns' = None /\ rows' = [c \in Contacts |-> None]
    /\ UNCHANGED <<choices, cached, value, req, ghosts>>

\* The request fails; nothing of it was committed.
Fail(r) == /\ At(r, "value") \/ At(r, "column") \/ At(r, "row")
           /\ End(r)
           /\ UNCHANGED <<choices, cached, value, columns, rows, ops, ghosts>>

Next ==
    \/ \E r \in Requests :
          \/ \E p \in Procs : \/ BeginChoices(r, p)
                              \/ \E c \in Contacts, i \in Ids \cup {None} : BeginValue(r, p, c, i)
          \/ \E x \in Columns : BeginColumn(r, x)
          \/ \E c \in Contacts, data \in SUBSET Columns : BeginRow(r, c, data)
          \/ WriteChoices(r) \/ Invalidate(r) \/ WriteValue(r) \/ WriteColumn(r) \/ WriteRow(r) \/ Fail(r)
    \/ RemoveTable

Spec == Init /\ [][Next]_vars
-----------------------------------------------------------------------------
(* Properties *)

\* A contact's value is a choice of the field and means what it meant when it was
\* stored, although ids are given again, unless a writer was overtaken: by an update
\* between its reading and its writing (fields.service.ts:89), or by another process
\* whose change its cache missed (field-registry.ts:76).
ValuesKeepTheirMeaning ==
    "field" \in raced \/ \A c \in Contacts : value[c] # None => choices[value[c]] = meant[c]

\* Stored rows have data in columns of the table only, however updates and upserts
\* interleave, with the same exception (relational.service.ts:134).
RowsFit == "table" \in raced \/ \A c \in Contacts : rows[c] # None => columns # None /\ rows[c] \subseteq columns
=============================================================================
