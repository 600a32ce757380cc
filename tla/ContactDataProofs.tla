------------------------- MODULE ContactDataProofs -------------------------
(***************************************************************************)
(* Theorems about ContactWrites and FieldDefinitions, for any number of    *)
(* contacts, values, definitions, requests, processes and attempts.        *)
(***************************************************************************)
EXTENDS MCContactData, WellFoundedInduction, TLAPS

Stages == {"resolve", "check", "write", "delete", "change", "changed", "purge", "purging"}

\* What a request knows at its stage: a body to write, a contact to delete, a field
\* that is removed and stays so.
Sound(q, definition) ==
    /\ q.at \in {"resolve", "check", "write"} => q.body \in Body
    /\ q.at = "delete" => q.id \in Contacts
    /\ q.at \in {"purge", "purging"} \/ (q.at = "changed" /\ q.mode # "add") => definition = "deleted"

ReqInv == \A r \in Requests : req[r] # Idle => Sound(req[r], field)

\* A live contact owns its value, until the field is removed.
OwnsInv ==
    field # "deleted" =>
        \A c \in Contacts : Live(c) /\ contact[c].val # None => owner[contact[c].val] = c

EmailInv ==
    \A c, d \in Contacts : Live(c) /\ Live(d) /\ c # d =>
        contact[c].email = None \/ contact[c].email # contact[d].email

\* A contact that was never created has nothing.
FreshInv == \A c \in Contacts : contact[c].at = "none" => contact[c].email = None /\ contact[c].val = None

KeysInv == OwnsInv /\ EmailInv /\ FreshInv

IInv == TypeOK /\ ReqInv /\ KeysInv

DbTypeOK ==
    /\ contact \in [Contacts -> [at : {"none", "live", "deleted"}, email : Emails \cup {None},
                                 val : Values \cup {None}, opt : {"yes", None}]]
    /\ owner \in [Values -> Contacts \cup {None}]
    /\ consent \in [Contacts -> {"yes", None}]

LEMMA OwnersAreOne == OwnsInv /\ EmailInv => OneOwner
<1> SUFFICES ASSUME OwnsInv, EmailInv, NEW c \in Contacts, NEW d \in Contacts, Live(c), Live(d), c # d,
                    field # "deleted", contact[c].val # None, contact[c].val = contact[d].val
             PROVE  FALSE
  BY DEF OneOwner, EmailInv
<1>1. owner[contact[c].val] = c /\ owner[contact[d].val] = d
  BY DEF OwnsInv
<1> QED BY <1>1

LEMMA InitInv == Init => IInv
<1> SUFFICES ASSUME Init PROVE IInv
  OBVIOUS
<1>1. TypeOK
  <2>1. contact \in [Contacts -> [at : {"none", "live", "deleted"}, email : Emails \cup {None},
                                  val : Values \cup {None}, opt : {"yes", None}]]
    BY DEF Init
  <2>2. owner \in [Values -> Contacts \cup {None}] /\ consent \in [Contacts -> {"yes", None}]
    BY DEF Init
  <2>3. cache \in [Procs -> BOOLEAN \cup {None}] /\ purged \in BOOLEAN /\ repeated \in BOOLEAN
    BY Zenon DEF Init
  <2>4. req \in [Requests -> {Idle} \cup Req] /\ ops \in 0..MaxOps
    BY ContactWritesAssumption DEF Init
  <2> QED BY <2>1, <2>2, <2>3, <2>4 DEF Init, TypeOK
<1>2. ReqInv
  BY DEF Init, ReqInv
<1>3. \A c \in Contacts : contact[c] = [at |-> "none", email |-> None, val |-> None, opt |-> None]
  BY DEF Init
<1>4. KeysInv
  BY <1>3 DEF KeysInv, OwnsInv, EmailInv, FreshInv, Live
<1> QED BY <1>1, <1>2, <1>4 DEF IInv

-----------------------------------------------------------------------------
(* Requests *)

LEMMA IdleIsNone == ASSUME NEW q \in Req PROVE q # Idle
BY DEF Req, Idle

\* One request takes a step, and a removed field stays removed.
LEMMA ReqStep ==
    ASSUME TypeOK, ReqInv, NEW r \in Requests, NEW q \in {Idle} \cup Req,
           req' = [req EXCEPT ![r] = q], q # Idle => Sound(q, field'), field = "deleted" => field' = "deleted"
    PROVE  req' \in [Requests -> {Idle} \cup Req] /\ ReqInv'
BY DEF TypeOK, ReqInv, Sound

LEMMA EndStep ==
    ASSUME TypeOK, ReqInv, NEW r \in Requests, End(r), field = "deleted" => field' = "deleted"
    PROVE  req' \in [Requests -> {Idle} \cup Req] /\ ReqInv'
BY ReqStep DEF End

LEMMA StageType ==
    ASSUME NEW q \in Req, NEW a \in Stages
    PROVE  /\ [q EXCEPT !.at = a] \in Req /\ [q EXCEPT !.at = a].at = a
           /\ [q EXCEPT !.at = a].body = q.body /\ [q EXCEPT !.at = a].mode = q.mode
           /\ [q EXCEPT !.at = a].id = q.id
BY DEF Req, Stages

LEMMA FieldsType ==
    ASSUME TypeOK, NEW p \in Procs
    PROVE  Fields(p) \in BOOLEAN /\ (Load(p) => cache' \in [Procs -> BOOLEAN \cup {None}])
<1>1. Fields(p) \in BOOLEAN
  <2>1. CASE cache[p] = None
    BY <2>1, Zenon DEF Fields
  <2>2. CASE cache[p] # None
    BY <2>2, Zenon DEF Fields, TypeOK
  <2> QED BY <2>1, <2>2
<1> QED BY <1>1, Zenon DEF TypeOK, Load

LEMMA InvalidatedType ==
    ASSUME TypeOK, NEW p \in Procs
    PROVE  Invalidated(p) \in [Procs -> BOOLEAN \cup {None}]
BY Zenon DEF TypeOK, Invalidated

LEMMA AttemptType ==
    ASSUME TypeOK, ReqInv, NEW r \in Requests, NEW q \in Req, q.body \in Body, Attempt(r, q), UNCHANGED field
    PROVE  /\ req' \in [Requests -> {Idle} \cup Req] /\ ReqInv'
           /\ cache' \in [Procs -> BOOLEAN \cup {None}]
<1> DEFINE new == IF q.body.val # Unset /\ ~Fields(q.proc) THEN Idle ELSE [q EXCEPT !.at = "resolve"]
<1>1. new \in {Idle} \cup Req /\ (new # Idle => new.at = "resolve" /\ new.body = q.body)
  BY StageType DEF Stages
<1>2. req' = [req EXCEPT ![r] = new] /\ Load(q.proc) /\ q.proc \in Procs
  BY DEF Attempt, Req
<1> HIDE DEF new
<1>3. new # Idle => Sound(new, field')
  BY <1>1 DEF Sound
<1> QED BY <1>1, <1>2, <1>3, ReqStep, FieldsType

-----------------------------------------------------------------------------
(* Stores *)

LEMMA ChangedFields ==
    ASSUME NEW b \in Body, NEW c \in Contacts, DbTypeOK
    PROVE  /\ "email" \in Changed(c, b) <=> b.email # Unset /\ b.email # contact[c].email
           /\ "val" \in Changed(c, b) <=> b.val # Unset /\ b.val # contact[c].val
           /\ "opt" \in Changed(c, b) <=> b.opt # Unset /\ b.opt # contact[c].opt
           /\ Given(b, "email") <=> b.email \notin {None, Unset}
           /\ Given(b, "val") <=> b.val \notin {None, Unset}
BY DEF Changed, Fld, Merged, Given

ContactRow == [at : {"none", "live", "deleted"}, email : Emails \cup {None},
               val : Values \cup {None}, opt : {"yes", None}]

LEMMA MergedType ==
    ASSUME DbTypeOK, NEW c \in Contacts, NEW b \in Body
    PROVE  /\ Merged(c, b) \in ContactRow /\ Merged(c, b).at = "live"
           /\ Merged(c, b).email = IF b.email = Unset THEN contact[c].email ELSE b.email
           /\ Merged(c, b).val = IF b.val = Unset THEN contact[c].val ELSE b.val
BY DEF DbTypeOK, Body, Merged, ContactRow

\* A stored contact takes no email and no value another live contact has.
LEMMA StoreKeeps ==
    ASSUME DbTypeOK, KeysInv, NEW c \in Contacts, NEW b \in Body, Insertable(c, b),
           contact[c].at \in {"none", "live"},
           contact' = [contact EXCEPT ![c] = Merged(c, b)], owner' = Owners(c, b), UNCHANGED field
    PROVE  KeysInv' /\ contact' \in [Contacts -> ContactRow] /\ owner' \in [Values -> Contacts \cup {None}]
<1> DEFINE m == Merged(c, b)
<1>1. contact' \in [Contacts -> ContactRow] /\ contact \in [Contacts -> ContactRow]
  BY MergedType DEF DbTypeOK, ContactRow
<1>2. contact' = [contact EXCEPT ![c] = m] /\ m.at = "live" /\ m \in ContactRow
  BY MergedType
<1>3. owner' \in [Values -> Contacts \cup {None}]
  BY DEF Owners, DbTypeOK
<1>4. m.email = contact[c].email \/ m.email = None
      \/ \A d \in Contacts \ {c} : Live(d) => contact[d].email # m.email
  BY MergedType, ChangedFields DEF Insertable
<1>5. m.val = contact[c].val \/ m.val = None \/ owner[m.val] = None
  BY MergedType, ChangedFields DEF Insertable
<1>6. "val" \in Changed(c, b) <=> m.val # contact[c].val
  BY MergedType, ChangedFields
<1>7. m.val # contact[c].val => m.val = b.val
  BY MergedType
<1> HIDE DEF m
<1>8. EmailInv'
  <2> SUFFICES ASSUME NEW d \in Contacts, NEW e \in Contacts, contact'[d].at = "live", contact'[e].at = "live", d # e,
                      contact'[d].email # None, contact'[d].email = contact'[e].email
               PROVE  FALSE
    BY DEF EmailInv, Live
  <2>1. \A x \in Contacts \ {c} : contact'[x] = contact[x]
    BY <1>1, <1>2
  <2>2. contact'[c] = m
    BY <1>1, <1>2
  <2>3. PICK x \in Contacts \ {c} : Live(x) /\ contact[x].email = m.email /\ m.email # None /\ (d = c \/ e = c)
    BY <2>1, <2>2 DEF KeysInv, EmailInv, Live
  <2>4. contact[c].email = m.email
    BY <1>4, <2>3
  <2>5. Live(c)
    BY <2>3, <2>4 DEF KeysInv, FreshInv, Live
  <2> QED BY <2>3, <2>4, <2>5 DEF KeysInv, EmailInv
<1>9. OwnsInv'
  <2> SUFFICES ASSUME field # "deleted", NEW d \in Contacts, contact'[d].at = "live", contact'[d].val # None
               PROVE  owner'[contact'[d].val] = d
    BY DEF OwnsInv, Live
  <2>1. (\A x \in Contacts \ {c} : contact'[x] = contact[x]) /\ contact'[c] = m
    BY <1>1, <1>2
  <2>2. contact'[d].val \in Values
    BY <1>1 DEF ContactRow
  <2>3. CASE d # c
    <3>1. owner[contact[d].val] = d /\ contact[d].val \in Values
      BY <2>1, <2>2, <2>3 DEF KeysInv, OwnsInv, Live
    <3>2. "val" \in Changed(c, b) => contact[d].val # b.val
      BY <1>5, <1>6, <1>7, <3>1, ContactWritesAssumption
    <3> QED BY <2>1, <2>3, <3>1, <3>2 DEF Owners
  <2>4. CASE d = c /\ m.val = contact[c].val
    <3>1. Live(c) /\ owner[contact[c].val] = c
      BY <2>1, <2>4 DEF KeysInv, OwnsInv, FreshInv, Live
    <3> QED BY <1>6, <2>1, <2>4, <3>1 DEF Owners
  <2>5. CASE d = c /\ m.val # contact[c].val
    BY <1>6, <1>7, <2>1, <2>2, <2>5 DEF Owners
  <2> QED BY <2>3, <2>4, <2>5
<1>10. FreshInv'
  BY <1>1, <1>2 DEF KeysInv, FreshInv
<1> QED BY <1>1, <1>3, <1>8, <1>9, <1>10 DEF KeysInv

-----------------------------------------------------------------------------
(* Steps *)

LEMMA WriteKeeps ==
    ASSUME IInv, NEW r \in Requests, Write(r)
    PROVE  IInv'
<1> DEFINE q == req[r]
           b == req[r].body
<1>0. TypeOK /\ ReqInv /\ KeysInv /\ DbTypeOK /\ contact \in [Contacts -> ContactRow]
  BY DEF IInv, TypeOK, DbTypeOK, ContactRow
<1>1. req[r] \in Req /\ req[r].body \in Body /\ req[r].id \in Contacts \cup {None}
  <2>1. req[r] \in Req /\ req[r].at = "write"
    BY <1>0 DEF Write, At, TypeOK
  <2> QED BY <1>0, <2>1 DEF ReqInv, Sound, Req, Write, At
<1>2. UNCHANGED <<field, purged, ops>> /\ At(r, "write")
  BY DEF Write
<1>3. ASSUME NEW c \in Contacts, Insertable(c, b), contact[c].at \in {"none", "live"},
             contact' = [contact EXCEPT ![c] = Merged(c, b)], owner' = Owners(c, b),
             consent' = IF "opt" \in Changed(c, b) THEN [consent EXCEPT ![c] = b.opt] ELSE consent,
             repeated' = (repeated \/ ("opt" \in Changed(c, b) /\ consent[c] = b.opt)),
             revived' = IF "val" \in Changed(c, b) /\ field = "deleted" THEN revived \cup {c} ELSE revived,
             End(r), UNCHANGED cache
      PROVE  IInv'
  <2>1. KeysInv' /\ contact' \in [Contacts -> ContactRow] /\ owner' \in [Values -> Contacts \cup {None}]
    BY <1>0, <1>1, <1>2, <1>3, StoreKeeps
  <2>2. consent' \in [Contacts -> {"yes", None}]
    BY <1>0, <1>1, <1>3, ChangedFields DEF Body, DbTypeOK
  <2>3. repeated' \in BOOLEAN
    BY <1>3
  <2>4. revived' \subseteq Contacts
    BY <1>0, <1>3 DEF TypeOK
  <2>5. req' \in [Requests -> {Idle} \cup Req] /\ ReqInv'
    BY <1>0, <1>2, <1>3, EndStep
  <2> QED BY <1>0, <1>2, <1>3, <2>1, <2>2, <2>3, <2>4, <2>5 DEF IInv, TypeOK, ContactRow
<1>4. ASSUME Retry(r) PROVE IInv'
  <2>1. /\ req' \in [Requests -> {Idle} \cup Req] /\ ReqInv'
        /\ cache' \in [Procs -> BOOLEAN \cup {None}]
    <3>1. CASE req[r].tries = Attempts
      BY <1>0, <1>2, <1>4, <3>1, EndStep DEF Retry, TypeOK
    <3>2. CASE req[r].tries # Attempts
      <4> DEFINE new == [req[r] EXCEPT !.id = None, !.tries = @ + 1]
      <4>1. new \in Req /\ new.body \in Body
        <5>1. req[r].tries + 1 \in 1..Attempts
          BY <1>1, <3>2, ContactWritesAssumption DEF Req
        <5> DEFINE a == [req[r] EXCEPT !.id = None]
        <5>2. a \in Req /\ a.tries = req[r].tries /\ a.body = req[r].body
          BY <1>1 DEF Req
        <5> HIDE DEF a
        <5>3. [a EXCEPT !.tries = req[r].tries + 1] \in Req
          BY <5>1, <5>2 DEF Req
        <5>4. new = [a EXCEPT !.tries = req[r].tries + 1]
          BY <1>1 DEF a, Req
        <5> QED BY <1>1, <5>3, <5>4 DEF Req
      <4>2. Attempt(r, new)
        BY <1>4, <3>2 DEF Retry
      <4> HIDE DEF new
      <4> QED BY <1>0, <1>2, <4>1, <4>2, AttemptType
    <3> QED BY <3>1, <3>2
  <2>2. UNCHANGED <<contact, owner, consent, revived, repeated>>
    BY <1>4 DEF Retry, db, ghosts
  <2>3. KeysInv'
    BY <1>0, <1>2, <2>2 DEF KeysInv, OwnsInv, EmailInv, FreshInv, Live
  <2> QED BY <1>0, <1>2, <2>1, <2>2, <2>3 DEF IInv, TypeOK
<1> QED BY <1>0, <1>1, <1>3, <1>4 DEF Write, Live

\* Steps that change neither the database nor the definition.
LEMMA QuietKeeps ==
    ASSUME IInv, UNCHANGED <<db, field, purged, ghosts>>, ops' \in 0..MaxOps,
           req' \in [Requests -> {Idle} \cup Req], ReqInv', cache' \in [Procs -> BOOLEAN \cup {None}]
    PROVE  IInv'
<1>1. UNCHANGED <<contact, owner, consent, field, purged, revived, repeated>>
  BY DEF db, ghosts
<1>2. KeysInv'
  BY <1>1 DEF IInv, KeysInv, OwnsInv, EmailInv, FreshInv, Live
<1> QED BY <1>1, <1>2 DEF IInv, TypeOK

LEMMA NextInv == IInv /\ [Next]_vars => IInv'
<1> SUFFICES ASSUME IInv, [Next]_vars PROVE IInv'
  OBVIOUS
<1>0. TypeOK /\ ReqInv /\ KeysInv /\ contact \in [Contacts -> ContactRow] /\ ops \in 0..MaxOps
  BY DEF IInv, TypeOK, ContactRow
<1>1. CASE UNCHANGED vars
  <2>1. UNCHANGED <<contact, owner, consent, field, cache, purged, req, ops, revived, repeated>>
    BY <1>1 DEF vars, db, ghosts
  <2> QED BY <1>0, <2>1 DEF IInv, TypeOK, ReqInv, KeysInv, OwnsInv, EmailInv, FreshInv, Live
<1>2. ASSUME ops < MaxOps, ops' = ops + 1 PROVE ops' \in 0..MaxOps
  BY <1>0, <1>2, ContactWritesAssumption
<1>3. ASSUME NEW p \in Procs, NEW mode \in {"create", "update", "upsert", "delete", "add", "remove"},
             NEW key \in {"email", "val", "id", None}, NEW b \in Body \cup {None}
      PROVE  /\ Request(p, mode, key, b) \in Req /\ Request(p, mode, key, b).body = b
             /\ Request(p, mode, key, b).at = "change"
  BY <1>3, ContactWritesAssumption DEF Request, Req
<1>4. ASSUME NEW r \in Requests, NEW p \in Procs, BeginWrite(r, p) PROVE IInv'
  <2>1. PICK key \in DOMAIN Bodies : \E mode \in DOMAIN Bodies[key] : \E b \in Bodies[key][mode] :
               Attempt(r, Request(p, mode, key, b))
    BY <1>4 DEF BeginWrite
  <2>2. key \in {"email", "val", "id"}
    BY <2>1 DEF Bodies
  <2>3. DOMAIN Bodies[key] = {"create", "update", "upsert", "delete"}
    BY <2>2 DEF Bodies
  <2>4. PICK mode \in {"create", "update", "upsert", "delete"} : \E b \in Bodies[key][mode] :
               Attempt(r, Request(p, mode, key, b))
    BY <2>1, <2>3
  <2>5. Bodies[key][mode] \subseteq Body
    BY <2>2, <2>4 DEF Bodies
  <2>6. PICK b \in Body : Attempt(r, Request(p, mode, key, b))
    BY <2>4, <2>5
  <2>7. UNCHANGED <<db, field, purged, ghosts>> /\ ops' \in 0..MaxOps
    BY <1>2, <1>4 DEF BeginWrite
  <2>8. Request(p, mode, key, b) \in Req /\ Request(p, mode, key, b).body = b
    BY <1>3, <2>2, <2>4, <2>6
  <2>9. /\ req' \in [Requests -> {Idle} \cup Req] /\ ReqInv'
        /\ cache' \in [Procs -> BOOLEAN \cup {None}]
    BY <1>0, <2>6, <2>7, <2>8, AttemptType
  <2> QED BY <2>7, <2>9, QuietKeeps
<1>5. ASSUME NEW r \in Requests, NEW p \in Procs, BeginField(r, p) PROVE IInv'
  <2>1. PICK mode \in {"add", "remove"} : req' = [req EXCEPT ![r] = Request(p, mode, None, None)]
    BY <1>5 DEF BeginField
  <2>2. UNCHANGED <<db, field, cache, purged, ghosts>> /\ ops' \in 0..MaxOps
    BY <1>2, <1>5 DEF BeginField
  <2>3. Request(p, mode, None, None) \in Req /\ Request(p, mode, None, None).at = "change"
    BY <1>3, <2>1
  <2>4. Sound(Request(p, mode, None, None), field')
    BY <2>3 DEF Sound
  <2>5. req' \in [Requests -> {Idle} \cup Req] /\ ReqInv'
    BY <1>0, <2>1, <2>2, <2>3, <2>4, ReqStep
  <2> QED BY <1>0, <2>2, <2>5, QuietKeeps DEF TypeOK
<1>6. ASSUME NEW r \in Requests, req[r] # Idle PROVE req[r] \in Req /\ req[r].proc \in Procs /\ Sound(req[r], field)
  BY <1>0, <1>6 DEF TypeOK, ReqInv, Req
<1>7. ASSUME NEW r \in Requests, ResolveKey(r) PROVE IInv'
  <2> DEFINE q == req[r]
             found == Resolved(q.key, q.body)
             fits == IF found # {} THEN q.mode # "create" ELSE q.mode \in {"create", "upsert"} /\ q.key # "id"
  <2>1. q \in Req /\ q.proc \in Procs /\ q.at = "resolve" /\ q.body \in Body
    BY <1>6, <1>7 DEF ResolveKey, At, Sound
  <2>2. UNCHANGED <<db, field, purged, ops, ghosts>> /\ Load(q.proc)
    BY <1>7 DEF ResolveKey
  <2>3. cache' \in [Procs -> BOOLEAN \cup {None}]
    BY <1>0, <2>1, <2>2, FieldsType
  <2>4. req' \in [Requests -> {Idle} \cup Req] /\ ReqInv'
    <3>1. CASE End(r)
      BY <1>0, <2>2, <3>1, EndStep
    <3>2. CASE ~End(r)
      <4>1. fits /\ \E c \in IF found = {} THEN {None} ELSE found :
                   req' = [req EXCEPT ![r].at = IF q.mode = "delete" THEN "delete" ELSE "check", ![r].id = c]
        BY <1>7, <3>2 DEF ResolveKey
      <4>2. found \subseteq Contacts
        BY DEF Resolved
      <4>3. q.mode = "delete" => found # {}
        BY <4>1
      <4> HIDE DEF found, fits
      <4>4. PICK c \in Contacts \cup {None} :
               /\ req' = [req EXCEPT ![r].at = IF q.mode = "delete" THEN "delete" ELSE "check", ![r].id = c]
               /\ q.mode = "delete" => c \in Contacts
        BY <4>1, <4>2, <4>3
      <4> DEFINE a == IF q.mode = "delete" THEN "delete" ELSE "check"
                 q1 == [q EXCEPT !.at = a]
                 q2 == [q1 EXCEPT !.id = c]
      <4>5. q1 \in Req /\ q1.at = a /\ q1.body = q.body /\ q1.mode = q.mode
        <5>1. a \in Stages
          BY DEF Stages
        <5> HIDE DEF a
        <5> QED BY <2>1, <5>1, StageType
      <4>6. q2 \in Req /\ q2.at = a /\ q2.body = q.body /\ q2.id = c
        <5> HIDE DEF q1
        <5> QED BY <4>5 DEF Req
      <4>7. req' = [req EXCEPT ![r] = q2]
        BY <1>0, <4>4 DEF TypeOK
      <4> HIDE DEF q2
      <4>8. Sound(q2, field')
        BY <2>1, <4>4, <4>6 DEF Sound
      <4> QED BY <1>0, <2>2, <4>6, <4>7, <4>8, ReqStep
    <3> QED BY <3>1, <3>2
  <2> QED BY <1>0, <2>2, <2>3, <2>4, QuietKeeps
<1>8. ASSUME NEW r \in Requests, NEW q \in Req, NEW a \in Stages, q.at \in Stages,
             req' = [req EXCEPT ![r] = [q EXCEPT !.at = a]],
             a \in {"resolve", "check", "write"} => q.body \in Body, a = "delete" => q.id \in Contacts,
             a \in {"purge", "purging"} \/ (a = "changed" /\ q.mode # "add") => field' = "deleted",
             field = "deleted" => field' = "deleted"
      PROVE  req' \in [Requests -> {Idle} \cup Req] /\ ReqInv'
  <2> DEFINE new == [q EXCEPT !.at = a]
  <2>1. new \in Req /\ new.at = a /\ new.body = q.body /\ new.mode = q.mode /\ new.id = q.id
    BY StageType
  <2>2. req' = [req EXCEPT ![r] = new]
    BY <1>8
  <2> HIDE DEF new
  <2>3. Sound(new, field')
    BY <1>8, <2>1 DEF Sound
  <2> QED BY <1>0, <1>8, <2>1, <2>2, <2>3, ReqStep
<1>9. ASSUME NEW r \in Requests, CheckUnique(r) PROVE IInv'
  <2>1. req[r] \in Req /\ req[r].proc \in Procs /\ req[r].at = "check" /\ req[r].body \in Body
    BY <1>6, <1>9 DEF CheckUnique, At, Sound
  <2>2. UNCHANGED <<db, field, purged, ops, ghosts>> /\ Load(req[r].proc)
    BY <1>9 DEF CheckUnique
  <2>3. cache' \in [Procs -> BOOLEAN \cup {None}]
    BY <1>0, <2>1, <2>2, FieldsType
  <2>4. req' \in [Requests -> {Idle} \cup Req] /\ ReqInv'
    <3>1. CASE End(r)
      BY <1>0, <2>2, <3>1, EndStep
    <3>2. CASE req' = [req EXCEPT ![r].at = "write"]
      <4>1. req' = [req EXCEPT ![r] = [req[r] EXCEPT !.at = "write"]]
        BY <3>2
      <4> QED BY <1>8, <2>1, <2>2, <4>1 DEF Stages
    <3> QED BY <1>9, <3>1, <3>2 DEF CheckUnique
  <2> QED BY <1>0, <2>2, <2>3, <2>4, QuietKeeps
<1>10. ASSUME NEW r \in Requests, Write(r) PROVE IInv'
  BY <1>10, WriteKeeps
<1>11. ASSUME NEW r \in Requests, SoftDelete(r) PROVE IInv'
  <2> DEFINE c == req[r].id
  <2>1. c \in Contacts
    BY <1>6, <1>11 DEF SoftDelete, At, Sound
  <2>2. UNCHANGED <<consent, field, cache, purged, ops, revived, repeated>> /\ End(r)
    BY <1>11 DEF SoftDelete, ghosts
  <2>3. req' \in [Requests -> {Idle} \cup Req] /\ ReqInv'
    BY <1>0, <2>2, EndStep
  <2> HIDE DEF c
  <2>4. \/ Live(c) /\ contact' = [contact EXCEPT ![c].at = "deleted"] /\ owner' = Freed(c)
        \/ UNCHANGED <<contact, owner>>
    BY <1>11 DEF SoftDelete, c
  <2>5. contact' \in [Contacts -> ContactRow] /\ owner' \in [Values -> Contacts \cup {None}]
    BY <1>0, <2>1, <2>4 DEF TypeOK, ContactRow, Freed
  <2>6. KeysInv'
    <3>1. CASE UNCHANGED <<contact, owner>>
      BY <1>0, <2>2, <3>1 DEF KeysInv, OwnsInv, EmailInv, FreshInv, Live
    <3>2. CASE Live(c) /\ contact' = [contact EXCEPT ![c].at = "deleted"] /\ owner' = Freed(c)
      <4>1. \A d \in Contacts \ {c} : contact'[d] = contact[d]
        BY <1>0, <3>2
      <4>2. contact'[c].at = "deleted"
        BY <1>0, <2>1, <3>2 DEF ContactRow
      <4>3. \A d \in Contacts : contact'[d].val # None => contact'[d].val \in Values
        BY <2>5 DEF ContactRow
      <4>4. OwnsInv'
        BY <1>0, <2>2, <3>2, <4>1, <4>2, <4>3 DEF KeysInv, OwnsInv, Live, Freed
      <4> QED BY <1>0, <4>1, <4>2, <4>4 DEF KeysInv, EmailInv, FreshInv, Live
    <3> QED BY <2>4, <3>1, <3>2
  <2> QED BY <1>0, <2>2, <2>3, <2>5, <2>6 DEF IInv, TypeOK, ContactRow
<1>12. ASSUME UNCHANGED <<contact, owner, purged, consent, revived, repeated, ops>>, field' \in {"none", "live", "deleted"},
              field = "deleted" => field' = "deleted", req' \in [Requests -> {Idle} \cup Req], ReqInv',
              cache' \in [Procs -> BOOLEAN \cup {None}]
       PROVE  IInv'
  <2>1. KeysInv'
    BY <1>0, <1>12 DEF KeysInv, OwnsInv, EmailInv, FreshInv, Live
  <2> QED BY <1>0, <1>12, <2>1 DEF IInv, TypeOK
<1>13. ASSUME NEW r \in Requests, ChangeField(r) PROVE IInv'
  <2>1. req[r] \in Req /\ req[r].proc \in Procs /\ req[r].at = "change"
    BY <1>6, <1>13 DEF ChangeField, At
  <2>2. UNCHANGED <<contact, owner, purged, consent, revived, repeated, ops>>
    BY <1>13 DEF ChangeField, db, ghosts
  <2>3. CASE req[r].mode = "add" /\ field # "none"
    <3>1. End(r) /\ UNCHANGED field /\ cache' = Invalidated(req[r].proc)
      BY <1>13, <2>3 DEF ChangeField
    <3> QED BY <1>0, <1>12, <2>1, <2>2, <3>1, EndStep, InvalidatedType DEF TypeOK
  <2>4. CASE ~(req[r].mode = "add" /\ field # "none")
    <3>1. /\ field' = IF req[r].mode = "add" THEN "live" ELSE "deleted"
          /\ req' = [req EXCEPT ![r] = [req[r] EXCEPT !.at = "changed"]] /\ UNCHANGED cache
      BY <1>13, <2>4 DEF ChangeField
    <3>2. field = "deleted" => field' = "deleted"
      BY <2>4, <3>1
    <3>3. req' \in [Requests -> {Idle} \cup Req] /\ ReqInv'
      BY <1>8, <2>1, <3>1, <3>2 DEF Stages
    <3> QED BY <1>0, <1>12, <2>2, <3>1, <3>2, <3>3 DEF TypeOK
  <2> QED BY <2>3, <2>4
<1>14. ASSUME NEW r \in Requests, AnswerField(r) PROVE IInv'
  <2>1. req[r] \in Req /\ req[r].proc \in Procs /\ req[r].at = "changed" /\ Sound(req[r], field)
    BY <1>6, <1>14 DEF AnswerField, At
  <2>2. UNCHANGED <<db, field, purged, ops, ghosts>> /\ cache' = Invalidated(req[r].proc)
    BY <1>14 DEF AnswerField
  <2>3. req' \in [Requests -> {Idle} \cup Req] /\ ReqInv'
    <3>1. CASE req[r].mode = "add"
      BY <1>0, <1>14, <2>2, <3>1, EndStep DEF AnswerField
    <3>2. CASE req[r].mode # "add"
      <4>1. req' = [req EXCEPT ![r] = [req[r] EXCEPT !.at = "purge"]] /\ field = "deleted"
        BY <1>14, <2>1, <3>2 DEF AnswerField, Sound
      <4> QED BY <1>8, <2>1, <2>2, <4>1 DEF Stages
    <3> QED BY <3>1, <3>2
  <2>4. cache' \in [Procs -> BOOLEAN \cup {None}]
    BY <1>0, <2>1, <2>2, InvalidatedType
  <2> QED BY <1>0, <2>2, <2>3, <2>4, QuietKeeps
<1>15. ASSUME NEW r \in Requests, StartPurge(r) PROVE IInv'
  <2>1. req[r] \in Req /\ req[r].at = "purge" /\ field = "deleted"
    BY <1>6, <1>15 DEF StartPurge, At, Sound
  <2>2. UNCHANGED <<db, field, cache, purged, ops, ghosts>>
    BY <1>15 DEF StartPurge
  <2> DEFINE q1 == [req[r] EXCEPT !.at = "purging"]
             q2 == [q1 EXCEPT !.rows = Keyed]
  <2>3. q1 \in Req /\ q1.at = "purging"
    BY <2>1, StageType DEF Stages
  <2> HIDE DEF q1
  <2>4. q2 \in Req /\ q2.at = "purging"
    BY <2>3 DEF Req, Keyed
  <2>5. req' = [req EXCEPT ![r] = q2]
    BY <1>0, <1>15 DEF StartPurge, TypeOK, q1
  <2> HIDE DEF q2
  <2>6. Sound(q2, field')
    BY <2>1, <2>2, <2>4 DEF Sound
  <2>7. req' \in [Requests -> {Idle} \cup Req] /\ ReqInv'
    BY <1>0, <2>2, <2>4, <2>5, <2>6, ReqStep
  <2> QED BY <1>0, <2>2, <2>7, QuietKeeps DEF TypeOK
<1>16. ASSUME NEW r \in Requests, CommitPurge(r) PROVE IInv'
  <2>1. field = "deleted"
    BY <1>6, <1>16 DEF CommitPurge, At, Sound
  <2>2. UNCHANGED <<consent, field, cache, ops, repeated>> /\ End(r) /\ purged' = TRUE /\ revived' \subseteq revived
    BY <1>16 DEF CommitPurge
  <2>3. req' \in [Requests -> {Idle} \cup Req] /\ ReqInv'
    BY <1>0, <2>2, EndStep
  <2>4. \A c \in Contacts : contact'[c] = IF c \in req[r].rows THEN [contact[c] EXCEPT !.val = None] ELSE contact[c]
    BY <1>16 DEF CommitPurge
  <2>5. contact' = [c \in Contacts |-> contact'[c]]
    BY <1>16 DEF CommitPurge
  <2>6. \A c \in Contacts : /\ contact'[c] \in ContactRow /\ contact'[c].at = contact[c].at
                            /\ contact'[c].email = contact[c].email
                            /\ contact'[c].val \in {None, contact[c].val}
    BY <1>0, <2>4 DEF ContactRow
  <2>7. contact' \in [Contacts -> ContactRow] /\ owner' \in [Values -> Contacts \cup {None}]
    BY <1>16, <2>5, <2>6 DEF CommitPurge
  <2>8. KeysInv'
    BY <1>0, <2>1, <2>2, <2>6 DEF KeysInv, OwnsInv, EmailInv, FreshInv, Live
  <2> QED BY <1>0, <2>1, <2>2, <2>3, <2>7, <2>8 DEF IInv, TypeOK, ContactRow
<1>17. ASSUME NEW r \in Requests, Fail(r) PROVE IInv'
  <2>1. req[r].proc \in Procs
    BY <1>6, <1>17 DEF Fail
  <2>2. UNCHANGED <<db, field, purged, ops, ghosts>> /\ End(r)
    BY <1>17 DEF Fail
  <2>3. cache' \in [Procs -> BOOLEAN \cup {None}]
    BY <1>0, <1>17, <2>1, InvalidatedType DEF Fail, TypeOK
  <2>4. req' \in [Requests -> {Idle} \cup Req] /\ ReqInv'
    BY <1>0, <2>2, EndStep
  <2> QED BY <1>0, <2>2, <2>3, <2>4, QuietKeeps
<1>18. ASSUME NEW p \in Procs, Restart(p) PROVE IInv'
  <2>1. UNCHANGED <<db, field, purged, ops, ghosts>>
    BY <1>18 DEF Restart
  <2>2. req' \in [Requests -> {Idle} \cup Req] /\ ReqInv'
    BY <1>0, <1>18 DEF Restart, TypeOK, ReqInv, Sound
  <2>3. cache' \in [Procs -> BOOLEAN \cup {None}]
    BY <1>0, <1>18, InvalidatedType DEF Restart
  <2> QED BY <1>0, <2>1, <2>2, <2>3, QuietKeeps
<1> QED
  BY <1>1, <1>4, <1>5, <1>7, <1>9, <1>10, <1>11, <1>13, <1>14, <1>15, <1>16, <1>17, <1>18 DEF Next

\* The type invariant of the write engine.
THEOREM TypeCorrect == Spec => []TypeOK
<1>1. IInv => TypeOK
  BY DEF IInv
<1> QED BY <1>1, InitInv, NextInv, PTL DEF Spec

\* However many requests create contacts with one key or set one unique value at once,
\* with whatever definitions their processes have cached, one contact gets it
\* (contacts-write.service.ts:280, :305).
THEOREM OneOwnerEach == Spec => []OneOwner
<1>1. IInv => OneOwner
  BY OwnersAreOne DEF IInv, KeysInv
<1> QED BY <1>1, InitInv, NextInv, PTL DEF Spec

-----------------------------------------------------------------------------
(* Consents and the purge *)

\* A removed field leaves values only with contacts that were given one after its removal:
\* those a purge has not seen, while it works and from its commit on.
PurgeInv ==
    /\ purged => field = "deleted" /\ Keyed \subseteq revived
    /\ \A r \in Requests : At(r, "purging") => Keyed \ req[r].rows \subseteq revived

\* What Write makes of the contact it stores, its consent and the ghosts.
LEMMA WriteStores ==
    ASSUME IInv, NEW r \in Requests, Write(r)
    PROVE  /\ UNCHANGED <<field, purged>> /\ \A q \in Requests \ {r} : req'[q] = req[q]
           /\ req'[r] = Idle \/ req'[r].at = "resolve"
           /\ \/ UNCHANGED <<contact, consent, revived, repeated>>
              \/ \E c \in Contacts :
                    LET b == req[r].body IN
                    /\ b \in Body
                    /\ contact' = [contact EXCEPT ![c] = Merged(c, b)]
                    /\ consent' = IF "opt" \in Changed(c, b) THEN [consent EXCEPT ![c] = b.opt] ELSE consent
                    /\ repeated' = (repeated \/ ("opt" \in Changed(c, b) /\ consent[c] = b.opt))
                    /\ revived' = IF "val" \in Changed(c, b) /\ field = "deleted" THEN revived \cup {c} ELSE revived
<1>0. /\ TypeOK /\ req \in [Requests -> {Idle} \cup Req] /\ At(r, "write") /\ UNCHANGED <<field, purged>>
      /\ req[r] \in Req /\ req[r].body \in Body
  <2>1. At(r, "write") /\ UNCHANGED <<field, purged>> /\ TypeOK /\ ReqInv
    BY DEF Write, IInv
  <2>2. req[r] \in Req
    BY <2>1 DEF At, TypeOK
  <2> QED BY <2>1, <2>2 DEF TypeOK, ReqInv, Sound, At
<1>1. ASSUME End(r) PROVE req'[r] = Idle /\ \A q \in Requests \ {r} : req'[q] = req[q]
  BY <1>0, <1>1 DEF End
<1>2. CASE Retry(r)
  <2>1. UNCHANGED <<contact, consent, revived, repeated>>
    BY <1>2 DEF Retry, db, ghosts
  <2>2. ASSUME NEW q \in Req, Attempt(r, q)
        PROVE  /\ req'[r] = Idle \/ req'[r].at = "resolve"
               /\ \A p \in Requests \ {r} : req'[p] = req[p]
    <3> DEFINE new == IF q.body.val # Unset /\ ~Fields(q.proc) THEN Idle ELSE [q EXCEPT !.at = "resolve"]
    <3>1. new = Idle \/ new.at = "resolve"
      BY StageType DEF Stages
    <3>2. req' = [req EXCEPT ![r] = new]
      BY <2>2 DEF Attempt
    <3> HIDE DEF new
    <3> QED BY <1>0, <3>1, <3>2
  <2>3. CASE req[r].tries = Attempts
    BY <1>0, <1>1, <1>2, <2>1, <2>3 DEF Retry
  <2>4. CASE req[r].tries # Attempts
    <3>1. [req[r] EXCEPT !.id = None, !.tries = @ + 1] \in Req
      <4> DEFINE a == [req[r] EXCEPT !.id = None]
      <4>1. a \in Req /\ req[r].tries + 1 \in 1..Attempts
        BY <1>0, <2>4, ContactWritesAssumption DEF Req
      <4>2. [req[r] EXCEPT !.id = None, !.tries = @ + 1] = [a EXCEPT !.tries = req[r].tries + 1]
        BY <1>0 DEF a, Req
      <4> HIDE DEF a
      <4> QED BY <4>1, <4>2 DEF Req
    <3>2. Attempt(r, [req[r] EXCEPT !.id = None, !.tries = @ + 1])
      BY <1>2, <2>4 DEF Retry
    <3> QED BY <1>0, <2>1, <2>2, <3>1, <3>2
  <2> QED BY <2>3, <2>4
<1>3. CASE ~Retry(r)
  <2> DEFINE b == req[r].body
  <2>1. PICK c \in Contacts :
           /\ contact' = [contact EXCEPT ![c] = Merged(c, b)]
           /\ consent' = IF "opt" \in Changed(c, b) THEN [consent EXCEPT ![c] = b.opt] ELSE consent
           /\ repeated' = (repeated \/ ("opt" \in Changed(c, b) /\ consent[c] = b.opt))
           /\ revived' = IF "val" \in Changed(c, b) /\ field = "deleted" THEN revived \cup {c} ELSE revived
           /\ End(r)
    <3>1. CASE req[r].id # None
      <4>1. req[r].id \in Contacts
        BY <1>0, <3>1 DEF Req
      <4> QED BY <1>3, <3>1, <4>1 DEF Write
    <3>2. CASE req[r].id = None
      BY <1>3, <3>2 DEF Write
    <3> QED BY <3>1, <3>2
  <2>2. req'[r] = Idle /\ \A q \in Requests \ {r} : req'[q] = req[q]
    BY <1>1, <2>1
  <2> QED BY <1>0, <2>1, <2>2
<1> QED BY <1>2, <1>3

\* Steps of the requests that touch no contact: the history and the purge are as they were.
LEMMA ElsewhereKeeps ==
    ASSUME UNCHANGED <<contact, consent, revived, repeated, purged>>, field = "deleted" => field' = "deleted",
           \A r \in Requests : At(r, "purging")' => At(r, "purging") /\ req'[r].rows = req[r].rows
    PROVE  (HistoryFollows => HistoryFollows') /\ (PurgeInv => PurgeInv')
BY DEF HistoryFollows, PurgeInv, Keyed

LEMMA StoredKeeps ==
    ASSUME IInv, HistoryFollows, PurgeInv, NEW r \in Requests, Write(r)
    PROVE  HistoryFollows' /\ PurgeInv'
<1>0. /\ TypeOK /\ DbTypeOK /\ contact \in [Contacts -> ContactRow] /\ UNCHANGED <<field, purged>>
      /\ \A q \in Requests : At(q, "purging") => field = "deleted"
  BY WriteStores DEF IInv, TypeOK, DbTypeOK, ContactRow, ReqInv, Sound, At
<1>1. \A q \in Requests : At(q, "purging")' => At(q, "purging") /\ req'[q].rows = req[q].rows
  BY WriteStores DEF At
<1>2. CASE UNCHANGED <<contact, consent, revived, repeated>>
  BY <1>0, <1>1, <1>2, ElsewhereKeeps
<1>3. ASSUME NEW c \in Contacts, NEW b \in Body,
             contact' = [contact EXCEPT ![c] = Merged(c, b)],
             consent' = IF "opt" \in Changed(c, b) THEN [consent EXCEPT ![c] = b.opt] ELSE consent,
             repeated' = (repeated \/ ("opt" \in Changed(c, b) /\ consent[c] = b.opt)),
             revived' = IF "val" \in Changed(c, b) /\ field = "deleted" THEN revived \cup {c} ELSE revived
      PROVE  HistoryFollows' /\ PurgeInv'
  <2>1. /\ contact'[c] = Merged(c, b) /\ \A d \in Contacts \ {c} : contact'[d] = contact[d]
        /\ Merged(c, b).opt = IF b.opt = Unset THEN contact[c].opt ELSE b.opt
        /\ Merged(c, b).val = IF b.val = Unset THEN contact[c].val ELSE b.val
    BY <1>0, <1>3 DEF Merged
  <2>2. /\ "opt" \in Changed(c, b) <=> b.opt # Unset /\ b.opt # contact[c].opt
        /\ "val" \in Changed(c, b) <=> b.val # Unset /\ b.val # contact[c].val
    BY <1>0, ChangedFields
  <2>3. HistoryFollows'
    <3>1. \A d \in Contacts : consent'[d] = contact'[d].opt
      BY <1>0, <1>3, <2>1, <2>2 DEF HistoryFollows, DbTypeOK
    <3>2. ~repeated'
      BY <1>3, <2>2 DEF HistoryFollows
    <3> QED BY <3>1, <3>2 DEF HistoryFollows
  <2>4. field = "deleted" => /\ revived \subseteq revived'
                             /\ \A d \in Contacts : contact'[d].val # None => contact[d].val # None \/ d \in revived'
    BY <1>3, <2>1, <2>2
  <2>5. PurgeInv'
    BY <1>0, <1>1, <2>4 DEF PurgeInv, Keyed
  <2> QED BY <2>3, <2>5
<1> QED BY <1>2, <1>3, WriteStores

LEMMA CommitKeeps ==
    ASSUME IInv, HistoryFollows, PurgeInv, NEW r \in Requests, CommitPurge(r)
    PROVE  HistoryFollows' /\ PurgeInv'
<1>0. /\ TypeOK /\ contact \in [Contacts -> ContactRow] /\ field = "deleted" /\ UNCHANGED <<field, consent, repeated>>
      /\ At(r, "purging") /\ revived' = revived \ req[r].rows
  BY DEF CommitPurge, IInv, TypeOK, ContactRow, ReqInv, Sound, At
<1>1. \A c \in Contacts : /\ contact'[c].opt = contact[c].opt
                          /\ contact'[c].val # None => contact[c].val # None /\ c \notin req[r].rows
  BY <1>0 DEF CommitPurge, ContactRow
<1>2. \A q \in Requests : At(q, "purging")' => At(q, "purging") /\ req'[q].rows = req[q].rows
  BY <1>0 DEF CommitPurge, End, At, TypeOK
<1>3. HistoryFollows'
  BY <1>0, <1>1 DEF HistoryFollows
<1>4. PurgeInv'
  BY <1>0, <1>1, <1>2 DEF PurgeInv, Keyed
<1> QED BY <1>3, <1>4

LEMMA RecordsNext == IInv /\ HistoryFollows /\ PurgeInv /\ [Next]_vars => HistoryFollows' /\ PurgeInv'
<1> SUFFICES ASSUME IInv, HistoryFollows, PurgeInv, [Next]_vars PROVE HistoryFollows' /\ PurgeInv'
  OBVIOUS
<1>0. TypeOK /\ req \in [Requests -> {Idle} \cup Req] /\ contact \in [Contacts -> ContactRow]
  BY DEF IInv, TypeOK, ContactRow
<1>1. ASSUME NEW r \in Requests, NEW q, q = Idle \/ q.at # "purging", req' = [req EXCEPT ![r] = q],
             UNCHANGED <<contact, consent, revived, repeated, purged>>, field = "deleted" => field' = "deleted"
      PROVE  HistoryFollows' /\ PurgeInv'
  <2>1. \A p \in Requests : At(p, "purging")' => At(p, "purging") /\ req'[p].rows = req[p].rows
    BY <1>0, <1>1 DEF At
  <2> QED BY <1>1, <2>1, ElsewhereKeeps
<1>2. ASSUME NEW r \in Requests, NEW p \in Procs, BeginWrite(r, p) PROVE HistoryFollows' /\ PurgeInv'
  <2>1. PICK q : Attempt(r, q) /\ q.at = "change" /\ UNCHANGED <<contact, consent, revived, repeated, purged, field>>
    BY <1>2 DEF BeginWrite, Request, db, ghosts
  <2> DEFINE new == IF q.body.val # Unset /\ ~Fields(q.proc) THEN Idle ELSE [q EXCEPT !.at = "resolve"]
  <2>2. new = Idle \/ new.at # "purging"
    OBVIOUS
  <2>3. req' = [req EXCEPT ![r] = new]
    BY <2>1 DEF Attempt
  <2> HIDE DEF new
  <2> QED BY <1>1, <2>1, <2>2, <2>3
<1>3. ASSUME NEW r \in Requests, NEW p \in Procs, BeginField(r, p) PROVE HistoryFollows' /\ PurgeInv'
  <2>1. PICK mode : req' = [req EXCEPT ![r] = Request(p, mode, None, None)]
    BY <1>3 DEF BeginField
  <2>2. Request(p, mode, None, None).at # "purging"
    BY DEF Request
  <2> QED BY <1>1, <1>3, <2>1, <2>2 DEF BeginField, db, ghosts
<1>4. ASSUME NEW r \in Requests, End(r),
             UNCHANGED <<contact, consent, revived, repeated, purged, field>>
      PROVE  HistoryFollows' /\ PurgeInv'
  BY <1>1, <1>4 DEF End
<1>5. ASSUME NEW r \in Requests, req[r] # Idle, NEW a \in Stages, a # "purging", NEW id,
             \/ req' = [req EXCEPT ![r].at = a]
             \/ req' = [req EXCEPT ![r].at = a, ![r].id = id],
             UNCHANGED <<contact, consent, revived, repeated, purged>>, field = "deleted" => field' = "deleted"
      PROVE  HistoryFollows' /\ PurgeInv'
  <2> DEFINE q1 == [req[r] EXCEPT !.at = a]
             q2 == [q1 EXCEPT !.id = id]
  <2>1. q1 \in Req /\ q1.at = a
    BY <1>0, <1>5, StageType
  <2>2. q2.at = a
    <3> HIDE DEF q1
    <3> QED BY <2>1 DEF Req
  <2>3. req' = [req EXCEPT ![r] = q1] \/ req' = [req EXCEPT ![r] = q2]
    BY <1>0, <1>5
  <2> HIDE DEF q1, q2
  <2> QED BY <1>1, <1>5, <2>1, <2>2, <2>3
<1>6. ASSUME NEW r \in Requests, ResolveKey(r) PROVE HistoryFollows' /\ PurgeInv'
  <2>1. UNCHANGED <<contact, consent, revived, repeated, purged, field>> /\ req[r] # Idle
    BY <1>6 DEF ResolveKey, At, db, ghosts
  <2>2. CASE End(r)
    BY <1>4, <2>1, <2>2
  <2>3. CASE ~End(r)
    <3>1. PICK id : req' = [req EXCEPT ![r].at = IF req[r].mode = "delete" THEN "delete" ELSE "check", ![r].id = id]
      BY <1>6, <2>3 DEF ResolveKey
    <3> DEFINE a == IF req[r].mode = "delete" THEN "delete" ELSE "check"
    <3>2. a \in Stages /\ a # "purging"
      BY DEF Stages
    <3>3. req' = [req EXCEPT ![r].at = a, ![r].id = id]
      BY <3>1
    <3> HIDE DEF a
    <3> QED BY <1>5, <2>1, <3>2, <3>3
  <2> QED BY <2>2, <2>3
<1>7. ASSUME NEW r \in Requests, CheckUnique(r) PROVE HistoryFollows' /\ PurgeInv'
  <2>1. UNCHANGED <<contact, consent, revived, repeated, purged, field>> /\ req[r] # Idle
    BY <1>7 DEF CheckUnique, At, db, ghosts
  <2>2. End(r) \/ req' = [req EXCEPT ![r].at = "write"]
    BY <1>7 DEF CheckUnique
  <2> QED BY <1>4, <1>5, <2>1, <2>2 DEF Stages
<1>8. ASSUME NEW r \in Requests, SoftDelete(r) PROVE HistoryFollows' /\ PurgeInv'
  <2>1. UNCHANGED <<consent, revived, repeated, purged, field>> /\ End(r)
    BY <1>8 DEF SoftDelete, ghosts
  <2>2. \A c \in Contacts : contact'[c].val = contact[c].val /\ contact'[c].opt = contact[c].opt
    BY <1>0, <1>8 DEF SoftDelete, ContactRow
  <2>3. \A q \in Requests : At(q, "purging")' => At(q, "purging") /\ req'[q].rows = req[q].rows
    BY <1>0, <2>1 DEF End, At
  <2> QED BY <2>1, <2>2, <2>3 DEF HistoryFollows, PurgeInv, Keyed
<1>9. ASSUME NEW r \in Requests, ChangeField(r) PROVE HistoryFollows' /\ PurgeInv'
  <2>1. UNCHANGED <<contact, consent, revived, repeated, purged>> /\ req[r] # Idle
    BY <1>9 DEF ChangeField, At, db, ghosts
  <2>2. CASE End(r) /\ UNCHANGED field
    BY <1>4, <2>1, <2>2
  <2>3. CASE ~(End(r) /\ UNCHANGED field)
    <3>1. req' = [req EXCEPT ![r].at = "changed"] /\ (field = "deleted" => field' = "deleted")
      BY <1>9, <2>3 DEF ChangeField
    <3> QED BY <1>5, <2>1, <3>1 DEF Stages
  <2> QED BY <2>2, <2>3
<1>10. ASSUME NEW r \in Requests, AnswerField(r) PROVE HistoryFollows' /\ PurgeInv'
  <2>1. UNCHANGED <<contact, consent, revived, repeated, purged, field>> /\ req[r] # Idle
    BY <1>10 DEF AnswerField, At, db, ghosts
  <2>2. End(r) \/ req' = [req EXCEPT ![r].at = "purge"]
    BY <1>10 DEF AnswerField
  <2> QED BY <1>4, <1>5, <2>1, <2>2 DEF Stages
<1>11. ASSUME NEW r \in Requests, StartPurge(r) PROVE HistoryFollows' /\ PurgeInv'
  <2> DEFINE q1 == [req[r] EXCEPT !.at = "purging"]
             q2 == [q1 EXCEPT !.rows = Keyed]
  <2>1. UNCHANGED <<contact, consent, revived, repeated, purged, field>> /\ req[r] # Idle
    BY <1>11 DEF StartPurge, At, db, ghosts
  <2>2. q1 \in Req
    BY <1>0, <2>1, StageType DEF Stages
  <2>3. q2.rows = Keyed
    <3> HIDE DEF q1
    <3> QED BY <2>2 DEF Req
  <2>4. req' = [req EXCEPT ![r] = q2]
    BY <1>0, <1>11 DEF StartPurge
  <2> HIDE DEF q2
  <2>5. req'[r].rows = Keyed /\ \A q \in Requests \ {r} : req'[q] = req[q]
    BY <1>0, <2>3, <2>4
  <2> QED BY <2>1, <2>5 DEF HistoryFollows, PurgeInv, Keyed, At
<1>12. ASSUME NEW r \in Requests, Fail(r) PROVE HistoryFollows' /\ PurgeInv'
  BY <1>4, <1>12 DEF Fail, db, ghosts
<1>13. ASSUME NEW p \in Procs, Restart(p) PROVE HistoryFollows' /\ PurgeInv'
  <2>1. UNCHANGED <<contact, consent, revived, repeated, purged, field>>
    BY <1>13 DEF Restart, db, ghosts
  <2>2. \A q \in Requests : At(q, "purging")' => At(q, "purging") /\ req'[q].rows = req[q].rows
    BY <1>13 DEF Restart, At
  <2> QED BY <2>1, <2>2, ElsewhereKeeps
<1>14. CASE UNCHANGED vars
  BY <1>14, ElsewhereKeeps DEF vars, db, ghosts, At
<1> QED
  BY <1>2, <1>3, <1>6, <1>7, <1>8, <1>9, <1>10, <1>11, <1>12, <1>13, <1>14, StoredKeeps, CommitKeeps DEF Next

LEMMA RecordsHold == Spec => [](HistoryFollows /\ PurgeInv)
<1>1. Init => HistoryFollows /\ PurgeInv
  BY DEF Init, HistoryFollows, PurgeInv, At
<1>2. IInv /\ (HistoryFollows /\ PurgeInv) /\ [Next]_vars => (HistoryFollows /\ PurgeInv)'
  BY RecordsNext
<1> QED BY <1>1, <1>2, InitInv, NextInv, PTL DEF Spec

\* Once a purge has committed, only requests that wrote with older definitions after the
\* removal have left a value: what it did not lock was written under their stale caches
\* (field-registry.ts:64, fields.service.ts:138).
THEOREM PurgeCleans == Spec => []PurgedStaysClean
<1>1. PurgeInv => PurgedStaysClean
  BY DEF PurgeInv, PurgedStaysClean, Keyed
<1> QED BY <1>1, RecordsHold, PTL

\* The history of a contact's consents ends with the value the contact has, and repeats
\* none, however writes of the contact overlap and are tried again (consents.service.ts:29).
THEOREM HistoryIsKept == Spec => []HistoryFollows
<1> QED BY RecordsHold, PTL

-----------------------------------------------------------------------------
(* Definitions: FieldDefinitions, whose operators are D!... *)

ChoicesReq == [at : {"choices", "invalidate"}, proc : Procs, seen : D!Choices, used : [Subjects -> D!Ids \cup {None}],
               keep : SUBSET D!Ids, add : Labels \cup {None}]
ValueReq == [at : {"value"}, proc : Procs, seen : D!Choices, contact : Subjects, id : D!Ids \cup {None}]
ColumnReq == [at : {"column"}, seen : SUBSET Columns, add : Columns]
RowReq == [at : {"row"}, contact : Subjects, data : SUBSET Columns]

\* An update leaves out no choice that was in use when it read; a value was a choice then.
Requested(q) ==
    /\ q.at = "choices" => \A c \in Subjects : q.used[c] \in D!Present(q.seen) => q.used[c] \in q.keep
    /\ q.at = "value" /\ q.id # None => q.seen[q.id] # None

RequestedInv == \A r \in Requests : defReq[r] # D!Idle => Requested(defReq[r])

\* Stored values have the meaning they were taken for, and a meaning.
MeantInv ==
    "field" \in raced \/ \A c \in Subjects : value[c] # None => choices[value[c]] = meant[c] /\ meant[c] # None

\* Rows that are checked and not stored yet fit, too.
FitInv ==
    "table" \in raced \/ /\ \A c \in Subjects : rows[c] # None => columns # None /\ rows[c] \subseteq columns
                         /\ columns # None => \A r \in Requests : D!At(r, "row") => defReq[r].data \subseteq columns

DefinitionsInv == D!TypeOK /\ RequestedInv /\ MeantInv /\ FitInv

\* A set of numbers up to n has a greatest one.
LEMMA Greatest ==
    ASSUME NEW n \in Nat, NEW S, S \subseteq 0..n, S # {}
    PROVE  \E m \in S : \A i \in S : i <= m
<1> DEFINE T == {n - i : i \in S}
<1>1. \A i \in S : i \in Int /\ n - i \in Nat
  OBVIOUS
<1>2. T \subseteq Nat /\ T # {}
  BY <1>1
<1>3. PICK x \in T : \A y \in T : ~(<<y, x>> \in OpToRel(<, Nat))
  <2> HIDE DEF T
  <2> QED BY <1>2, NatLessThanWellFounded, WFMin
<1>4. \A y \in T : ~(y < x)
  BY <1>2, <1>3 DEF OpToRel
<1>5. PICK m \in S : x = n - m
  BY <1>3
<1>6. ASSUME NEW i \in S PROVE i <= m
  <2>1. ~(n - i < n - m)
    BY <1>4, <1>5
  <2> QED BY <1>1, <2>1
<1> QED BY <1>6

\* withChoiceIds gives an id that no choice of the definition has.
LEMMA NextIdIsFree ==
    ASSUME D!FieldDefinitionsAssumption, NEW ch \in D!Choices
    PROVE  D!NextId(ch) \notin D!Present(ch)
<1> DEFINE S == D!Present(ch)
<1>1. MaxId \in Nat /\ S \subseteq 1..MaxId
  BY DEF D!FieldDefinitionsAssumption, D!Present, D!Ids
<1> HIDE DEF S
<1>2. PICK m \in S \cup {0} : \A i \in S \cup {0} : i <= m
  <2>1. S \cup {0} \subseteq 0..MaxId /\ S \cup {0} # {}
    BY <1>1
  <2> QED BY <1>1, <2>1, Greatest
<1> DEFINE x == CHOOSE m_1 \in S \cup {0} : \A i \in S : i <= m_1
<1>3. x \in S \cup {0} /\ \A i \in S : i <= x
  BY <1>2
<1>4. D!NextId(ch) = 1 + x
  BY DEF S, D!NextId
<1> HIDE DEF x
<1>5. 1 + x \notin S
  BY <1>1, <1>3
<1> QED BY <1>4, <1>5 DEF S

\* A request of a stage has what its stage needs.
LEMMA RequestOf ==
    ASSUME NEW q \in D!Req
    PROVE  /\ q # D!Idle
           /\ q.at \in {"choices", "invalidate"} => q \in ChoicesReq
           /\ q.at = "value" => q \in ValueReq
           /\ q.at = "column" => q \in ColumnReq
           /\ q.at = "row" => q \in RowReq
<1>1. q \in ChoicesReq \/ q \in ValueReq \/ q \in ColumnReq \/ q \in RowReq
  BY DEF D!Req, ChoicesReq, ValueReq, ColumnReq, RowReq
<1>2. CASE q \in ChoicesReq
  BY <1>2 DEF ChoicesReq, D!Idle
<1>3. CASE q \in ValueReq
  BY <1>3 DEF ValueReq, D!Idle
<1>4. CASE q \in ColumnReq
  BY <1>4 DEF ColumnReq, D!Idle
<1>5. CASE q \in RowReq
  BY <1>5 DEF RowReq, D!Idle
<1> QED BY <1>1, <1>2, <1>3, <1>4, <1>5

LEMMA RequestKinds == D!Req = ChoicesReq \cup ValueReq \cup ColumnReq \cup RowReq
BY DEF D!Req, ChoicesReq, ValueReq, ColumnReq, RowReq

\* The requests after one of them went to t.
LEMMA RequestStep ==
    ASSUME DefinitionsInv, NEW r \in Requests, NEW t \in D!Req \cup {D!Idle}, t # D!Idle => Requested(t),
           defReq' = [defReq EXCEPT ![r] = t]
    PROVE  /\ defReq' \in [Requests -> {D!Idle} \cup D!Req]
           /\ \A q \in Requests : defReq'[q] # D!Idle => Requested(defReq'[q])
           /\ defReq'[r] = t /\ \A q \in Requests : q # r => defReq'[q] = defReq[q]
<1>1. defReq \in [Requests -> {D!Idle} \cup D!Req]
  BY DEF DefinitionsInv, D!TypeOK
<1>2. \A q \in Requests : defReq'[q] = IF q = r THEN t ELSE defReq[q]
  BY <1>1
<1>3. \A q \in Requests : defReq[q] # D!Idle => Requested(defReq[q])
  BY DEF DefinitionsInv, RequestedInv
<1> QED BY <1>1, <1>2, <1>3

\* A step that leaves what is stored keeps the invariant, if a row it has checked fits.
LEMMA StoredStays ==
    ASSUME DefinitionsInv, NEW r \in Requests, NEW t \in D!Req \cup {D!Idle}, t # D!Idle => Requested(t),
           defReq' = [defReq EXCEPT ![r] = t], t # D!Idle /\ t.at = "row" => t.data \subseteq columns,
           cached' \in [Procs -> D!Choices \cup {None}], defOps' \in 0..MaxDefinitionOps,
           UNCHANGED <<choices, value, columns, rows, meant, raced>>
    PROVE  DefinitionsInv'
<1>1. /\ defReq' \in [Requests -> {D!Idle} \cup D!Req]
      /\ \A q \in Requests : defReq'[q] # D!Idle => Requested(defReq'[q])
      /\ defReq'[r] = t /\ \A q \in Requests : q # r => defReq'[q] = defReq[q]
  BY RequestStep
<1>2. D!TypeOK'
  BY <1>1 DEF DefinitionsInv, D!TypeOK
<1>3. RequestedInv' /\ MeantInv'
  BY <1>1 DEF DefinitionsInv, RequestedInv, MeantInv
<1>4. FitInv'
  <2> SUFFICES ASSUME "table" \notin raced
               PROVE  /\ \A c \in Subjects : rows[c] # None => columns # None /\ rows[c] \subseteq columns
                      /\ columns # None => \A q \in Requests :
                            defReq'[q] # D!Idle /\ defReq'[q].at = "row" => defReq'[q].data \subseteq columns
    BY DEF FitInv, D!At
  <2>1. /\ \A c \in Subjects : rows[c] # None => columns # None /\ rows[c] \subseteq columns
        /\ columns # None => \A q \in Requests :
              defReq[q] # D!Idle /\ defReq[q].at = "row" => defReq[q].data \subseteq columns
    BY DEF DefinitionsInv, FitInv, D!At
  <2> QED BY <1>1, <2>1
<1> QED BY <1>2, <1>3, <1>4 DEF DefinitionsInv

LEMMA InitDefinitions ==
    ASSUME D!FieldDefinitionsAssumption PROVE D!Init => DefinitionsInv
<1> SUFFICES ASSUME D!Init PROVE DefinitionsInv
  OBVIOUS
<1>1. \A r \in Requests : defReq[r] = D!Idle
  BY DEF D!Init
<1>2. D!TypeOK
  BY DEF D!Init, D!TypeOK, D!Choices, D!FieldDefinitionsAssumption
<1>3. \A c \in Subjects : value[c] = None /\ rows[c] = None
  BY DEF D!Init
<1> QED BY <1>1, <1>2, <1>3 DEF DefinitionsInv, RequestedInv, MeantInv, FitInv, D!At

LEMMA NextDefinitions ==
    ASSUME D!FieldDefinitionsAssumption PROVE DefinitionsInv /\ [D!Next]_D!vars => DefinitionsInv'
<1> SUFFICES ASSUME DefinitionsInv, [D!Next]_D!vars PROVE DefinitionsInv'
  OBVIOUS
<1>0. /\ D!TypeOK /\ defReq \in [Requests -> {D!Idle} \cup D!Req]
      /\ \A r \in Requests : defReq[r] # D!Idle => defReq[r] \in D!Req /\ Requested(defReq[r])
      /\ MaxDefinitionOps \in Nat /\ None \notin D!Ids
  BY DEF DefinitionsInv, D!TypeOK, RequestedInv, D!FieldDefinitionsAssumption, D!Ids
<1>1. ASSUME NEW r \in Requests, NEW p \in Procs, D!BeginChoices(r, p) PROVE DefinitionsInv'
  <2>1. PICK keep \in SUBSET D!Present(choices), add \in Labels \cup {None} :
          /\ ~D!InUse(D!Present(choices) \ keep)
          /\ D!Begin(r, [at |-> "choices", proc |-> p, seen |-> choices, used |-> value, keep |-> keep, add |-> add])
    BY <1>1 DEF D!BeginChoices
  <2> DEFINE t == [at |-> "choices", proc |-> p, seen |-> choices, used |-> value, keep |-> keep, add |-> add]
  <2>2. t \in ChoicesReq
    BY <1>0 DEF D!TypeOK, ChoicesReq, D!Present
  <2>3. Requested(t)
    BY <2>1 DEF Requested, D!InUse
  <2>4. t.at # "row"
    OBVIOUS
  <2>5. defReq' = [defReq EXCEPT ![r] = t] /\ defOps' \in 0..MaxDefinitionOps
    BY <1>0, <2>1 DEF D!Begin, D!TypeOK
  <2> HIDE DEF t
  <2>6. UNCHANGED <<cached, choices, value, columns, rows, meant, raced>>
    BY <1>1 DEF D!BeginChoices, D!ghosts
  <2>7. cached' \in [Procs -> D!Choices \cup {None}]
    BY <1>0, <2>6 DEF D!TypeOK
  <2> QED BY <2>2, <2>3, <2>4, <2>5, <2>6, <2>7, RequestKinds, StoredStays
<1>2. ASSUME NEW r \in Requests, NEW p \in Procs, NEW c \in Subjects, NEW i \in D!Ids \cup {None}, D!BeginValue(r, p, c, i)
      PROVE  DefinitionsInv'
  <2> DEFINE defs == IF cached[p] = None THEN choices ELSE cached[p]
  <2> DEFINE t == [at |-> "value", proc |-> p, seen |-> defs, contact |-> c, id |-> i]
  <2>1. defs \in D!Choices
    BY <1>0 DEF D!TypeOK
  <2>2. /\ defReq' = [defReq EXCEPT ![r] = t] /\ defOps' \in 0..MaxDefinitionOps
        /\ cached' = [cached EXCEPT ![p] = defs] /\ (i # None => defs[i] # None)
        /\ UNCHANGED <<choices, value, columns, rows, meant, raced>>
    BY <1>0, <1>2 DEF D!BeginValue, D!Begin, D!ghosts, D!TypeOK
  <2> HIDE DEF defs
  <2>3. t \in ValueReq
    BY <2>1 DEF ValueReq
  <2>4. Requested(t) /\ t.at # "row"
    BY <2>2 DEF Requested
  <2> HIDE DEF t
  <2>5. cached' \in [Procs -> D!Choices \cup {None}]
    BY <1>0, <2>1, <2>2 DEF D!TypeOK
  <2> QED BY <2>2, <2>3, <2>4, <2>5, RequestKinds, StoredStays
<1>3. ASSUME NEW r \in Requests, NEW x \in Columns, D!BeginColumn(r, x) PROVE DefinitionsInv'
  <2> DEFINE t == [at |-> "column", seen |-> columns, add |-> x]
  <2>1. /\ defReq' = [defReq EXCEPT ![r] = t] /\ defOps' \in 0..MaxDefinitionOps /\ columns # None
        /\ UNCHANGED <<cached, choices, value, columns, rows, meant, raced>>
    BY <1>0, <1>3 DEF D!BeginColumn, D!Begin, D!ghosts, D!TypeOK
  <2>2. t \in ColumnReq
    BY <1>0, <2>1 DEF ColumnReq, D!TypeOK
  <2>3. Requested(t) /\ t.at # "row"
    BY DEF Requested
  <2> HIDE DEF t
  <2>4. cached' \in [Procs -> D!Choices \cup {None}]
    BY <1>0, <2>1 DEF D!TypeOK
  <2> QED BY <2>1, <2>2, <2>3, <2>4, RequestKinds, StoredStays
<1>4. ASSUME NEW r \in Requests, NEW c \in Subjects, NEW data \in SUBSET Columns, D!BeginRow(r, c, data) PROVE DefinitionsInv'
  <2> DEFINE t == [at |-> "row", contact |-> c, data |-> data]
  <2>1. /\ defReq' = [defReq EXCEPT ![r] = t] /\ defOps' \in 0..MaxDefinitionOps /\ data \subseteq columns
        /\ UNCHANGED <<cached, choices, value, columns, rows, meant, raced>>
    BY <1>0, <1>4 DEF D!BeginRow, D!Begin, D!Fits, D!ghosts, D!TypeOK
  <2>2. t \in RowReq /\ t.data \subseteq columns
    BY <2>1 DEF RowReq
  <2>3. Requested(t)
    BY DEF Requested
  <2> HIDE DEF t
  <2>4. cached' \in [Procs -> D!Choices \cup {None}]
    BY <1>0, <2>1 DEF D!TypeOK
  <2> QED BY <2>1, <2>2, <2>3, <2>4, RequestKinds, StoredStays
<1>5. ASSUME NEW r \in Requests, D!WriteChoices(r) PROVE DefinitionsInv'
  <2> DEFINE q == defReq[r]
             new == IF q.add = None THEN {} ELSE {D!NextId(q.seen)}
             t == [q EXCEPT !.at = "invalidate"]
  <2>1. /\ q # D!Idle /\ q.at = "choices" /\ defReq' = [defReq EXCEPT ![r] = t]
        /\ choices' = [i \in D!Ids |-> IF i \in new THEN q.add ELSE IF i \in q.keep THEN q.seen[i] ELSE None]
        /\ raced' = IF choices # q.seen \/ value # q.used THEN raced \cup {"field"} ELSE raced
        /\ UNCHANGED <<cached, value, columns, rows, defOps, meant>>
    BY <1>5 DEF D!WriteChoices, D!At
  <2>2. q \in ChoicesReq /\ Requested(q)
    BY <1>0, <2>1, RequestOf
  <2>3. t \in ChoicesReq /\ t.at = "invalidate"
    BY <2>2 DEF ChoicesReq
  <2>4. Requested(t)
    BY <2>3 DEF Requested
  <2> HIDE DEF t
  <2>5. /\ defReq' \in [Requests -> {D!Idle} \cup D!Req]
        /\ \A s \in Requests : defReq'[s] # D!Idle => Requested(defReq'[s])
        /\ defReq'[r] = t /\ \A s \in Requests : s # r => defReq'[s] = defReq[s]
    BY <2>1, <2>3, <2>4, RequestKinds, RequestStep
  <2>6. choices' \in D!Choices
    <3>1. q.add \in Labels \cup {None} /\ q.keep \subseteq D!Ids /\ q.seen \in [D!Ids -> Labels \cup {None}]
      BY <2>2 DEF ChoicesReq, D!Choices
    <3> HIDE DEF q, new
    <3> QED BY <2>1, <3>1 DEF D!Choices
  <2>7. raced' \subseteq {"field", "table"} /\ raced \subseteq raced' /\ ("table" \in raced' => "table" \in raced)
    BY <1>0, <2>1 DEF D!TypeOK
  <2>8. D!TypeOK' /\ RequestedInv'
    BY <1>0, <2>1, <2>5, <2>6, <2>7 DEF D!TypeOK, RequestedInv
  <2>9. MeantInv'
    <3> SUFFICES ASSUME "field" \notin raced', NEW c \in Subjects, value[c] # None
                 PROVE  choices'[value[c]] = meant[c] /\ meant[c] # None
      BY <2>1 DEF MeantInv
    <3>1. "field" \notin raced /\ choices = q.seen /\ value = q.used
      BY <2>1
    <3>2. choices[value[c]] = meant[c] /\ meant[c] # None
      BY <3>1 DEF DefinitionsInv, MeantInv
    <3>3. value[c] \in D!Ids
      BY <1>0 DEF D!TypeOK
    <3>4. q.used[c] \in D!Present(q.seen)
      BY <3>1, <3>2, <3>3 DEF D!Present
    <3>5. value[c] \in q.keep
      BY <2>1, <2>2, <3>1, <3>4 DEF Requested
    <3>6. value[c] \notin new
      <4>1. q.seen \in D!Choices
        BY <2>2 DEF ChoicesReq
      <4>2. D!NextId(q.seen) \notin D!Present(q.seen)
        BY <4>1, NextIdIsFree
      <4> QED BY <3>1, <3>4, <4>2
    <3> HIDE DEF q, new
    <3> QED BY <2>1, <3>1, <3>2, <3>3, <3>5, <3>6
  <2>10. FitInv'
    <3> SUFFICES ASSUME "table" \notin raced
                 PROVE  /\ \A c \in Subjects : rows[c] # None => columns # None /\ rows[c] \subseteq columns
                        /\ columns # None => \A s \in Requests :
                              defReq'[s] # D!Idle /\ defReq'[s].at = "row" => defReq'[s].data \subseteq columns
      BY <2>1, <2>7 DEF FitInv, D!At
    <3>1. /\ \A c \in Subjects : rows[c] # None => columns # None /\ rows[c] \subseteq columns
          /\ columns # None => \A s \in Requests :
                defReq[s] # D!Idle /\ defReq[s].at = "row" => defReq[s].data \subseteq columns
      BY DEF DefinitionsInv, FitInv, D!At
    <3> QED BY <2>3, <2>5, <3>1
  <2> QED BY <2>8, <2>9, <2>10 DEF DefinitionsInv
<1>6. ASSUME NEW r \in Requests, D!Invalidate(r) PROVE DefinitionsInv'
  <2>1. /\ defReq' = [defReq EXCEPT ![r] = D!Idle] /\ cached' = [cached EXCEPT ![defReq[r].proc] = None]
        /\ UNCHANGED <<choices, value, columns, rows, defOps, meant, raced>>
    BY <1>6 DEF D!Invalidate, D!End, D!ghosts
  <2>2. cached' \in [Procs -> D!Choices \cup {None}] /\ defOps' \in 0..MaxDefinitionOps
    BY <1>0, <2>1 DEF D!TypeOK
  <2> QED BY <2>1, <2>2, StoredStays
<1>7. ASSUME NEW r \in Requests, D!WriteValue(r) PROVE DefinitionsInv'
  <2> DEFINE q == defReq[r]
  <2>1. /\ q # D!Idle /\ q.at = "value" /\ defReq' = [defReq EXCEPT ![r] = D!Idle]
        /\ value' = [value EXCEPT ![q.contact] = q.id]
        /\ meant' = [meant EXCEPT ![q.contact] = IF q.id = None THEN None ELSE q.seen[q.id]]
        /\ raced' = IF choices # q.seen THEN raced \cup {"field"} ELSE raced
        /\ UNCHANGED <<choices, cached, columns, rows, defOps>>
    BY <1>7 DEF D!WriteValue, D!At, D!End
  <2>2. q \in ValueReq /\ Requested(q)
    BY <1>0, <2>1, RequestOf
  <2>3. /\ defReq' \in [Requests -> {D!Idle} \cup D!Req]
        /\ \A s \in Requests : defReq'[s] # D!Idle => Requested(defReq'[s])
        /\ defReq'[r] = D!Idle /\ \A s \in Requests : s # r => defReq'[s] = defReq[s]
    BY <2>1, RequestStep
  <2>4. q.contact \in Subjects /\ q.id \in D!Ids \cup {None} /\ q.seen \in [D!Ids -> Labels \cup {None}]
    BY <2>2 DEF ValueReq, D!Choices
  <2>5. q.id # None => q.seen[q.id] # None
    BY <2>1, <2>2 DEF Requested
  <2> HIDE DEF q
  <2>6. /\ value \in [Subjects -> D!Ids \cup {None}] /\ meant \in [Subjects -> Labels \cup {None}]
        /\ raced \subseteq {"field", "table"}
    BY <1>0 DEF D!TypeOK
  <2>7. value' \in [Subjects -> D!Ids \cup {None}] /\ meant' \in [Subjects -> Labels \cup {None}]
    BY <2>1, <2>4, <2>6
  <2>8. raced' \subseteq {"field", "table"} /\ raced \subseteq raced' /\ ("table" \in raced' => "table" \in raced)
    BY <2>1, <2>6
  <2>9. D!TypeOK' /\ RequestedInv'
    BY <1>0, <2>1, <2>3, <2>7, <2>8 DEF D!TypeOK, RequestedInv
  <2>10. MeantInv'
    <3> SUFFICES ASSUME "field" \notin raced', NEW c \in Subjects, value'[c] # None
                 PROVE  choices[value'[c]] = meant'[c] /\ meant'[c] # None
      BY <2>1 DEF MeantInv
    <3>1. CASE c = q.contact
      <4>1. value'[c] = q.id /\ meant'[c] = IF q.id = None THEN None ELSE q.seen[q.id]
        BY <2>1, <2>6, <3>1
      <4>2. choices = q.seen
        BY <2>1
      <4> QED BY <2>5, <4>1, <4>2
    <3>2. CASE c # q.contact
      <4>1. value'[c] = value[c] /\ meant'[c] = meant[c] /\ "field" \notin raced
        BY <2>1, <2>6, <2>8, <3>2
      <4> QED BY <4>1 DEF DefinitionsInv, MeantInv
    <3> QED BY <3>1, <3>2
  <2>11. FitInv'
    BY <2>1, <2>3, <2>8 DEF DefinitionsInv, FitInv, D!At
  <2> QED BY <2>9, <2>10, <2>11 DEF DefinitionsInv
<1>8. ASSUME NEW r \in Requests, D!WriteColumn(r) PROVE DefinitionsInv'
  <2> DEFINE q == defReq[r]
  <2>1. /\ q # D!Idle /\ q.at = "column" /\ defReq' = [defReq EXCEPT ![r] = D!Idle]
        /\ UNCHANGED <<choices, cached, value, rows, defOps, meant>>
    BY <1>8 DEF D!WriteColumn, D!At, D!End
  <2>2. /\ columns = None => UNCHANGED <<columns, raced>>
        /\ columns # None => /\ columns' = q.seen \cup {q.add}
                             /\ raced' = IF columns # q.seen THEN raced \cup {"table"} ELSE raced
    BY <1>8 DEF D!WriteColumn, D!Extended
  <2>3. q \in ColumnReq
    BY <1>0, <2>1, RequestOf
  <2>4. /\ defReq' \in [Requests -> {D!Idle} \cup D!Req]
        /\ \A s \in Requests : defReq'[s] # D!Idle => Requested(defReq'[s])
        /\ defReq'[r] = D!Idle /\ \A s \in Requests : s # r => defReq'[s] = defReq[s]
    BY <2>1, RequestStep
  <2>5. q.seen \subseteq Columns /\ q.add \in Columns
    BY <2>3 DEF ColumnReq
  <2> HIDE DEF q
  <2>6. raced \subseteq {"field", "table"} /\ columns \in (SUBSET Columns) \cup {None} /\ None \notin SUBSET Columns
    BY <1>0 DEF D!TypeOK, D!FieldDefinitionsAssumption
  <2>7. columns' \in (SUBSET Columns) \cup {None} /\ (columns # None => columns' \in SUBSET Columns)
    BY <2>2, <2>5, <2>6
  <2>8. raced' \subseteq {"field", "table"} /\ raced \subseteq raced' /\ ("field" \in raced' => "field" \in raced)
    BY <2>2, <2>6
  <2>9. D!TypeOK' /\ RequestedInv' /\ MeantInv'
    BY <1>0, <2>1, <2>4, <2>7, <2>8 DEF D!TypeOK, RequestedInv, DefinitionsInv, MeantInv
  <2>10. FitInv'
    <3> SUFFICES ASSUME "table" \notin raced'
                 PROVE  /\ \A c \in Subjects : rows[c] # None => columns' # None /\ rows[c] \subseteq columns'
                        /\ columns' # None => \A s \in Requests :
                              defReq'[s] # D!Idle /\ defReq'[s].at = "row" => defReq'[s].data \subseteq columns'
      BY <2>1 DEF FitInv, D!At
    <3>1. /\ \A c \in Subjects : rows[c] # None => columns # None /\ rows[c] \subseteq columns
          /\ columns # None => \A s \in Requests :
                defReq[s] # D!Idle /\ defReq[s].at = "row" => defReq[s].data \subseteq columns
      BY <2>8 DEF DefinitionsInv, FitInv, D!At
    <3>2. columns' = None <=> columns = None
      BY <2>2, <2>6, <2>7
    <3>3. columns # None => columns \subseteq columns'
      BY <2>2
    <3> QED BY <2>4, <3>1, <3>2, <3>3
  <2> QED BY <2>9, <2>10 DEF DefinitionsInv
<1>9. ASSUME NEW r \in Requests, D!WriteRow(r) PROVE DefinitionsInv'
  <2> DEFINE q == defReq[r]
  <2>1. /\ q # D!Idle /\ q.at = "row" /\ defReq' = [defReq EXCEPT ![r] = D!Idle]
        /\ rows' = IF columns = None THEN rows ELSE [rows EXCEPT ![q.contact] = q.data]
        /\ UNCHANGED <<choices, cached, value, columns, defOps, meant, raced>>
    BY <1>9 DEF D!WriteRow, D!At, D!End, D!ghosts
  <2>2. q \in RowReq
    BY <1>0, <2>1, RequestOf
  <2>3. /\ defReq' \in [Requests -> {D!Idle} \cup D!Req]
        /\ \A s \in Requests : defReq'[s] # D!Idle => Requested(defReq'[s])
        /\ defReq'[r] = D!Idle /\ \A s \in Requests : s # r => defReq'[s] = defReq[s]
    BY <2>1, RequestStep
  <2>4. q.contact \in Subjects /\ q.data \in SUBSET Columns
    BY <2>2 DEF RowReq
  <2>5. "table" \notin raced /\ columns # None => q.data \subseteq columns
    BY <2>1 DEF DefinitionsInv, FitInv, D!At
  <2> HIDE DEF q
  <2>6. rows \in [Subjects -> (SUBSET Columns) \cup {None}]
    BY <1>0 DEF D!TypeOK
  <2>7. rows' \in [Subjects -> (SUBSET Columns) \cup {None}]
    BY <2>1, <2>4, <2>6
  <2>8. D!TypeOK' /\ RequestedInv' /\ MeantInv'
    BY <1>0, <2>1, <2>3, <2>7 DEF D!TypeOK, RequestedInv, DefinitionsInv, MeantInv
  <2>9. FitInv'
    <3> SUFFICES ASSUME "table" \notin raced
                 PROVE  /\ \A c \in Subjects : rows'[c] # None => columns # None /\ rows'[c] \subseteq columns
                        /\ columns # None => \A s \in Requests :
                              defReq'[s] # D!Idle /\ defReq'[s].at = "row" => defReq'[s].data \subseteq columns
      BY <2>1 DEF FitInv, D!At
    <3>1. /\ \A c \in Subjects : rows[c] # None => columns # None /\ rows[c] \subseteq columns
          /\ columns # None => \A s \in Requests :
                defReq[s] # D!Idle /\ defReq[s].at = "row" => defReq[s].data \subseteq columns
      BY DEF DefinitionsInv, FitInv, D!At
    <3>2. \A c \in Subjects : rows'[c] = rows[c] \/ (columns # None /\ rows'[c] = q.data)
      BY <2>1, <2>6
    <3> QED BY <2>3, <2>5, <3>1, <3>2
  <2> QED BY <2>8, <2>9 DEF DefinitionsInv
<1>10. ASSUME NEW r \in Requests, D!Fail(r) PROVE DefinitionsInv'
  <2>1. /\ defReq' = [defReq EXCEPT ![r] = D!Idle]
        /\ UNCHANGED <<cached, choices, value, columns, rows, defOps, meant, raced>>
    BY <1>10 DEF D!Fail, D!End, D!ghosts
  <2>2. cached' \in [Procs -> D!Choices \cup {None}] /\ defOps' \in 0..MaxDefinitionOps
    BY <1>0, <2>1 DEF D!TypeOK
  <2> QED BY <2>1, <2>2, StoredStays
<1>11. CASE D!RemoveTable
  <2>1. /\ columns' = None /\ rows' = [c \in Subjects |-> None] /\ defOps' \in 0..MaxDefinitionOps
        /\ UNCHANGED <<choices, cached, value, defReq, meant, raced>>
    BY <1>0, <1>11 DEF D!RemoveTable, D!ghosts, D!TypeOK
  <2>2. rows' \in [Subjects -> (SUBSET Columns) \cup {None}] /\ \A c \in Subjects : rows'[c] = None
    BY <2>1
  <2>3. D!TypeOK' /\ RequestedInv' /\ MeantInv'
    BY <1>0, <2>1, <2>2 DEF D!TypeOK, RequestedInv, DefinitionsInv, MeantInv
  <2>4. FitInv'
    BY <2>1, <2>2 DEF FitInv
  <2> QED BY <2>3, <2>4 DEF DefinitionsInv
<1>12. CASE UNCHANGED D!vars
  BY <1>12 DEF D!vars, D!ghosts, DefinitionsInv, D!TypeOK, RequestedInv, MeantInv, FitInv, D!At
<1>13. CASE D!Next
  BY <1>1, <1>2, <1>3, <1>4, <1>5, <1>6, <1>7, <1>8, <1>9, <1>10, <1>11, <1>13 DEF D!Next
<1> QED BY <1>12, <1>13

\* The type invariant of the definitions.
THEOREM DefinitionsTyped == ASSUME D!FieldDefinitionsAssumption PROVE D!Spec => []D!TypeOK
<1>1. DefinitionsInv => D!TypeOK
  BY DEF DefinitionsInv
<1> QED BY <1>1, InitDefinitions, NextDefinitions, PTL DEF D!Spec

\* A stored value is a choice and means what it meant when it was stored, although
\* ids are given again, unless a writer was overtaken (fields.service.ts:89).
THEOREM ValuesMean == ASSUME D!FieldDefinitionsAssumption PROVE D!Spec => []ValuesKeepTheirMeaning
<1>1. DefinitionsInv => ValuesKeepTheirMeaning
  BY DEF DefinitionsInv, MeantInv, ValuesKeepTheirMeaning, D!ValuesKeepTheirMeaning
<1> QED BY <1>1, InitDefinitions, NextDefinitions, PTL DEF D!Spec

\* Stored rows have data in columns of the table only, unless an update of the table
\* was overtaken (relational.service.ts:134).
THEOREM RowsFitted == ASSUME D!FieldDefinitionsAssumption PROVE D!Spec => []RowsFit
<1>1. DefinitionsInv => RowsFit
  BY DEF DefinitionsInv, FitInv, RowsFit, D!RowsFit
<1> QED BY <1>1, InitDefinitions, NextDefinitions, PTL DEF D!Spec
=============================================================================
