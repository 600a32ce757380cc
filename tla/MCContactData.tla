---------------------------- MODULE MCContactData ----------------------------
(***************************************************************************)
(* ContactWrites and FieldDefinitions for TLC: what is written of contacts *)
(* and what the definitions say of it.  Each keeps its own small database; *)
(* a behaviour is one of either, as part says, and leaves the variables of *)
(* the other alone.                                                        *)
(***************************************************************************)
EXTENDS ContactWrites, TLC

CONSTANTS c1, c2, d1, e1, v1, l1, l2, x1, x2, r1, r2, p1, p2,
          Labels, Columns, MaxId,
          Subjects,         \* Contacts of FieldDefinitions
          MaxDefinitionOps  \* bound: MaxOps of FieldDefinitions

VARIABLES part, choices, cached, value, columns, rows, defReq, defOps, meant, raced

D == INSTANCE FieldDefinitions
     WITH Contacts <- Subjects, req <- defReq, ops <- defOps, MaxOps <- MaxDefinitionOps

ASSUME D!FieldDefinitionsAssumption

Symmetry == Permutations({c1, c2}) \cup Permutations({r1, r2}) \cup Permutations({p1, p2})

defVars == <<choices, cached, value, columns, rows, defReq, defOps, meant, raced>>

IsWrites == part = "writes" /\ UNCHANGED <<part, defVars>>
IsDefinitions == part = "definitions" /\ UNCHANGED <<part, vars>>

\* The first choice has l1: the other label in its place gives the same behaviours.
\* FieldDefinitions knows no custom field: the variables of ContactWrites start in one state.
ContactDataInit ==
    /\ part \in {"writes", "definitions"} /\ Init /\ D!Init
    /\ choices[1] = l1
    /\ part = "definitions" => field = "none"

ContactDataNext ==
    \/ \E r \in Requests, p \in Procs : IsWrites /\ BeginWrite(r, p)
    \/ \E r \in Requests, p \in Procs : IsWrites /\ BeginField(r, p)
    \/ \E r \in Requests : IsWrites /\ ResolveKey(r)
    \/ \E r \in Requests : IsWrites /\ CheckUnique(r)
    \/ \E r \in Requests : IsWrites /\ Write(r)
    \/ \E r \in Requests : IsWrites /\ SoftDelete(r)
    \/ \E r \in Requests : IsWrites /\ ChangeField(r)
    \/ \E r \in Requests : IsWrites /\ AnswerField(r)
    \/ \E r \in Requests : IsWrites /\ StartPurge(r)
    \/ \E r \in Requests : IsWrites /\ CommitPurge(r)
    \/ \E r \in Requests : IsWrites /\ Fail(r)
    \/ \E p \in Procs : IsWrites /\ Restart(p)
    \/ \E r \in Requests, p \in Procs : IsDefinitions /\ D!BeginChoices(r, p)
    \/ \E r \in Requests, p \in Procs, c \in Subjects, i \in D!Ids \cup {None} :
          IsDefinitions /\ D!BeginValue(r, p, c, i)
    \/ \E r \in Requests, x \in Columns : IsDefinitions /\ D!BeginColumn(r, x)
    \/ \E r \in Requests, c \in Subjects, data \in SUBSET Columns : IsDefinitions /\ D!BeginRow(r, c, data)
    \/ \E r \in Requests : IsDefinitions /\ D!WriteChoices(r)
    \/ \E r \in Requests : IsDefinitions /\ D!Invalidate(r)
    \/ \E r \in Requests : IsDefinitions /\ D!WriteValue(r)
    \/ \E r \in Requests : IsDefinitions /\ D!WriteColumn(r)
    \/ \E r \in Requests : IsDefinitions /\ D!WriteRow(r)
    \/ \E r \in Requests : IsDefinitions /\ D!Fail(r)
    \/ IsDefinitions /\ D!RemoveTable

ContactDataSpec == ContactDataInit /\ [][ContactDataNext]_<<part, vars, defVars>>

\* The invariants of FieldDefinitions, on its instance.
ValuesKeepTheirMeaning == D!ValuesKeepTheirMeaning
RowsFit == D!RowsFit
=============================================================================
