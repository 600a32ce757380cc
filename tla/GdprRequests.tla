---------------------------- MODULE GdprRequests ----------------------------
(***************************************************************************)
(* Access and erasure of one contact (services/core gdpr).  A request is a *)
(* row, run in the background by the process that took it, one at a time;  *)
(* a process that starts also takes every request it finds open.  Beside   *)
(* them: a write of the contact's relational rows.                         *)
(***************************************************************************)
EXTENDS Naturals, Sequences

CONSTANTS Procs,
          MaxReqs,   \* bound: requests, numbered as they are created
          MaxFaults, \* bound: failing calls and crashes
          None

GdprRequestsAssumption == MaxReqs \in Nat /\ MaxFaults \in Nat /\ None \notin Nat \cup {"export", "forget"}

VARIABLES req,      \* contacts.gdpr_requests, in the order of their ids
          contact,  \* is the row of the contact there?
          rows,     \* does it have relational rows?
          objects,  \* requests with an object in the exports bucket
          asked,    \* the kind each process is asked for, after it has seen the contact
          queue,    \* GdprService.queue of each process, without the request that runs
          run,      \* the request each process runs, and where
          up,       \* the processes that are up
          upsert,   \* a write of relational rows has resolved the contact
          faults,
          orphans,  \* ghost: objects the erasure could not know of or remove
          stray,    \* ghost: rows were written after the erasure
          unmarked  \* ghost: requests whose failure could not be written

ghosts == <<orphans, stray, unmarked>>
work == <<asked, queue, run, up>>
vars == <<req, contact, rows, objects, work, upsert, faults, ghosts>>

Ids == DOMAIN req
Settled == {"done", "failed"}
Open == {i \in Ids : req[i].status \notin Settled}
Idle == [at |-> "idle"]

\* Every variable has its shape.
TypeOK ==
    /\ req \in Seq([kind : {"export", "forget"}, status : {"pending", "running"} \cup Settled, linked : BOOLEAN, key : BOOLEAN])
    /\ Len(req) <= MaxReqs
    /\ contact \in BOOLEAN /\ rows \in BOOLEAN /\ objects \subseteq Ids
    /\ asked \in [Procs -> {"export", "forget", None}]
    /\ queue \in [Procs -> Seq(1..MaxReqs)]
    /\ run \in [Procs -> {Idle} \cup [at : {"claim", "work", "put", "mark", "clean", "fail"}, id : Ids, stale : SUBSET Ids]]
    /\ up \in [Procs -> BOOLEAN] /\ upsert \in BOOLEAN
    /\ faults \in 0..MaxFaults
    /\ orphans \subseteq Ids /\ stray \in BOOLEAN /\ unmarked \subseteq Ids

Init ==
    /\ req = <<>> /\ contact = TRUE /\ rows = TRUE /\ objects = {}
    /\ asked = [p \in Procs |-> None] /\ queue = [p \in Procs |-> <<>>]
    /\ run = [p \in Procs |-> Idle] /\ up = [p \in Procs |-> TRUE]
    /\ upsert = FALSE /\ faults = 0
    /\ orphans = {} /\ stray = FALSE /\ unmarked = {}

-----------------------------------------------------------------------------
(* Requests *)

At(p, stage) == run[p] # Idle /\ run[p].at = stage

Set(i, field, v) == [req EXCEPT ![i] = [@ EXCEPT ![field] = v]]

End(p) == run' = [run EXCEPT ![p] = Idle]

Go(p, stage) == run' = [run EXCEPT ![p].at = stage]

Fault == faults < MaxFaults /\ faults' = faults + 1

\* request: the contact is there ...
Ask(p, kind) ==
    /\ up[p] /\ asked[p] = None /\ contact /\ Len(req) < MaxReqs
    /\ asked' = [asked EXCEPT ![p] = kind]
    /\ UNCHANGED <<req, contact, rows, objects, queue, run, up, upsert, faults, ghosts>>

\* ... and the row is created and queued.
Create(p) ==
    LET i == Len(req) + 1 IN
    /\ asked[p] # None /\ i <= MaxReqs
    /\ req' = Append(req, [kind |-> asked[p], status |-> "pending", linked |-> TRUE, key |-> FALSE])
    /\ asked' = [asked EXCEPT ![p] = None]
    /\ queue' = [queue EXCEPT ![p] = Append(@, i)]
    /\ UNCHANGED <<contact, rows, objects, run, up, upsert, faults, ghosts>>

-----------------------------------------------------------------------------
(* Runs *)

\* The chain of promises: the next one starts when the one before it is over.
Start(p) ==
    /\ run[p] = Idle /\ queue[p] # <<>>
    /\ run' = [run EXCEPT ![p] = [at |-> "claim", id |-> Head(queue[p]), stale |-> {}]]
    /\ queue' = [queue EXCEPT ![p] = Tail(@)]
    /\ UNCHANGED <<req, contact, rows, objects, asked, up, upsert, faults, ghosts>>

Claimable(i) == i \in Open

\* run: a request that is not open any more is left alone.
Claim(p) ==
    LET i == run[p].id IN
    /\ At(p, "claim")
    /\ IF Claimable(i) THEN req' = Set(i, "status", "running") /\ Go(p, "work") ELSE End(p) /\ UNCHANGED req
    /\ UNCHANGED <<contact, rows, objects, asked, queue, up, upsert, faults, orphans, stray, unmarked>>

\* export: the contact is read.
Read(p) ==
    LET i == run[p].id IN
    /\ At(p, "work") /\ req[i].kind = "export"
    /\ Go(p, IF req[i].linked /\ contact THEN "put" ELSE "fail")
    /\ UNCHANGED <<req, contact, rows, objects, asked, queue, up, upsert, faults, ghosts>>

\* The object is uploaded; one that comes after the erasure is not known to it.
Put(p) ==
    LET i == run[p].id IN
    /\ At(p, "put") /\ Go(p, "mark")
    /\ objects' = objects \cup {i}
    /\ orphans' = IF contact THEN orphans ELSE orphans \cup {i}
    /\ UNCHANGED <<req, contact, rows, asked, queue, up, upsert, faults, stray, unmarked>>

Mark(p) ==
    LET i == run[p].id IN
    /\ At(p, "mark") /\ End(p)
    /\ req' = [req EXCEPT ![i].status = "done", ![i].key = TRUE]
    /\ UNCHANGED <<contact, rows, objects, asked, queue, up, upsert, faults, ghosts>>

Linked == {j \in Ids : req[j].linked}

\* Faulty variant of StaleExports: RETURNING gives the rows after the UPDATE.
StaleExportsAfter == {}

\* The keys the requests of the contact had.
StaleExports == {j \in Linked : req[j].key}

\* forget: one transaction erases the contact, its rows and the subject of its requests.
Erase(p) ==
    LET i == run[p].id IN
    /\ At(p, "work") /\ req[i].kind = "forget"
    /\ IF req[i].linked
       THEN /\ contact' = FALSE /\ rows' = FALSE
            /\ req' = [j \in Ids |-> [req[j] EXCEPT !.linked = FALSE, !.key = @ /\ j \notin Linked,
                                                    !.status = IF j = i THEN "done" ELSE @]]
            /\ run' = [run EXCEPT ![p].at = "clean", ![p].stale = StaleExports]
            /\ orphans' = orphans \cup {j \in objects : ~req[j].key}
       ELSE /\ req' = Set(i, "status", "done") /\ End(p)
            /\ UNCHANGED <<contact, rows, orphans>>
    /\ UNCHANGED <<objects, asked, queue, up, upsert, faults, stray, unmarked>>

\* The earlier exports are removed one by one; an error is logged.
Clean(p) ==
    LET stale == run[p].stale IN
    /\ At(p, "clean")
    /\ IF stale = {} THEN End(p) /\ UNCHANGED <<objects, faults, orphans>>
       ELSE \E k \in stale :
              /\ run' = [run EXCEPT ![p].stale = stale \ {k}]
              /\ \/ objects' = objects \ {k} /\ UNCHANGED <<faults, orphans>>
                 \/ Fault /\ orphans' = orphans \cup {k} /\ UNCHANGED objects
    /\ UNCHANGED <<req, contact, rows, asked, queue, up, upsert, stray, unmarked>>

\* A call of the run fails: of the database, or of the storage.
Break(p) ==
    /\ Fault /\ \/ At(p, "claim") \/ At(p, "work") \/ At(p, "put") \/ At(p, "mark")
    /\ Go(p, "fail")
    /\ UNCHANGED <<req, contact, rows, objects, asked, queue, up, upsert, orphans, stray, unmarked>>

\* The catch of run: the request failed, unless that cannot be written either.
Fail(p) ==
    LET i == run[p].id IN
    /\ At(p, "fail") /\ End(p)
    /\ \/ req' = Set(i, "status", "failed") /\ UNCHANGED <<faults, unmarked>>
       \/ Fault /\ unmarked' = unmarked \cup {i} /\ UNCHANGED req
    /\ UNCHANGED <<contact, rows, objects, asked, queue, up, upsert, orphans, stray>>

-----------------------------------------------------------------------------
(* Processes and rows *)

Crash(p) ==
    /\ Fault /\ up[p] /\ up' = [up EXCEPT ![p] = FALSE] /\ End(p)
    /\ asked' = [asked EXCEPT ![p] = None] /\ queue' = [queue EXCEPT ![p] = <<>>]
    /\ orphans' = IF At(p, "clean") THEN orphans \cup run[p].stale ELSE orphans
    /\ UNCHANGED <<req, contact, rows, objects, upsert, stray, unmarked>>

\* Faulty variant of Found: what was running when the process died is left.
FoundPending(i) == req[i].status = "pending"

Found(i) == req[i].status \in {"pending", "running"}

\* onApplicationBootstrap: every open request, whoever has it.
Restart(p) ==
    /\ ~up[p] /\ up' = [up EXCEPT ![p] = TRUE]
    /\ queue' = [queue EXCEPT ![p] = SelectSeq([i \in Ids |-> i], Found)]
    /\ UNCHANGED <<req, contact, rows, objects, asked, run, upsert, faults, ghosts>>

\* upsertRows: the key is resolved, then the rows are written; nothing ties them to the contact.
ResolveRows ==
    /\ contact /\ ~upsert /\ upsert' = TRUE
    /\ UNCHANGED <<req, contact, rows, objects, work, faults, ghosts>>

WriteRows ==
    /\ upsert /\ upsert' = FALSE /\ rows' = TRUE /\ stray' = (stray \/ ~contact)
    /\ UNCHANGED <<req, contact, objects, work, faults, orphans, unmarked>>

Work(p) == Start(p) \/ Claim(p) \/ Read(p) \/ Put(p) \/ Mark(p) \/ Erase(p) \/ Clean(p) \/ Fail(p)

Next ==
    \/ \E p \in Procs : \/ \E kind \in {"export", "forget"} : Ask(p, kind)
                        \/ Create(p) \/ Work(p) \/ Break(p) \/ Crash(p) \/ Restart(p)
    \/ ResolveRows \/ WriteRows

Spec == Init /\ [][Next]_vars

\* The event loop of a process runs what it can, a process that died is started again.
Fairness == \A p \in Procs : WF_vars(Work(p)) /\ WF_vars(Restart(p))

FairSpec == Spec /\ Fairness

-----------------------------------------------------------------------------
(* Properties *)

\* After the erasure (forget, gdpr.service.ts:206) nothing of the contact is left but what
\* it could not reach: an export uploaded without its key being recorded before (another
\* process runs it, or marking it failed), one whose removal failed or was cut off, and rows
\* a write had resolved the contact for.
ErasureIsComplete ==
    ~contact => /\ rows => stray
                /\ \A i \in objects : i \in orphans \/ \E p \in Procs : At(p, "clean") /\ i \in run[p].stale

\* Every request is done or failed in the end, through crashes and failing calls, unless its
\* failure could not be written (gdpr.service.ts:152).
EveryRequestSettles == \A i \in 1..MaxReqs : (i \in Open) ~> (i \notin Open \/ i \in unmarked)
=============================================================================
