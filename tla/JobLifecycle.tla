---------------------------- MODULE JobLifecycle ----------------------------
(***************************************************************************)
(* What a client of the importer can rely on when it polls a job: the      *)
(* abstract life of a row of importer.jobs.  A job is submitted once, is   *)
(* started at most MaxAttempts times, may lose its worker while it runs,   *)
(* and ends exactly once; what ended never changes again.                  *)
(* JobQueue is shown to implement this specification.                      *)
(***************************************************************************)
EXTENDS Integers

CONSTANTS Jobs,         \* the jobs clients may submit
          MaxAttempts   \* starts per job before a lost worker fails it

VARIABLES status,    \* status[j]: the job's status, "absent" until it is submitted
          attempts   \* attempts[j]: how often the job was started

vars == <<status, attempts>>

Ended    == {"succeeded", "failed", "cancelled"}
Statuses == {"absent", "queued", "running"} \cup Ended

Init ==
    /\ status = [j \in Jobs |-> "absent"]
    /\ attempts = [j \in Jobs |-> 0]

Submit(j) ==
    /\ status[j] = "absent"
    /\ status' = [status EXCEPT ![j] = "queued"]
    /\ UNCHANGED attempts

Start(j) ==
    /\ status[j] = "queued"
    /\ attempts[j] < MaxAttempts
    /\ status' = [status EXCEPT ![j] = "running"]
    /\ attempts' = [attempts EXCEPT ![j] = @ + 1]

\* The workers of the jobs in lost are gone: each goes back to the queue while
\* it has starts left and fails otherwise.
LoseWorkers(lost) ==
    /\ \A j \in lost : status[j] = "running"
    /\ status' = [j \in Jobs |-> IF j \in lost
                                 THEN IF attempts[j] < MaxAttempts THEN "queued" ELSE "failed"
                                 ELSE status[j]]
    /\ UNCHANGED attempts

End(j, result) ==
    /\ status[j] = "running"
    /\ result \in {"succeeded", "failed"}
    /\ status' = [status EXCEPT ![j] = result]
    /\ UNCHANGED attempts

Cancel(j) ==
    /\ status[j] \in {"queued", "running"}
    /\ status' = [status EXCEPT ![j] = "cancelled"]
    /\ UNCHANGED attempts

Next ==
    \/ \E j \in Jobs : Submit(j) \/ Start(j) \/ Cancel(j)
    \/ \E j \in Jobs, result \in {"succeeded", "failed"} : End(j, result)
    \/ \E lost \in SUBSET Jobs : LoseWorkers(lost)

Spec == Init /\ [][Next]_vars
=============================================================================
