------------------------------ MODULE JobQueue ------------------------------
(***************************************************************************)
(* The Postgres-backed job queue of services/importer                      *)
(* (internal/jobs/store.go and internal/jobs/queue.go): rows of            *)
(* importer.jobs, the worker goroutines of several importer replicas, the  *)
(* janitor that recovers orphans, and clients that enqueue and cancel.     *)
(*                                                                         *)
(* A handler is abstracted to a loop over the rows 1..Rows of its job:     *)
(* each step applies one row and counts it in the Reporter.  Time is       *)
(* abstracted to one bit per job: fresh[j] says that heartbeat_at is at    *)
(* most Stale old.  A shutdown and a crash are one action: the code leaves *)
(* the row running in both.                                                *)
(***************************************************************************)
EXTENDS Integers

CONSTANTS Jobs,          \* job ids
          NoJob,         \* what an idle worker holds
          Handled,       \* the jobs whose kind has a registered handler
          Replicas,      \* importer processes
          Slots,         \* worker goroutines of one process (Options.Workers)
          Rows,          \* rows a handler has to process
          MaxAttempts,   \* Options.MaxAttempts
          MaxCrashes,    \* bound: process crashes in a behaviour
          MaxFaults,     \* bound: failed database calls in a behaviour
          LateHeartbeats,    \* may the heartbeat of a live worker come later than Stale?
          ClaimCommitFails   \* may the COMMIT of a claim fail and roll back?

ASSUME JobQueueAssumption ==
    /\ NoJob \notin Jobs
    /\ Handled \subseteq Jobs
    /\ Rows \in Nat
    /\ MaxAttempts \in Nat \ {0}
    /\ MaxCrashes \in Nat
    /\ MaxFaults \in Nat
    /\ LateHeartbeats \in BOOLEAN
    /\ ClaimCommitFails \in BOOLEAN

VARIABLES status,     \* the columns of importer.jobs: status,
          attempts,   \*   attempts,
          arrival,    \*   created_at, as the position in the order of arrival,
          fresh,      \*   heartbeat_at, as "not older than Stale",
          progress,   \*   progress, as the rows counted as processed
          clock,      \* the database clock, advanced by every insertion
          up,         \* up[r]: the replica runs
          pc,         \* where a worker goroutine is
          job,        \* the job it holds
          done,       \* rows its handler processed in this run
          tally,      \* its Reporter: rows counted, on top of the row's progress
          result,     \* what its handler returned
          crashes,    \* crashes so far
          faults,     \* failed database calls so far
          runs,       \* ghost: how often a handler was called for a job
          applied     \* ghost: rows of the job whose effect reached core

rowVars    == <<status, attempts, arrival, fresh, progress, clock>>
workerVars == <<pc, job, done, tally, result>>
ghostVars  == <<runs, applied>>
vars       == <<rowVars, up, workerVars, crashes, faults, ghostVars>>

Workers == Replicas \X Slots
Ended   == {"succeeded", "failed", "cancelled"}

-----------------------------------------------------------------------------
(* State functions *)

\* Faulty variant of Locked: the claim selects its row without FOR UPDATE.
LockedByNobody(j) == FALSE

\* A claim in flight holds the lock of the row it selected FOR UPDATE.
Locked(j) == \E w \in Workers : pc[w] = "claiming" /\ job[w] = j

Claimable(j) == status[j] = "queued" /\ ~Locked(j)

\* A live goroutine executes the job: its handler, or the finish after it.
Holds(w, j) == pc[w] \in {"handling", "finishing"} /\ job[w] = j

Orphans == {j \in Jobs : status[j] = "running" /\ ~fresh[j]}

Up(w) == up[w[1]]

-----------------------------------------------------------------------------

TypeOK ==
    /\ status \in [Jobs -> {"absent", "queued", "running"} \cup Ended]
    /\ attempts \in [Jobs -> 0..MaxAttempts]
    /\ arrival \in [Jobs -> Nat]
    /\ fresh \in [Jobs -> BOOLEAN]
    /\ progress \in [Jobs -> Nat]
    /\ clock \in Nat
    /\ up \in [Replicas -> BOOLEAN]
    /\ pc \in [Workers -> {"idle", "claiming", "handling", "finishing"}]
    /\ job \in [Workers -> Jobs \cup {NoJob}]
    /\ done \in [Workers -> 0..Rows]
    /\ tally \in [Workers -> Nat]
    /\ result \in [Workers -> {"succeeded", "failed"}]
    /\ crashes \in 0..MaxCrashes
    /\ faults \in 0..MaxFaults
    /\ runs \in [Jobs -> Nat]
    /\ applied \in [Jobs -> SUBSET (1..Rows)]

Init ==
    /\ status = [j \in Jobs |-> "absent"]
    /\ attempts = [j \in Jobs |-> 0]
    /\ arrival = [j \in Jobs |-> 0]
    /\ fresh = [j \in Jobs |-> FALSE]
    /\ progress = [j \in Jobs |-> 0]
    /\ clock = 1
    /\ up = [r \in Replicas |-> TRUE]
    /\ pc = [w \in Workers |-> "idle"]
    /\ job = [w \in Workers |-> NoJob]
    /\ done = [w \in Workers |-> 0]
    /\ tally = [w \in Workers |-> 0]
    /\ result = [w \in Workers |-> "failed"]
    /\ crashes = 0
    /\ faults = 0
    /\ runs = [j \in Jobs |-> 0]
    /\ applied = [j \in Jobs |-> {}]

-----------------------------------------------------------------------------
(* Clients *)

\* Store.Enqueue: the row is inserted with the column defaults.
Enqueue(j) ==
    /\ status[j] = "absent"
    /\ status' = [status EXCEPT ![j] = "queued"]
    /\ arrival' = [arrival EXCEPT ![j] = clock]
    /\ clock' = clock + 1
    /\ UNCHANGED <<attempts, fresh, progress, up, workerVars, crashes, faults, ghostVars>>

\* Store.Cancel: the UPDATE waits for a claim that holds the row.  On a job
\* that ended it changes nothing and answers ErrFinished.
Cancel(j) ==
    /\ status[j] \in {"queued", "running"}
    /\ ~Locked(j)
    /\ status' = [status EXCEPT ![j] = "cancelled"]
    /\ UNCHANGED <<attempts, arrival, fresh, progress, clock, up, workerVars, crashes, faults, ghostVars>>

-----------------------------------------------------------------------------
(* Store.claim and the start of Queue.run *)

\* The UPDATE of claim: the oldest queued row that is not locked (FOR UPDATE
\* SKIP LOCKED).  It is visible to the others when the claim commits.
Claim(w, j) ==
    /\ Up(w)
    /\ pc[w] = "idle"
    /\ Claimable(j)
    /\ \A k \in Jobs : Claimable(k) => arrival[j] <= arrival[k]
    /\ pc' = [pc EXCEPT ![w] = "claiming"]
    /\ job' = [job EXCEPT ![w] = j]
    /\ UNCHANGED <<rowVars, up, done, tally, result, crashes, faults, ghostVars>>

\* Queue.run on the job claim returned: its handler starts with a Reporter that
\* holds the row's progress; without a handler the job is finished as failed.
Run(w) ==
    /\ done' = [done EXCEPT ![w] = 0]
    /\ tally' = [tally EXCEPT ![w] = progress[job[w]]]
    /\ IF job[w] \in Handled
       THEN /\ pc' = [pc EXCEPT ![w] = "handling"]
            /\ runs' = [runs EXCEPT ![job[w]] = @ + 1]
            /\ UNCHANGED result
       ELSE /\ pc' = [pc EXCEPT ![w] = "finishing"]
            /\ result' = [result EXCEPT ![w] = "failed"]
            /\ UNCHANGED runs
    /\ UNCHANGED <<job, applied>>

\* The claim commits, and the worker runs the job.
ClaimCommits(w) ==
    /\ pc[w] = "claiming"
    /\ status' = [status EXCEPT ![job[w]] = "running"]
    /\ attempts' = [attempts EXCEPT ![job[w]] = @ + 1]
    /\ fresh' = [fresh EXCEPT ![job[w]] = TRUE]
    /\ Run(w)
    /\ UNCHANGED <<arrival, progress, clock, up, crashes, faults>>

\* The claim fails before its COMMIT: it rolls back and returns no job.
ClaimRollsBack(w) ==
    /\ pc[w] = "claiming"
    /\ faults < MaxFaults
    /\ faults' = faults + 1
    /\ pc' = [pc EXCEPT ![w] = "idle"]
    /\ job' = [job EXCEPT ![w] = NoJob]
    /\ UNCHANGED <<rowVars, up, done, tally, result, crashes, ghostVars>>

\* The COMMIT itself fails and the row stays queued, but claim has scanned the
\* job by then and returns it with the error; work logs the error and runs it.
ClaimCommitLost(w) ==
    /\ ClaimCommitFails
    /\ pc[w] = "claiming"
    /\ faults < MaxFaults
    /\ faults' = faults + 1
    /\ Run(w)
    /\ UNCHANGED <<rowVars, up, crashes>>

-----------------------------------------------------------------------------
(* The handler, the heartbeat goroutine and the end of Queue.run *)

\* The handler processes its next row and counts it in the Reporter.
ProcessRow(w) ==
    /\ pc[w] = "handling"
    /\ done[w] < Rows
    /\ done' = [done EXCEPT ![w] = @ + 1]
    /\ tally' = [tally EXCEPT ![w] = @ + 1]
    /\ applied' = [applied EXCEPT ![job[w]] = @ \cup {done[w] + 1}]
    /\ UNCHANGED <<rowVars, up, pc, job, result, crashes, faults, runs>>

HandlerReturns(w, res) ==
    /\ pc[w] = "handling"
    /\ pc' = [pc EXCEPT ![w] = "finishing"]
    /\ result' = [result EXCEPT ![w] = res]
    /\ UNCHANGED <<rowVars, up, job, done, tally, crashes, faults, ghostVars>>

\* Every row is processed, or the handler's status check found the job
\* cancelled: both return no error.
HandlerSucceeds(w) ==
    /\ pc[w] = "handling"
    /\ done[w] = Rows \/ status[job[w]] = "cancelled"
    /\ HandlerReturns(w, "succeeded")

HandlerFails(w) == HandlerReturns(w, "failed")

\* Store.saveProgress, from the ticker next to the handler.  It knows the job
\* by its id only, so it also writes for a run the janitor gave up on.
SaveProgress(w) ==
    /\ pc[w] = "handling"
    /\ status[job[w]] = "running"
    /\ progress' = [progress EXCEPT ![job[w]] = tally[w]]
    /\ fresh' = [fresh EXCEPT ![job[w]] = TRUE]
    /\ UNCHANGED <<status, attempts, arrival, clock, up, workerVars, crashes, faults, ghostVars>>

Release(w) ==
    /\ pc' = [pc EXCEPT ![w] = "idle"]
    /\ job' = [job EXCEPT ![w] = NoJob]
    /\ done' = [done EXCEPT ![w] = 0]
    /\ tally' = [tally EXCEPT ![w] = 0]
    /\ result' = [result EXCEPT ![w] = "failed"]

\* Faulty variant of Finish: the UPDATE without its condition on the status.
FinishAnyStatus(w) ==
    /\ pc[w] = "finishing"
    /\ status' = [status EXCEPT ![job[w]] = result[w]]
    /\ progress' = [progress EXCEPT ![job[w]] = tally[w]]
    /\ Release(w)
    /\ UNCHANGED <<attempts, arrival, fresh, clock, up, crashes, faults, ghostVars>>

\* Store.finish: it writes only a row that is still running.
Finish(w) ==
    /\ pc[w] = "finishing"
    /\ IF status[job[w]] = "running"
       THEN /\ status' = [status EXCEPT ![job[w]] = result[w]]
            /\ progress' = [progress EXCEPT ![job[w]] = tally[w]]
       ELSE UNCHANGED <<status, progress>>
    /\ Release(w)
    /\ UNCHANGED <<attempts, arrival, fresh, clock, up, crashes, faults, ghostVars>>

\* finish fails: the error is logged and the row stays as it is.
FinishLost(w) ==
    /\ pc[w] = "finishing"
    /\ faults < MaxFaults
    /\ faults' = faults + 1
    /\ Release(w)
    /\ UNCHANGED <<rowVars, up, crashes, ghostVars>>

-----------------------------------------------------------------------------
(* Time, orphans, crashes *)

\* heartbeat_at of a running job becomes older than Stale.
HeartbeatAges(j) ==
    /\ status[j] = "running"
    /\ fresh[j]
    /\ LateHeartbeats \/ \A w \in Workers : ~Holds(w, j)
    /\ fresh' = [fresh EXCEPT ![j] = FALSE]
    /\ UNCHANGED <<status, attempts, arrival, progress, clock, up, workerVars, crashes, faults, ghostVars>>

\* Faulty variant of RequeueOrphans: no end for a job that has used its starts.
RequeueWithoutFailing ==
    /\ status' = [j \in Jobs |-> IF j \in Orphans /\ attempts[j] < MaxAttempts THEN "queued"
                                 ELSE status[j]]
    /\ UNCHANGED <<attempts, arrival, fresh, progress, clock>>

\* Store.requeueOrphans: one UPDATE over every orphan.
RequeueOrphans ==
    /\ status' = [j \in Jobs |-> IF j \in Orphans
                                 THEN IF attempts[j] >= MaxAttempts THEN "failed" ELSE "queued"
                                 ELSE status[j]]
    /\ UNCHANGED <<attempts, arrival, fresh, progress, clock>>

\* The janitor's ticker.
Janitor(r) ==
    /\ up[r]
    /\ Orphans # {}
    /\ RequeueOrphans
    /\ UNCHANGED <<up, workerVars, crashes, faults, ghostVars>>

\* The process dies or is shut down: a claim in flight rolls back, and the rows
\* its workers were running stay running.
Crash(r) ==
    /\ up[r]
    /\ crashes < MaxCrashes
    /\ crashes' = crashes + 1
    /\ up' = [up EXCEPT ![r] = FALSE]
    /\ pc' = [w \in Workers |-> IF w[1] = r THEN "idle" ELSE pc[w]]
    /\ job' = [w \in Workers |-> IF w[1] = r THEN NoJob ELSE job[w]]
    /\ done' = [w \in Workers |-> IF w[1] = r THEN 0 ELSE done[w]]
    /\ tally' = [w \in Workers |-> IF w[1] = r THEN 0 ELSE tally[w]]
    /\ result' = [w \in Workers |-> IF w[1] = r THEN "failed" ELSE result[w]]
    /\ UNCHANGED <<rowVars, faults, ghostVars>>

\* Queue.Run: orphans are recovered before the workers start.  A recovery that
\* fails is logged and left to the janitor.
Restart(r) ==
    /\ ~up[r]
    /\ up' = [up EXCEPT ![r] = TRUE]
    /\ \/ /\ RequeueOrphans
          /\ UNCHANGED faults
       \/ /\ faults < MaxFaults
          /\ faults' = faults + 1
          /\ UNCHANGED rowVars
    /\ UNCHANGED <<workerVars, crashes, ghostVars>>

-----------------------------------------------------------------------------

\* The steps of a worker goroutine.
Work(w) ==
    \/ \E j \in Jobs : Claim(w, j)
    \/ ClaimCommits(w)
    \/ ClaimRollsBack(w)
    \/ ClaimCommitLost(w)
    \/ ProcessRow(w)
    \/ HandlerSucceeds(w)
    \/ HandlerFails(w)
    \/ SaveProgress(w)
    \/ Finish(w)
    \/ FinishLost(w)

Next ==
    \/ \E j \in Jobs : Enqueue(j) \/ Cancel(j) \/ HeartbeatAges(j)
    \/ \E w \in Workers : Work(w)
    \/ \E r \in Replicas : Janitor(r) \/ Crash(r) \/ Restart(r)

Spec == Init /\ [][Next]_vars

\* The scheduler keeps running a goroutine that can move, handlers get through
\* their rows, heartbeats no one refreshes grow old, the janitor's ticker fires,
\* and the orchestrator restarts a process that died.
Fairness ==
    /\ \A w \in Workers :
          /\ WF_vars(\E j \in Jobs : Claim(w, j))
          /\ WF_vars(ClaimCommits(w))
          /\ WF_vars(ProcessRow(w))
          /\ WF_vars(HandlerSucceeds(w))
          /\ WF_vars(Finish(w))
    /\ \A j \in Jobs : WF_vars(HeartbeatAges(j) /\ \A w \in Workers : ~Holds(w, j))
    /\ \A r \in Replicas : WF_vars(Janitor(r)) /\ WF_vars(Restart(r))

FairSpec == Spec /\ Fairness

-----------------------------------------------------------------------------
(* Properties *)

\* The row a claim has locked is still queued, and no other claim has it: the
\* SKIP LOCKED of claim (store.go:179) and the row lock Cancel waits for.
ClaimsAreExclusive ==
    \A w \in Workers : pc[w] = "claiming" =>
        /\ status[job[w]] = "queued"
        /\ \A v \in Workers : pc[v] = "claiming" /\ job[v] = job[w] => v = w

\* A job in the queue has a start left, and a running one has used at least one:
\* claim's increment against requeueOrphans' limit (store.go:177 and 241).
AttemptsAreBounded ==
    \A j \in Jobs :
        /\ status[j] = "absent" => attempts[j] = 0
        /\ status[j] = "queued" => attempts[j] < MaxAttempts
        /\ status[j] = "running" => attempts[j] \in 1..MaxAttempts

\* A job is reported as succeeded only when every row reached core and was
\* counted, whichever run, live or given up on, wrote the row, and although a
\* handler that noticed a cancellation also returns without an error.
SucceededIsComplete ==
    \A j \in Jobs : status[j] = "succeeded" =>
        /\ applied[j] = 1..Rows
        /\ progress[j] >= Rows

\* No handler is called for a job that has ended ("a cancelled job stays
\* cancelled", store.go:204), be it from a claim in flight or from an orphan
\* put back in the queue.
EndedNeverRuns == [][\A j \in Jobs : status[j] \in Ended => runs'[j] = runs[j]]_vars

\* With heartbeats on time and claims that commit, at most one goroutine of all
\* replicas executes a job, and it does so while the row says running or has
\* just been cancelled.
OneRunPerJob ==
    \A w \in Workers, j \in Jobs : Holds(w, j) =>
        /\ status[j] \in {"running", "cancelled"}
        /\ \A v \in Workers : Holds(v, j) => v = w

\* A job that was submitted ends, through crashes and failed database calls.
EveryJobEnds == \A j \in Jobs : status[j] = "queued" ~> status[j] \in Ended

\* The rows of importer.jobs follow the life clients rely on.
Lifecycle == INSTANCE JobLifecycle
ImplementsLifecycle == Lifecycle!Spec
=============================================================================
