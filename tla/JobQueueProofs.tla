--------------------------- MODULE JobQueueProofs ---------------------------
(***************************************************************************)
(* Theorems about JobQueue, for every set of jobs, replicas and worker     *)
(* goroutines and every bound on crashes and faults.                       *)
(***************************************************************************)
EXTENDS JobQueue, TLAPS

(* A worker holds a job exactly while it is not idle.  Part of the type      *)
(* correctness argument: the columns a worker writes are those of a job.     *)
HoldsAJob == \A w \in Workers : pc[w] # "idle" => job[w] \in Jobs

TypeInv ==
    /\ TypeOK
    /\ HoldsAJob
    /\ AttemptsAreBounded
    /\ ClaimsAreExclusive

-----------------------------------------------------------------------------

LEMMA InitTypeInv == Init => TypeInv
BY JobQueueAssumption
   DEF Init, TypeInv, TypeOK, HoldsAJob, AttemptsAreBounded, ClaimsAreExclusive, Ended

(* The steps that leave the rows alone, or change them for one job. *)
LEMMA ClientTypeInv ==
    ASSUME TypeInv, NEW j \in Jobs, Enqueue(j) \/ Cancel(j) \/ HeartbeatAges(j)
    PROVE  TypeInv'
<1> USE JobQueueAssumption
        DEF TypeInv, TypeOK, HoldsAJob, AttemptsAreBounded, ClaimsAreExclusive, Ended,
            workerVars, ghostVars
<1>1. CASE Enqueue(j)
  <2>1. TypeOK' /\ HoldsAJob' /\ AttemptsAreBounded'
    BY <1>1 DEF Enqueue
  <2>2. \A w \in Workers : pc[w] = "claiming" => job[w] # j
    BY <1>1 DEF Enqueue
  <2>3. ClaimsAreExclusive'
    BY <1>1, <2>2 DEF Enqueue
  <2> QED BY <2>1, <2>3
<1>2. CASE Cancel(j)
  BY <1>2 DEF Cancel, Locked
<1>3. CASE HeartbeatAges(j)
  BY <1>3 DEF HeartbeatAges
<1> QED BY <1>1, <1>2, <1>3

(* What Queue.run does to the worker's own state. *)
LEMMA RunTypes ==
    ASSUME TypeInv, NEW w \in Workers, pc[w] = "claiming", Run(w)
    PROVE  /\ pc' \in [Workers -> {"idle", "claiming", "handling", "finishing"}]
           /\ job' = job
           /\ done' \in [Workers -> 0..Rows]
           /\ tally' \in [Workers -> Nat]
           /\ result' \in [Workers -> {"succeeded", "failed"}]
           /\ runs' \in [Jobs -> Nat]
           /\ applied' = applied
           /\ pc'[w] \in {"handling", "finishing"}
           /\ \A v \in Workers : v # w => pc'[v] = pc[v]
<1> USE JobQueueAssumption DEF TypeInv, TypeOK, HoldsAJob
<1>1. job[w] \in Jobs
  OBVIOUS
<1>2. CASE job[w] \in Handled
  <2>1. /\ done' = [done EXCEPT ![w] = 0]
        /\ tally' = [tally EXCEPT ![w] = progress[job[w]]]
        /\ pc' = [pc EXCEPT ![w] = "handling"]
        /\ runs' = [runs EXCEPT ![job[w]] = @ + 1]
        /\ UNCHANGED <<result, job, applied>>
    BY <1>2 DEF Run
  <2>2. done' \in [Workers -> 0..Rows] /\ tally' \in [Workers -> Nat]
    BY <1>1, <2>1
  <2>3. runs' \in [Jobs -> Nat]
    BY <1>1, <2>1
  <2> QED BY <2>1, <2>2, <2>3
<1>3. CASE job[w] \notin Handled
  BY <1>1, <1>3 DEF Run
<1> QED BY <1>2, <1>3

LEMMA ClaimTypeInv ==
    ASSUME TypeInv, NEW w \in Workers,
           \/ \E j \in Jobs : Claim(w, j)
           \/ ClaimCommits(w)
           \/ ClaimRollsBack(w)
           \/ ClaimCommitLost(w)
    PROVE  TypeInv'
<1> USE JobQueueAssumption
        DEF TypeInv, TypeOK, HoldsAJob, AttemptsAreBounded, ClaimsAreExclusive, Ended,
            rowVars, workerVars, ghostVars
<1>1. ASSUME NEW j \in Jobs, Claim(w, j) PROVE TypeInv'
  BY <1>1 DEF Claim, Claimable, Locked
<1>2. CASE ClaimCommits(w)
  <2>1. /\ job[w] \in Jobs
        /\ status[job[w]] = "queued"
        /\ attempts[job[w]] + 1 \in 1..MaxAttempts
    BY <1>2 DEF ClaimCommits
  <2>2. Run(w) /\ pc[w] = "claiming"
    BY <1>2 DEF ClaimCommits
  <2>3. TypeOK' /\ HoldsAJob'
    BY <1>2, <2>1, <2>2, RunTypes DEF ClaimCommits
  <2>4. AttemptsAreBounded'
    BY <1>2, <2>1 DEF ClaimCommits
  <2>5. ClaimsAreExclusive'
    BY <1>2, <2>1, <2>2, RunTypes DEF ClaimCommits
  <2> QED BY <2>3, <2>4, <2>5
<1>3. CASE ClaimRollsBack(w)
  BY <1>3 DEF ClaimRollsBack
<1>4. CASE ClaimCommitLost(w)
  <2>1. Run(w) /\ pc[w] = "claiming"
    BY <1>4 DEF ClaimCommitLost
  <2> QED BY <1>4, <2>1, RunTypes DEF ClaimCommitLost
<1> QED BY <1>1, <1>2, <1>3, <1>4

LEMMA HandlerTypeInv ==
    ASSUME TypeInv, NEW w \in Workers,
           \/ ProcessRow(w)
           \/ HandlerSucceeds(w)
           \/ HandlerFails(w)
           \/ SaveProgress(w)
           \/ Finish(w)
           \/ FinishLost(w)
    PROVE  TypeInv'
<1> USE JobQueueAssumption
        DEF TypeInv, TypeOK, HoldsAJob, AttemptsAreBounded, ClaimsAreExclusive, Ended,
            rowVars, workerVars, ghostVars
<1>1. CASE ProcessRow(w)
  BY <1>1 DEF ProcessRow
<1>2. CASE HandlerSucceeds(w) \/ HandlerFails(w)
  BY <1>2 DEF HandlerSucceeds, HandlerFails, HandlerReturns
<1>3. CASE SaveProgress(w)
  BY <1>3 DEF SaveProgress
<1>4. CASE Finish(w)
  <2>1. job[w] \in Jobs
    BY <1>4 DEF Finish
  <2>2. CASE status[job[w]] = "running"
    <3>1. TypeOK'
      <4>1. status' \in [Jobs -> {"absent", "queued", "running"} \cup Ended]
        BY <1>4, <2>1, <2>2 DEF Finish
      <4>2. progress' \in [Jobs -> Nat]
        BY <1>4, <2>1, <2>2 DEF Finish
      <4>3. /\ pc' \in [Workers -> {"idle", "claiming", "handling", "finishing"}]
            /\ job' \in [Workers -> Jobs \cup {NoJob}]
            /\ done' \in [Workers -> 0..Rows]
            /\ tally' \in [Workers -> Nat]
            /\ result' \in [Workers -> {"succeeded", "failed"}]
        BY <1>4 DEF Finish, Release
      <4> QED BY <1>4, <4>1, <4>2, <4>3 DEF Finish
    <3>2. HoldsAJob' /\ AttemptsAreBounded'
      BY <1>4, <2>1, <2>2 DEF Finish, Release
    <3>3. \A v \in Workers : pc[v] = "claiming" => job[v] # job[w]
      BY <2>2
    <3>4. ClaimsAreExclusive'
      BY <1>4, <2>1, <2>2, <3>3 DEF Finish, Release
    <3> QED BY <3>1, <3>2, <3>4
  <2>3. CASE status[job[w]] # "running"
    BY <1>4, <2>1, <2>3 DEF Finish, Release
  <2> QED BY <2>2, <2>3
<1>5. CASE FinishLost(w)
  BY <1>5 DEF FinishLost, Release
<1> QED BY <1>1, <1>2, <1>3, <1>4, <1>5

LEMMA ReplicaTypeInv ==
    ASSUME TypeInv, NEW r \in Replicas, Janitor(r) \/ Crash(r) \/ Restart(r)
    PROVE  TypeInv'
<1> USE JobQueueAssumption
        DEF TypeInv, TypeOK, HoldsAJob, AttemptsAreBounded, ClaimsAreExclusive, Ended,
            rowVars, workerVars, ghostVars
<1>1. CASE Janitor(r)
  BY <1>1 DEF Janitor, RequeueOrphans, Orphans
<1>2. CASE Crash(r)
  BY <1>2 DEF Crash, Workers
<1>3. CASE Restart(r)
  BY <1>3 DEF Restart, RequeueOrphans, Orphans
<1> QED BY <1>1, <1>2, <1>3

LEMMA NextTypeInv == TypeInv /\ [Next]_vars => TypeInv'
<1> SUFFICES ASSUME TypeInv, [Next]_vars PROVE TypeInv'
  OBVIOUS
<1>1. CASE UNCHANGED vars
  BY <1>1 DEF TypeInv, TypeOK, HoldsAJob, AttemptsAreBounded, ClaimsAreExclusive,
              vars, rowVars, workerVars, ghostVars
<1>2. CASE Next
  BY <1>2, ClientTypeInv, ClaimTypeInv, HandlerTypeInv, ReplicaTypeInv DEF Next, Work
<1> QED BY <1>1, <1>2

(* Every reachable state is well typed; the type invariant holds the attempts  *)
(* between 0 and MaxAttempts, for which claims and recoveries must agree.      *)
THEOREM TypeCorrect == Spec => []TypeOK
<1>1. Spec => []TypeInv
  BY InitTypeInv, NextTypeInv, PTL DEF Spec
<1>2. TypeInv => TypeOK
  BY DEF TypeInv
<1> QED BY <1>1, <1>2, PTL

(* ClaimsAreExclusive and AttemptsAreBounded are conjuncts of the same         *)
(* induction: the lock of a claim is what keeps the row it read queued.        *)
THEOREM ClaimsExclusive == Spec => []ClaimsAreExclusive
<1>1. Spec => []TypeInv
  BY InitTypeInv, NextTypeInv, PTL DEF Spec
<1>2. TypeInv => ClaimsAreExclusive
  BY DEF TypeInv
<1> QED BY <1>1, <1>2, PTL

(* No job uses more than MaxAttempts starts, and one in the queue has one      *)
(* left, whatever claims, orphan recoveries and cancellations interleave.      *)
THEOREM AttemptsBounded == Spec => []AttemptsAreBounded
<1>1. Spec => []TypeInv
  BY InitTypeInv, NextTypeInv, PTL DEF Spec
<1>2. TypeInv => AttemptsAreBounded
  BY DEF TypeInv
<1> QED BY <1>1, <1>2, PTL

-----------------------------------------------------------------------------
(* SucceededIsComplete.  A worker may write "succeeded" long after its job was *)
(* given to another, so the argument is about every worker: the rows of its    *)
(* run are applied and counted, and a successful result with rows missing      *)
(* means the job was cancelled, which is final and makes finish write nothing. *)

RunsAreCounted ==
    \A w \in Workers : pc[w] \in {"handling", "finishing"} =>
        /\ 1..done[w] \subseteq applied[job[w]]
        /\ tally[w] >= done[w]

ResultsAreHonest ==
    \A w \in Workers : pc[w] = "finishing" /\ result[w] = "succeeded" =>
        done[w] = Rows \/ status[job[w]] = "cancelled"

CompleteInv == RunsAreCounted /\ ResultsAreHonest /\ SucceededIsComplete

LEMMA InitComplete == Init => CompleteInv
BY DEF Init, CompleteInv, RunsAreCounted, ResultsAreHonest, SucceededIsComplete

(* Steps that touch neither a run nor a row's end: they keep CompleteInv.      *)
LEMMA QuietSteps ==
    ASSUME TypeInv, CompleteInv,
           applied' = applied, progress' = progress, job' = job,
           done' = done, tally' = tally, result' = result, pc' = pc,
           \A j \in Jobs : status'[j] = "succeeded" => status[j] = "succeeded",
           \A j \in Jobs : status[j] = "cancelled" => status'[j] = "cancelled"
    PROVE  CompleteInv'
BY DEF TypeInv, TypeOK, HoldsAJob, CompleteInv, RunsAreCounted, ResultsAreHonest,
       SucceededIsComplete

LEMMA NextComplete == TypeInv /\ CompleteInv /\ [Next]_vars => CompleteInv'
<1> SUFFICES ASSUME TypeInv, CompleteInv, [Next]_vars PROVE CompleteInv'
  OBVIOUS
<1>1. CASE UNCHANGED vars
  BY <1>1 DEF CompleteInv, RunsAreCounted, ResultsAreHonest, SucceededIsComplete,
              vars, rowVars, workerVars, ghostVars
<1>2. ASSUME NEW j \in Jobs, Enqueue(j) \/ Cancel(j) \/ HeartbeatAges(j)
      PROVE  CompleteInv'
  BY <1>2, QuietSteps
     DEF Enqueue, Cancel, HeartbeatAges, TypeInv, TypeOK, workerVars, ghostVars
<1>3. ASSUME NEW r \in Replicas, Janitor(r) \/ Restart(r) PROVE CompleteInv'
  BY <1>3, QuietSteps
     DEF Janitor, Restart, RequeueOrphans, Orphans, TypeInv, TypeOK, rowVars, workerVars, ghostVars
<1>4. ASSUME NEW r \in Replicas, Crash(r) PROVE CompleteInv'
  BY <1>4 DEF Crash, CompleteInv, RunsAreCounted, ResultsAreHonest, SucceededIsComplete,
              TypeInv, TypeOK, rowVars, ghostVars
<1>5. ASSUME NEW w \in Workers, NEW j \in Jobs, Claim(w, j) PROVE CompleteInv'
  BY <1>5 DEF Claim, CompleteInv, RunsAreCounted, ResultsAreHonest, SucceededIsComplete,
              TypeInv, TypeOK, rowVars, ghostVars
<1>6. ASSUME NEW w \in Workers, ClaimCommits(w) PROVE CompleteInv'
  <2>1. job[w] \in Jobs /\ status[job[w]] = "queued"
    BY <1>6 DEF ClaimCommits, TypeInv, HoldsAJob, ClaimsAreExclusive
  <2>2. Run(w) /\ pc[w] = "claiming"
    BY <1>6 DEF ClaimCommits
  <2>3. RunsAreCounted'
    BY <1>6, <2>1, <2>2, RunTypes
       DEF ClaimCommits, Run, CompleteInv, RunsAreCounted, TypeInv, TypeOK
  <2>4. ResultsAreHonest'
    BY <1>6, <2>1, <2>2, RunTypes
       DEF ClaimCommits, Run, CompleteInv, ResultsAreHonest, TypeInv, TypeOK, HoldsAJob
  <2>5. SucceededIsComplete'
    BY <1>6, <2>1, <2>2, RunTypes DEF ClaimCommits, CompleteInv, SucceededIsComplete, TypeInv, TypeOK
  <2> QED BY <2>3, <2>4, <2>5 DEF CompleteInv
<1>7. ASSUME NEW w \in Workers, ClaimRollsBack(w) PROVE CompleteInv'
  BY <1>7 DEF ClaimRollsBack, CompleteInv, RunsAreCounted, ResultsAreHonest, SucceededIsComplete,
              TypeInv, TypeOK, rowVars, ghostVars
<1>8. ASSUME NEW w \in Workers, ClaimCommitLost(w) PROVE CompleteInv'
  <2>1. Run(w) /\ pc[w] = "claiming" /\ job[w] \in Jobs
    BY <1>8 DEF ClaimCommitLost, TypeInv, HoldsAJob
  <2>2. RunsAreCounted'
    BY <1>8, <2>1, RunTypes
       DEF ClaimCommitLost, Run, CompleteInv, RunsAreCounted, TypeInv, TypeOK, rowVars
  <2>3. ResultsAreHonest'
    BY <1>8, <2>1, RunTypes
       DEF ClaimCommitLost, Run, CompleteInv, ResultsAreHonest, TypeInv, TypeOK, rowVars
  <2>4. SucceededIsComplete'
    BY <1>8, <2>1, RunTypes DEF ClaimCommitLost, CompleteInv, SucceededIsComplete, rowVars
  <2> QED BY <2>2, <2>3, <2>4 DEF CompleteInv
<1>9. ASSUME NEW w \in Workers, ProcessRow(w) PROVE CompleteInv'
  <2>1. job[w] \in Jobs /\ pc[w] = "handling" /\ done[w] \in Nat /\ done[w] < Rows
    BY <1>9, JobQueueAssumption DEF ProcessRow, TypeInv, TypeOK, HoldsAJob
  <2>2. /\ done'[w] = done[w] + 1 /\ tally'[w] = tally[w] + 1
        /\ applied'[job[w]] = applied[job[w]] \cup {done[w] + 1}
        /\ \A j \in Jobs : applied[j] \subseteq applied'[j]
        /\ \A v \in Workers : v # w => done'[v] = done[v] /\ tally'[v] = tally[v]
    BY <1>9, <2>1 DEF ProcessRow, TypeInv, TypeOK
  <2>3. 1..(done[w] + 1) \subseteq applied'[job[w]]
    BY <2>1, <2>2 DEF CompleteInv, RunsAreCounted
  <2>4. RunsAreCounted'
    <3> SUFFICES ASSUME NEW v \in Workers, pc[v] \in {"handling", "finishing"}
                 PROVE  /\ 1..done'[v] \subseteq applied'[job[v]]
                        /\ tally'[v] >= done'[v]
      BY <1>9 DEF ProcessRow, RunsAreCounted
    <3>1. CASE v = w
      BY <3>1, <2>1, <2>2, <2>3, JobQueueAssumption DEF CompleteInv, RunsAreCounted, TypeInv, TypeOK
    <3>2. CASE v # w
      BY <3>2, <2>2 DEF CompleteInv, RunsAreCounted, TypeInv, HoldsAJob
    <3> QED BY <3>1, <3>2
  <2>5. ResultsAreHonest'
    BY <1>9, <2>1, <2>2 DEF ProcessRow, CompleteInv, ResultsAreHonest, rowVars
  <2>6. SucceededIsComplete'
    <3>1. \A j \in Jobs : applied[j] \subseteq applied'[j] /\ applied'[j] \subseteq 1..Rows
      BY <1>9, <2>2, HandlerTypeInv DEF TypeInv, TypeOK
    <3> QED BY <1>9, <3>1 DEF ProcessRow, CompleteInv, SucceededIsComplete, rowVars
  <2> QED BY <2>4, <2>5, <2>6 DEF CompleteInv
<1>10. ASSUME NEW w \in Workers, HandlerSucceeds(w) \/ HandlerFails(w) PROVE CompleteInv'
  BY <1>10 DEF HandlerSucceeds, HandlerFails, HandlerReturns, CompleteInv, RunsAreCounted,
               ResultsAreHonest, SucceededIsComplete, TypeInv, TypeOK, rowVars, ghostVars
<1>11. ASSUME NEW w \in Workers, SaveProgress(w) PROVE CompleteInv'
  BY <1>11 DEF SaveProgress, CompleteInv, RunsAreCounted, ResultsAreHonest, SucceededIsComplete,
               TypeInv, TypeOK, HoldsAJob, workerVars, ghostVars
<1>12. ASSUME NEW w \in Workers, Finish(w) PROVE CompleteInv'
  <2>1. job[w] \in Jobs /\ pc[w] = "finishing"
    BY <1>12 DEF Finish, TypeInv, HoldsAJob
  <2>2. RunsAreCounted'
    <3>1. Release(w) /\ applied' = applied
      BY <1>12 DEF Finish, ghostVars
    <3> QED BY <3>1 DEF Release, CompleteInv, RunsAreCounted, TypeInv, TypeOK
  <2>3. CASE status[job[w]] = "running"
    <3>1. result[w] = "succeeded" => done[w] = Rows
      BY <2>1, <2>3 DEF CompleteInv, ResultsAreHonest
    <3>2. result[w] = "succeeded" => applied[job[w]] = 1..Rows /\ tally[w] >= Rows
      BY <2>1, <3>1 DEF CompleteInv, RunsAreCounted, TypeInv, TypeOK
    <3>3. SucceededIsComplete'
      BY <1>12, <2>1, <2>3, <3>2 DEF Finish, CompleteInv, SucceededIsComplete, TypeInv, TypeOK, ghostVars
    <3>4. ResultsAreHonest'
      BY <1>12, <2>1, <2>3 DEF Finish, Release, CompleteInv, ResultsAreHonest, TypeInv, TypeOK, HoldsAJob
    <3> QED BY <2>2, <3>3, <3>4 DEF CompleteInv
  <2>4. CASE status[job[w]] # "running"
    BY <1>12, <2>1, <2>2, <2>4
       DEF Finish, Release, CompleteInv, ResultsAreHonest, SucceededIsComplete, TypeInv, TypeOK, ghostVars
  <2> QED BY <2>3, <2>4
<1>13. ASSUME NEW w \in Workers, FinishLost(w) PROVE CompleteInv'
  BY <1>13 DEF FinishLost, Release, CompleteInv, RunsAreCounted, ResultsAreHonest,
               SucceededIsComplete, TypeInv, TypeOK, rowVars, ghostVars
<1> QED BY <1>1, <1>2, <1>3, <1>4, <1>5, <1>6, <1>7, <1>8, <1>9, <1>10, <1>11, <1>12, <1>13
           DEF Next, Work

(* A job is reported as succeeded only when all its rows reached core and were *)
(* counted: also with late heartbeats, runs that were given up on, cancelled   *)
(* jobs and failed commits.                                                    *)
THEOREM SuccessIsComplete == Spec => []SucceededIsComplete
<1>1. Init => TypeInv /\ CompleteInv
  BY InitTypeInv, InitComplete
<1>2. TypeInv /\ CompleteInv /\ [Next]_vars => (TypeInv /\ CompleteInv)'
  BY NextTypeInv, NextComplete
<1>3. TypeInv /\ CompleteInv => SucceededIsComplete
  BY DEF CompleteInv
<1> QED BY <1>1, <1>2, <1>3, PTL DEF Spec

-----------------------------------------------------------------------------

(* A handler is only ever called for a job in the queue, so none is called for *)
(* a job that ended: the row stays locked from the claim to the call.          *)
THEOREM EndedStaysEnded == Spec => EndedNeverRuns
<1> DEFINE NoRun == \A j \in Jobs : status[j] \in Ended => runs'[j] = runs[j]
<1>1. TypeInv /\ [Next]_vars => [NoRun]_vars
  <2> SUFFICES ASSUME TypeInv, Next PROVE NoRun
    BY DEF vars
  <2>1. ASSUME NEW w \in Workers, ClaimCommits(w) \/ ClaimCommitLost(w) PROVE NoRun
    <3>1. job[w] \in Jobs /\ status[job[w]] = "queued" /\ Run(w)
      BY <2>1 DEF ClaimCommits, ClaimCommitLost, TypeInv, HoldsAJob, ClaimsAreExclusive
    <3>2. CASE job[w] \in Handled
      BY <3>1, <3>2 DEF Run, Ended, TypeInv, TypeOK
    <3>3. CASE job[w] \notin Handled
      BY <3>1, <3>3 DEF Run
    <3> QED BY <3>2, <3>3
  <2>2. CASE runs' = runs
    BY <2>2
  <2> QED BY <2>1, <2>2
          DEF Next, Work, Enqueue, Cancel, HeartbeatAges, Claim, ClaimRollsBack, ProcessRow,
              HandlerSucceeds, HandlerFails, HandlerReturns, SaveProgress, Finish, FinishLost,
              Janitor, Crash, Restart, ghostVars
<1>2. Spec => []TypeInv
  BY InitTypeInv, NextTypeInv, PTL DEF Spec
<1> QED BY <1>1, <1>2, PTL DEF Spec, EndedNeverRuns

-----------------------------------------------------------------------------
(* Refinement *)

LEMMA InitRefines == Init => Lifecycle!Init
BY DEF Init, Lifecycle!Init

(* Every step is one of the abstract steps or leaves the row as it was.        *)
LEMMA StepRefines == TypeInv /\ [Next]_vars => [Lifecycle!Next]_(Lifecycle!vars)
<1> SUFFICES ASSUME TypeInv, [Next]_vars
             PROVE  Lifecycle!Next \/ UNCHANGED <<status, attempts>>
  BY DEF Lifecycle!vars
<1> USE DEF Lifecycle!Next
<1>1. ASSUME NEW j \in Jobs, Enqueue(j) PROVE Lifecycle!Submit(j)
  BY <1>1 DEF Enqueue, Lifecycle!Submit
<1>2. ASSUME NEW j \in Jobs, Cancel(j) PROVE Lifecycle!Cancel(j)
  BY <1>2 DEF Cancel, Lifecycle!Cancel
<1>3. ASSUME NEW w \in Workers, ClaimCommits(w) PROVE Lifecycle!Start(job[w]) /\ job[w] \in Jobs
  BY <1>3 DEF ClaimCommits, Lifecycle!Start, TypeInv, HoldsAJob, ClaimsAreExclusive,
              AttemptsAreBounded
<1>4. ASSUME NEW w \in Workers, Finish(w)
      PROVE  \/ Lifecycle!End(job[w], result[w]) /\ job[w] \in Jobs
             \/ UNCHANGED <<status, attempts>>
  BY <1>4 DEF Finish, Lifecycle!End, TypeInv, TypeOK, HoldsAJob
<1>5. ASSUME RequeueOrphans PROVE Lifecycle!LoseWorkers(Orphans)
  <2>1. \A j \in Orphans : status[j] = "running"
    BY DEF Orphans
  <2>2. \A j \in Jobs : attempts[j] >= MaxAttempts <=> ~(attempts[j] < MaxAttempts)
    BY JobQueueAssumption DEF TypeInv, TypeOK
  <2> QED BY <1>5, <2>1, <2>2 DEF RequeueOrphans, Lifecycle!LoseWorkers, Orphans
<1>6. ASSUME NEW r \in Replicas, Janitor(r) \/ Restart(r)
      PROVE  Lifecycle!LoseWorkers(Orphans) \/ UNCHANGED <<status, attempts>>
  BY <1>5, <1>6 DEF Janitor, Restart, rowVars
<1>7. Orphans \in SUBSET Jobs
  BY DEF Orphans
<1>8. \A w \in Workers : result[w] \in {"succeeded", "failed"}
  BY DEF TypeInv, TypeOK
<1>9. CASE Next
  <2>1. CASE \E j \in Jobs : Enqueue(j) \/ Cancel(j)
    BY <2>1, <1>1, <1>2
  <2>2. CASE \E w \in Workers : ClaimCommits(w) \/ Finish(w)
    BY <2>2, <1>3, <1>4, <1>8
  <2>3. CASE \E r \in Replicas : Janitor(r) \/ Restart(r)
    BY <2>3, <1>6, <1>7
  <2>4. CASE UNCHANGED <<status, attempts>>
    BY <2>4
  <2> QED BY <1>9, <2>1, <2>2, <2>3, <2>4
          DEF Next, Work, HeartbeatAges, Claim, ClaimRollsBack, ClaimCommitLost, ProcessRow,
              HandlerSucceeds, HandlerFails, HandlerReturns, SaveProgress, FinishLost, Crash,
              rowVars
<1>10. CASE UNCHANGED vars
  BY <1>10 DEF vars, rowVars
<1> QED BY <1>9, <1>10

(* The queue implements the life of a job that clients rely on: what ended     *)
(* stays as it ended, although finish and saveProgress know a job only by id.  *)
THEOREM Refinement == Spec => ImplementsLifecycle
<1>1. Spec => []TypeInv
  BY InitTypeInv, NextTypeInv, PTL DEF Spec
<1> QED BY <1>1, InitRefines, StepRefines, PTL DEF Spec, ImplementsLifecycle, Lifecycle!Spec

-----------------------------------------------------------------------------
(* OneRunPerJob.  A job a goroutine executes has a fresh heartbeat, so no      *)
(* recovery puts it back in the queue, and a claim takes only what is queued.  *)

HeldIsFresh ==
    \A w \in Workers, j \in Jobs : Holds(w, j) /\ status[j] = "running" => fresh[j]

OneRunInv == OneRunPerJob /\ HeldIsFresh

LEMMA NextOneRun ==
    ASSUME ~LateHeartbeats, ~ClaimCommitFails, TypeInv, OneRunInv, [Next]_vars
    PROVE  OneRunInv'
<1> USE DEF OneRunInv, OneRunPerJob, HeldIsFresh, Holds
<1>1. CASE UNCHANGED vars
  BY <1>1 DEF vars, rowVars, workerVars
<1>2. ASSUME NEW j \in Jobs, Enqueue(j) \/ Cancel(j) \/ HeartbeatAges(j) PROVE OneRunInv'
  BY <1>2 DEF Enqueue, Cancel, HeartbeatAges, workerVars, TypeInv, TypeOK
<1>3. ASSUME RequeueOrphans, UNCHANGED workerVars PROVE OneRunInv'
  BY <1>3 DEF RequeueOrphans, Orphans, workerVars, TypeInv, TypeOK
<1>4. ASSUME NEW r \in Replicas, Janitor(r) \/ Restart(r) PROVE OneRunInv'
  BY <1>3, <1>4 DEF Janitor, Restart, rowVars, workerVars
<1>5. ASSUME NEW r \in Replicas, Crash(r) PROVE OneRunInv'
  BY <1>5 DEF Crash, rowVars, TypeInv, TypeOK
<1>6. ASSUME NEW w \in Workers, NEW j \in Jobs, Claim(w, j) PROVE OneRunInv'
  BY <1>6 DEF Claim, rowVars, TypeInv, TypeOK
<1>7. ASSUME NEW w \in Workers, ClaimCommits(w) PROVE OneRunInv'
  <2>1. /\ job[w] \in Jobs /\ status[job[w]] = "queued"
        /\ Run(w) /\ pc[w] = "claiming"
    BY <1>7 DEF ClaimCommits, TypeInv, HoldsAJob, ClaimsAreExclusive
  <2>2. \A v \in Workers : ~Holds(v, job[w])
    BY <2>1
  <2>3. /\ status'[job[w]] = "running" /\ fresh'[job[w]]
        /\ \A j \in Jobs \ {job[w]} : status'[j] = status[j] /\ fresh'[j] = fresh[j]
    BY <1>7, <2>1 DEF ClaimCommits, TypeInv, TypeOK
  <2>4. \A v \in Workers, j \in Jobs :
            Holds(v, j)' => (v = w /\ j = job[w]) \/ (v # w /\ Holds(v, j) /\ j # job[w])
    BY <2>1, <2>2, RunTypes
  <2> QED BY <2>2, <2>3, <2>4
<1>8. ASSUME NEW w \in Workers, ClaimRollsBack(w) PROVE OneRunInv'
  BY <1>8 DEF ClaimRollsBack, rowVars, TypeInv, TypeOK
<1>9. ASSUME NEW w \in Workers, ClaimCommitLost(w) PROVE OneRunInv'
  BY <1>9 DEF ClaimCommitLost
<1>10. ASSUME NEW w \in Workers, ProcessRow(w) PROVE OneRunInv'
  BY <1>10 DEF ProcessRow, rowVars
<1>11. ASSUME NEW w \in Workers, HandlerSucceeds(w) \/ HandlerFails(w) PROVE OneRunInv'
  BY <1>11 DEF HandlerSucceeds, HandlerFails, HandlerReturns, rowVars, TypeInv, TypeOK
<1>12. ASSUME NEW w \in Workers, SaveProgress(w) PROVE OneRunInv'
  BY <1>12 DEF SaveProgress, workerVars, TypeInv, TypeOK
<1>13. ASSUME NEW w \in Workers, Finish(w) \/ FinishLost(w) PROVE OneRunInv'
  <2>1. /\ \A v \in Workers, j \in Jobs : Holds(v, j)' => v # w /\ Holds(v, j)
        /\ fresh' = fresh
    BY <1>13 DEF Finish, FinishLost, Release, rowVars, TypeInv, TypeOK
  <2>2. job[w] \in Jobs /\ Holds(w, job[w])
    BY <1>13 DEF Finish, FinishLost, TypeInv, HoldsAJob
  <2>3. \A j \in Jobs : j # job[w] => status'[j] = status[j]
    BY <1>13, <2>2 DEF Finish, FinishLost, rowVars, TypeInv, TypeOK
  <2>4. \A v \in Workers, j \in Jobs : Holds(v, j)' => j # job[w]
    BY <2>1, <2>2
  <2> QED BY <2>1, <2>3, <2>4
<1> QED BY <1>1, <1>2, <1>4, <1>5, <1>6, <1>7, <1>8, <1>9, <1>10, <1>11, <1>12, <1>13
           DEF Next, Work

(* When heartbeats come on time and no claim loses its COMMIT, at most one     *)
(* goroutine of all replicas executes a job.                                   *)
THEOREM AtMostOneRun ==
    ASSUME ~LateHeartbeats, ~ClaimCommitFails
    PROVE  Spec => []OneRunPerJob
<1>1. Init => TypeInv /\ OneRunInv
  BY InitTypeInv DEF Init, OneRunInv, OneRunPerJob, HeldIsFresh, Holds
<1>2. TypeInv /\ OneRunInv /\ [Next]_vars => (TypeInv /\ OneRunInv)'
  BY NextTypeInv, NextOneRun
<1>3. TypeInv /\ OneRunInv => OneRunPerJob
  BY DEF OneRunInv
<1> QED BY <1>1, <1>2, <1>3, PTL DEF Spec
=============================================================================
