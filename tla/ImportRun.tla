----------------------------- MODULE ImportRun ------------------------------
(***************************************************************************)
(* One call of the import handler (services/importer/internal/imports,     *)
(* process.go): it streams the rows of a CSV file, fails malformed rows    *)
(* itself, ships the others to core in batches from concurrent senders,    *)
(* retries what core did not answer, and streams the failures to           *)
(* errors.csv.  Core is external: it applies a batch or not, and its       *)
(* answer may be lost.                                                     *)
(***************************************************************************)
EXTENDS Integers, FiniteSets

CONSTANTS Rows,         \* rows of the file, 1..Rows
          Malformed,    \* rows that fail the local checks
          Rejected,     \* rows core answers with a per-item error
          Mode,         \* "create" or "upsert"
          BatchSize,    \* rows per request
          Concurrency,  \* senders of a job (errgroup limit)
          TenantLimit,  \* requests in flight per tenant (limiter)
          OtherJobs,    \* bound: requests other jobs of the tenant have in flight
          Retries       \* retries of one request

ImportRunAssumption ==
    /\ Rows \in Nat
    /\ Malformed \subseteq 1..Rows
    /\ Rejected \subseteq 1..Rows
    /\ Mode \in {"create", "upsert"}
    /\ BatchSize \in Nat \ {0}
    /\ Concurrency \in Nat \ {0}
    /\ TenantLimit \in Nat \ {0}
    /\ OtherJobs \in 0..TenantLimit
    /\ Retries \in Nat

VARIABLES phase,      \* where the handler is
          pos,        \* rows read
          batch,      \* rows read and not yet handed to a sender
          senders,    \* the goroutines of the errgroup
          failure,    \* a sender returned an error: gctx is cancelled
          shutdown,   \* the worker's ctx is cancelled
          jobRow,     \* the status of the job in importer.jobs
          cancelled,  \* the handler noticed the cancellation
          ok,         \* how often a row was counted as ok
          failed,     \* how often a row was counted as failed
          report,     \* rows written to errors.csv
          upload,     \* the object errors.csv: being streamed, dead, stored, removed
          outcome,    \* what the handler returned
          others,     \* limiter slots held by other jobs of the tenant
          core        \* rows whose contact exists in core

countVars == <<ok, failed, report>>
vars == <<phase, pos, batch, senders, failure, shutdown, jobRow, cancelled,
          countVars, upload, outcome, others, core>>

Lines == 1..Rows

\* A goroutine of the group: the rows of its batch, whether it waits for a slot
\* of the limiter or posts, and the attempts that failed.
Sender == [rows : SUBSET Lines, at : {"waiting", "posting"}, tries : 0..Retries]

TypeOK ==
    /\ phase \in {"reading", "draining", "closing", "returned"}
    /\ pos \in 0..Rows
    /\ batch \subseteq Lines /\ Cardinality(batch) <= BatchSize
    /\ senders \subseteq Sender /\ Cardinality(senders) <= Concurrency
    /\ failure \in BOOLEAN /\ shutdown \in BOOLEAN /\ cancelled \in BOOLEAN
    /\ jobRow \in {"running", "cancelled"}
    /\ ok \in [Lines -> Nat] /\ failed \in [Lines -> Nat]
    /\ report \subseteq Lines
    /\ upload \in {"streaming", "dead", "stored", "removed", "aborted"}
    /\ outcome \in {"none", "succeeded", "failed"}
    /\ others \in 0..OtherJobs
    /\ core \subseteq Lines

Init ==
    /\ phase = "reading"
    /\ pos = 0
    /\ batch = {}
    /\ senders = {}
    /\ failure = FALSE /\ shutdown = FALSE /\ cancelled = FALSE
    /\ jobRow = "running"
    /\ ok = [l \in Lines |-> 0] /\ failed = [l \in Lines |-> 0]
    /\ report = {}
    /\ upload = "streaming"
    /\ outcome = "none"
    /\ others = 0
    /\ core = {}

-----------------------------------------------------------------------------

\* gctx.Err(): a sender failed, or the worker is shutting down.
Aborted == failure \/ shutdown

\* rep.Add and report.add for rows that failed.
CountFailed(rows) ==
    /\ failed' = [l \in Lines |-> failed[l] + (IF l \in rows THEN 1 ELSE 0)]
    /\ report' = report \cup rows

CountOk(rows) == ok' = [l \in Lines |-> ok[l] + (IF l \in rows THEN 1 ELSE 0)]

\* The deferred abort of the report, unless run reached its close.
AbortReport == upload' = IF upload = "streaming" THEN "aborted" ELSE upload

-----------------------------------------------------------------------------
(* The reading loop *)

Reading == phase = "reading" /\ ~Aborted /\ ~cancelled

Full == Cardinality(batch) = BatchSize

\* The loop of run: the next row fails locally or joins the batch.
ReadRow ==
    /\ Reading
    /\ pos < Rows
    /\ ~Full
    /\ pos' = pos + 1
    /\ IF pos + 1 \in Malformed
       THEN CountFailed({pos + 1}) /\ UNCHANGED <<ok, batch>>
       ELSE batch' = batch \cup {pos + 1} /\ UNCHANGED countVars
    /\ UNCHANGED <<phase, senders, failure, shutdown, jobRow, cancelled, upload, outcome, others, core>>

\* A full batch is flushed without another look at gctx; the last one is not.
FlushDue ==
    /\ phase = "reading" /\ ~cancelled
    /\ Full \/ (~Aborted /\ pos = Rows /\ batch # {})

\* flush hands the batch to a new goroutine; g.Go waits for a free place.
Flush ==
    /\ FlushDue
    /\ Cardinality(senders) < Concurrency
    /\ senders' = senders \cup {[rows |-> batch, at |-> "waiting", tries |-> 0]}
    /\ batch' = {}
    /\ UNCHANGED <<phase, pos, failure, shutdown, jobRow, cancelled, countVars, upload, outcome, others, core>>

\* flush finds the check of the job's status due and the job cancelled: the
\* batch is dropped.
FlushCancelled ==
    /\ FlushDue
    /\ ~shutdown
    /\ jobRow = "cancelled"
    /\ cancelled' = TRUE
    /\ batch' = {}
    /\ UNCHANGED <<phase, pos, senders, failure, shutdown, jobRow, countVars, upload, outcome, others, core>>

\* The upload cannot be read on, or its header does not fit the mapping: run
\* returns without waiting for its senders.
ReadFails ==
    /\ Reading
    /\ pos < Rows
    /\ ~Full
    /\ phase' = "returned"
    /\ outcome' = "failed"
    /\ AbortReport
    /\ UNCHANGED <<pos, batch, senders, failure, shutdown, jobRow, cancelled, countVars, others, core>>

\* Faulty variant of StopReading: no flush after the loop.
StopWithoutLastFlush ==
    /\ phase = "reading"
    /\ ~Full
    /\ Aborted \/ cancelled \/ pos = Rows
    /\ phase' = "draining"
    /\ UNCHANGED <<pos, batch, senders, failure, shutdown, jobRow, cancelled, countVars, upload, outcome, others, core>>

\* The loop and the last flush are over.
StopReading ==
    /\ phase = "reading"
    /\ ~Full
    /\ Aborted \/ cancelled \/ (pos = Rows /\ batch = {})
    /\ phase' = "draining"
    /\ UNCHANGED <<pos, batch, senders, failure, shutdown, jobRow, cancelled, countVars, upload, outcome, others, core>>

-----------------------------------------------------------------------------
(* The senders *)

\* limiter.acquire
Acquire(s) ==
    /\ s.at = "waiting"
    /\ Cardinality({t \in senders : t.at = "posting"}) + others < TenantLimit
    /\ senders' = (senders \ {s}) \cup {[s EXCEPT !.at = "posting"]}
    /\ UNCHANGED <<phase, pos, batch, failure, shutdown, jobRow, cancelled, countVars, upload, outcome, others, core>>

\* The rows of a batch core answers with an error, and those it then holds.
CoreErrors(rows) == (rows \cap Rejected) \cup (IF Mode = "create" THEN rows \cap core ELSE {})
CoreApplies(rows) == core' = core \cup (rows \ Rejected)

\* acquire, post or the wait between two attempts ends with the group's context;
\* a request in flight may still be applied.
SendAborted(s) ==
    /\ Aborted
    /\ failure' = TRUE
    /\ senders' = senders \ {s}
    /\ UNCHANGED core \/ (s.at = "posting" /\ CoreApplies(s.rows))
    /\ UNCHANGED <<phase, pos, batch, shutdown, jobRow, cancelled, countVars, upload, outcome, others>>

\* Core answers 200: its per-item errors fail, the other rows are ok.
Answered(s) ==
    /\ s.at = "posting"
    /\ CoreApplies(s.rows)
    /\ CountFailed(CoreErrors(s.rows))
    /\ CountOk(s.rows \ CoreErrors(s.rows))
    /\ senders' = senders \ {s}
    /\ UNCHANGED <<phase, pos, batch, failure, shutdown, jobRow, cancelled, upload, outcome, others>>

\* Core refuses the batch with a 4xx: all its rows fail, the job goes on.
Refused(s) ==
    /\ s.at = "posting"
    /\ CountFailed(s.rows)
    /\ senders' = senders \ {s}
    /\ UNCHANGED <<phase, pos, batch, failure, shutdown, jobRow, cancelled, ok, upload, outcome, others, core>>

\* Faulty variants of Unanswered: every failed attempt counts the rows as failed;
\* the attempts are not limited.
UnansweredIsFailed(s) ==
    /\ s.at = "posting"
    /\ UNCHANGED core \/ CoreApplies(s.rows)
    /\ CountFailed(s.rows) /\ UNCHANGED ok
    /\ IF s.tries < Retries
       THEN /\ senders' = (senders \ {s}) \cup {[s EXCEPT !.tries = @ + 1]}
            /\ UNCHANGED failure
       ELSE /\ senders' = senders \ {s}
            /\ failure' = TRUE
    /\ UNCHANGED <<phase, pos, batch, shutdown, jobRow, cancelled, upload, outcome, others>>

UnansweredForever(s) ==
    /\ s.at = "posting"
    /\ UNCHANGED core \/ CoreApplies(s.rows)
    /\ senders' = (senders \ {s}) \cup {[s EXCEPT !.tries = (@ + 1) % (Retries + 1)]}
    /\ UNCHANGED <<phase, pos, batch, failure, shutdown, jobRow, cancelled, countVars, upload, outcome, others>>

\* No answer, 429 or 5xx, before or after core applied the batch: post tries
\* again, and the last failed attempt fails the group.
Unanswered(s) ==
    /\ s.at = "posting"
    /\ UNCHANGED core \/ CoreApplies(s.rows)
    /\ IF s.tries < Retries
       THEN /\ senders' = (senders \ {s}) \cup {[s EXCEPT !.tries = @ + 1]}
            /\ UNCHANGED failure
       ELSE /\ senders' = senders \ {s}
            /\ failure' = TRUE
    /\ UNCHANGED <<phase, pos, batch, shutdown, jobRow, cancelled, countVars, upload, outcome, others>>

-----------------------------------------------------------------------------
(* The end of run *)

Return(res) == phase' = "returned" /\ outcome' = res

\* g.Wait and the checks after it: an error of the group, the cancellation, and
\* the shutdown, in this order.
Drained ==
    /\ phase = "draining"
    /\ senders = {}
    /\ IF failure THEN Return("failed") /\ AbortReport
       ELSE IF cancelled THEN Return("succeeded") /\ AbortReport
       ELSE IF shutdown THEN Return("failed") /\ AbortReport
       ELSE phase' = "closing" /\ UNCHANGED <<upload, outcome>>
    /\ UNCHANGED <<pos, batch, senders, failure, shutdown, jobRow, cancelled, countVars, others, core>>

\* report.close fails if the upload died; a report without rows is removed, and
\* the URL of another one may not be signed.
CloseReport ==
    /\ phase = "closing"
    /\ IF upload = "dead"
       THEN Return("failed") /\ UNCHANGED upload
       ELSE /\ Return("succeeded") \/ (report # {} /\ Return("failed"))
            /\ upload' = IF report = {} THEN "removed" ELSE "stored"
    /\ UNCHANGED <<pos, batch, senders, failure, shutdown, jobRow, cancelled, countVars, others, core>>

-----------------------------------------------------------------------------
(* The environment *)

Cancel ==
    /\ jobRow = "running"
    /\ jobRow' = "cancelled"
    /\ UNCHANGED <<phase, pos, batch, senders, failure, shutdown, cancelled, countVars, upload, outcome, others, core>>

Shutdown ==
    /\ ~shutdown
    /\ shutdown' = TRUE
    /\ UNCHANGED <<phase, pos, batch, senders, failure, jobRow, cancelled, countVars, upload, outcome, others, core>>

\* The PutObject of errors.csv fails.
UploadDies ==
    /\ upload = "streaming"
    /\ upload' = "dead"
    /\ UNCHANGED <<phase, pos, batch, senders, failure, shutdown, jobRow, cancelled, countVars, outcome, others, core>>

\* Other jobs of the tenant take and release slots of the limiter.
OtherAcquires ==
    /\ others < OtherJobs
    /\ Cardinality({t \in senders : t.at = "posting"}) + others < TenantLimit
    /\ others' = others + 1
    /\ UNCHANGED <<phase, pos, batch, senders, failure, shutdown, jobRow, cancelled, countVars, upload, outcome, core>>

OtherReleases ==
    /\ others > 0
    /\ others' = others - 1
    /\ UNCHANGED <<phase, pos, batch, senders, failure, shutdown, jobRow, cancelled, countVars, upload, outcome, core>>

-----------------------------------------------------------------------------

Send(s) == Acquire(s) \/ SendAborted(s) \/ Answered(s) \/ Refused(s) \/ Unanswered(s)

Handler == ReadRow \/ Flush \/ FlushCancelled \/ ReadFails \/ StopReading \/ Drained \/ CloseReport

Next ==
    \/ Handler
    \/ \E s \in senders : Send(s)
    \/ Cancel \/ Shutdown \/ UploadDies \/ OtherAcquires \/ OtherReleases

Spec == Init /\ [][Next]_vars

\* The goroutines of the handler run, core answers or the client times out,
\* other jobs give their slots back, and a slot that is free again and again is
\* taken (a channel serves its waiters in order).
FairSpec ==
    /\ Spec
    /\ WF_vars(Handler)
    /\ WF_vars(\E s \in senders : Answered(s) \/ Refused(s) \/ Unanswered(s) \/ SendAborted(s))
    /\ SF_vars(\E s \in senders : Acquire(s))
    /\ WF_vars(OtherReleases)

-----------------------------------------------------------------------------
(* Properties *)

\* No row is counted twice, however its batch was retried.
EachRowOnce == \A l \in Lines : ok[l] + failed[l] <= 1

\* A run that succeeds has read the whole file and counted every row, and
\* errors.csv is stored with exactly the rows that failed, or removed when none
\* did: rows_read = rows_ok + rows_failed of the finished job.
SuccessAccountsForAll ==
    outcome = "succeeded" /\ ~cancelled =>
        /\ pos = Rows
        /\ \A l \in Lines : ok[l] + failed[l] = 1
        /\ report = {l \in Lines : failed[l] = 1}
        /\ upload = IF report = {} THEN "removed" ELSE "stored"

\* The handler returns, and the requests it may leave behind end.
RunEnds == <>(phase = "returned") /\ <>[](senders = {})
=============================================================================
