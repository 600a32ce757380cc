----------------------------- MODULE ExportRun ------------------------------
(***************************************************************************)
(* The export of contacts: the handler of the importer (exports/run.go)    *)
(* turns core's contact stream (contacts-query/contact-stream.service.ts)  *)
(* into a file and tells the console, core reads the contacts through a    *)
(* cursor on one of a few pooled connections and waits for the response to *)
(* drain.  Jobs are claimed, lost and recovered as in JobQueue.            *)
(*                                                                         *)
(* Contacts are counted in batches of one FETCH.  The response buffer, the *)
(* connection, the CSV pipe and the upload are one buffer of batches that  *)
(* the importer takes one by one.  Node and MinIO are external: a response *)
(* whose client is gone never drains, and an object appears as a whole.    *)
(***************************************************************************)
EXTENDS Integers, FiniteSets

CONSTANTS Exports,      \* export jobs
          Pool,         \* connections of ContactStreamService (max)
          Batches,      \* batches of contacts in an export
          HighWater,    \* batches a response takes before write returns false
          Runs,         \* MaxAttempts of the queue
          MaxFaults     \* bound: failed calls, stops and crashes in a behaviour

ASSUME ExportRunAssumption ==
    /\ {Pool, Batches, HighWater, Runs} \subseteq Nat \ {0}
    /\ MaxFaults \in Nat

VARIABLES row,        \* status of a job in importer.jobs
          run,        \* runs of the job so far
          handler,    \* where its handler is; "lost" when nobody runs it
          result,     \* what the handler returns
          read,       \* batches the handler wrote into the upload
          object,     \* batches in the published file: empty, or one number
          notices,    \* system.job.completed: the statuses published
          stream,     \* where a request of core is
          conns,      \* requests that hold a connection of the pool
          fetched,    \* batches read from the cursor
          buffered,   \* batches written that the importer has not taken
          body,       \* the response as the importer sees it
          faults

jobVars  == <<row, run, handler, result, read, object, notices>>
coreVars == <<stream, conns, fetched, buffered, body>>
vars == <<jobVars, coreVars, faults>>

Requests == Exports \X (1..Runs)
Ended == {"succeeded", "failed", "cancelled"}

TypeOK ==
    /\ row \in [Exports -> {"queued", "running"} \cup Ended]
    /\ run \in [Exports -> 0..Runs]
    /\ handler \in [Exports -> {"none", "preparing", "copying", "notifying", "finishing", "lost"}]
    /\ result \in [Exports -> {"succeeded", "failed"}]
    /\ read \in [Exports -> 0..Batches]
    /\ object \in [Exports -> SUBSET (0..Batches)]
    /\ notices \in [Exports -> SUBSET {"succeeded", "failed"}]
    /\ stream \in [Requests -> {"none", "waiting", "fetching", "draining", "returned"}]
    /\ conns \subseteq Requests
    /\ fetched \in [Requests -> 0..Batches]
    /\ buffered \in [Requests -> 0..Batches]
    /\ body \in [Requests -> {"open", "ended", "cut", "closed"}]
    /\ faults \in 0..MaxFaults

Init ==
    /\ row = [e \in Exports |-> "queued"]
    /\ run = [e \in Exports |-> 0]
    /\ handler = [e \in Exports |-> "none"]
    /\ result = [e \in Exports |-> "failed"]
    /\ read = [e \in Exports |-> 0]
    /\ object = [e \in Exports |-> {}]
    /\ notices = [e \in Exports |-> {}]
    /\ stream = [q \in Requests |-> "none"]
    /\ conns = {}
    /\ fetched = [q \in Requests |-> 0]
    /\ buffered = [q \in Requests |-> 0]
    /\ body = [q \in Requests |-> "open"]
    /\ faults = 0

Fault == faults < MaxFaults /\ faults' = faults + 1

Request(e) == <<e, run[e]>>

-----------------------------------------------------------------------------
(* The job *)

Claim(e) ==
    /\ row[e] = "queued" /\ handler[e] = "none"
    /\ row' = [row EXCEPT ![e] = "running"]
    /\ run' = [run EXCEPT ![e] = @ + 1]
    /\ handler' = [handler EXCEPT ![e] = "preparing"]
    /\ read' = [read EXCEPT ![e] = 0]
    /\ UNCHANGED <<result, object, notices, coreVars, faults>>

\* Store.Cancel; the handler of an export does not look at it.
Cancel(e) ==
    /\ row[e] \notin Ended
    /\ row' = [row EXCEPT ![e] = "cancelled"]
    /\ UNCHANGED <<run, handler, result, read, object, notices, coreVars, faults>>

\* Queue.run after the handler: only a running row is finished.
Finish(e) ==
    /\ handler[e] = "finishing"
    /\ row' = [row EXCEPT ![e] = IF @ = "running" THEN result[e] ELSE @]
    /\ handler' = [handler EXCEPT ![e] = "none"]
    /\ UNCHANGED <<run, result, read, object, notices, coreVars, faults>>

FinishFails(e) ==
    /\ handler[e] = "finishing"
    /\ Fault
    /\ handler' = [handler EXCEPT ![e] = "lost"]
    /\ UNCHANGED <<row, run, result, read, object, notices, coreVars>>

\* The orphan is queued again until its runs are used.
Recover(e) ==
    /\ handler[e] = "lost"
    /\ row' = [row EXCEPT ![e] = IF @ # "running" THEN @
                                 ELSE IF run[e] = Runs THEN "failed" ELSE "queued"]
    /\ handler' = [handler EXCEPT ![e] = "none"]
    /\ UNCHANGED <<run, result, read, object, notices, coreVars, faults>>

-----------------------------------------------------------------------------
(* The handler *)

\* The importer leaves the response: the deferred Close, or the process ended.
Leave(e) ==
    LET q == Request(e)
    IN  /\ body' = [body EXCEPT ![q] = IF @ = "open" THEN "closed" ELSE @]
        /\ UNCHANGED <<stream, conns, fetched, buffered>>

Returns(e, status) ==
    /\ handler' = [handler EXCEPT ![e] = "notifying"]
    /\ result' = [result EXCEPT ![e] = status]

\* core.fields and columns succeed and the stream is requested.
AskForStream(e) ==
    /\ handler[e] = "preparing"
    /\ handler' = [handler EXCEPT ![e] = "copying"]
    /\ stream' = [stream EXCEPT ![Request(e)] = "waiting"]
    /\ UNCHANGED <<row, run, result, read, object, notices, conns, fetched, buffered, body, faults>>

\* core.fields or columns fails.
PrepareFails(e) ==
    /\ handler[e] = "preparing"
    /\ Fault
    /\ Returns(e, "failed")
    /\ UNCHANGED <<row, run, read, object, notices, coreVars>>

\* writeCSV copies a batch into the pipe the upload reads.
Copy(e) ==
    LET q == Request(e)
    IN  /\ handler[e] = "copying"
        /\ body[q] \in {"open", "ended"} /\ buffered[q] > 0
        /\ buffered' = [buffered EXCEPT ![q] = @ - 1]
        /\ read' = [read EXCEPT ![e] = @ + 1]
        /\ UNCHANGED <<row, run, handler, result, object, notices, stream, conns, fetched, body, faults>>

\* The body ended: the upload completes, and the object replaces an earlier one.
Publish(e) ==
    LET q == Request(e)
    IN  /\ handler[e] = "copying"
        /\ body[q] = "ended" /\ buffered[q] = 0
        /\ object' = [object EXCEPT ![e] = {read[e]}]
        /\ \/ Returns(e, "succeeded") /\ UNCHANGED faults
           \/ Returns(e, "failed") /\ Fault                 \* PresignGet fails
        /\ UNCHANGED <<row, run, read, notices, coreVars>>

\* The connection is cut: writeCSV fails the pipe and the upload is aborted.
BodyCut(e) ==
    /\ handler[e] = "copying"
    /\ body[Request(e)] = "cut"
    /\ Returns(e, "failed")
    /\ UNCHANGED <<row, run, read, object, notices, coreVars, faults>>

\* The upload fails, or core sends no header in time: the body is closed.
CopyFails(e) ==
    /\ handler[e] = "copying"
    /\ Fault
    /\ Leave(e)
    /\ Returns(e, "failed")
    /\ UNCHANGED <<row, run, read, object, notices>>

\* notify: system.job.completed, before Queue.run finishes the row; a failed
\* publish is logged.
Notify(e) ==
    /\ handler[e] = "notifying"
    /\ handler' = [handler EXCEPT ![e] = "finishing"]
    /\ \/ notices' = [notices EXCEPT ![e] = @ \cup {result[e]}] /\ UNCHANGED faults
       \/ UNCHANGED notices /\ Fault
    /\ UNCHANGED <<row, run, result, read, object, coreVars>>

\* The importer stops or crashes: no notice, and the row stays running.
Die(e) ==
    /\ handler[e] \notin {"none", "lost"}
    /\ Fault
    /\ Leave(e)
    /\ handler' = [handler EXCEPT ![e] = "lost"]
    /\ UNCHANGED <<row, run, result, read, object, notices>>

-----------------------------------------------------------------------------
(* core: ContactStreamService.stream and the controller around it *)

\* withTx: a connection of the pool, BEGIN, the cursor.
Connect(q) ==
    /\ stream[q] = "waiting"
    /\ Cardinality(conns) < Pool
    /\ conns' = conns \cup {q}
    /\ stream' = [stream EXCEPT ![q] = "fetching"]
    /\ UNCHANGED <<jobVars, fetched, buffered, body, faults>>

\* FETCH and write; a full response is waited for.
Fetch(q) ==
    /\ stream[q] = "fetching"
    /\ body[q] # "closed"
    /\ fetched[q] < Batches
    /\ fetched' = [fetched EXCEPT ![q] = @ + 1]
    /\ buffered' = [buffered EXCEPT ![q] = @ + 1]
    /\ stream' = [stream EXCEPT ![q] = IF buffered'[q] >= HighWater THEN "draining" ELSE @]
    /\ UNCHANGED <<jobVars, conns, body, faults>>

\* once(out, 'drain'): an empty response emits it unless its client is gone.
Drain(q) ==
    /\ stream[q] = "draining"
    /\ body[q] = "open" /\ buffered[q] = 0
    /\ stream' = [stream EXCEPT ![q] = "fetching"]
    /\ UNCHANGED <<jobVars, conns, fetched, buffered, body, faults>>

\* Faulty variant of Return: the connection is not released.
ReturnHolding(q) ==
    /\ stream[q] = "fetching"
    /\ fetched[q] = Batches \/ body[q] = "closed"
    /\ stream' = [stream EXCEPT ![q] = "returned"]
    /\ body' = [body EXCEPT ![q] = IF @ = "open" THEN "ended" ELSE @]
    /\ UNCHANGED <<jobVars, conns, fetched, buffered, faults>>

\* No rows are left, or the client is gone: COMMIT, release, res.end().
Return(q) ==
    /\ stream[q] = "fetching"
    /\ fetched[q] = Batches \/ body[q] = "closed"
    /\ stream' = [stream EXCEPT ![q] = "returned"]
    /\ conns' = conns \ {q}
    /\ body' = [body EXCEPT ![q] = IF @ = "open" THEN "ended" ELSE @]
    /\ UNCHANGED <<jobVars, fetched, buffered, faults>>

\* Faulty variant of QueryFails: the response is ended instead of destroyed.
QueryFailsEnding(q) ==
    /\ stream[q] \in {"waiting", "fetching"}
    /\ Fault
    /\ stream' = [stream EXCEPT ![q] = "returned"]
    /\ conns' = conns \ {q}
    /\ body' = [body EXCEPT ![q] = IF @ = "open" THEN "ended" ELSE @]
    /\ UNCHANGED <<jobVars, fetched, buffered>>

\* A connection or a query fails: ROLLBACK, release, res.destroy().
QueryFails(q) ==
    /\ stream[q] \in {"waiting", "fetching"}
    /\ Fault
    /\ stream' = [stream EXCEPT ![q] = "returned"]
    /\ conns' = conns \ {q}
    /\ body' = [body EXCEPT ![q] = IF @ = "open" THEN "cut" ELSE @]
    /\ UNCHANGED <<jobVars, fetched, buffered>>

\* core goes down and comes back with an empty pool.
CoreRestarts ==
    /\ Fault
    /\ stream' = [q \in Requests |-> IF stream[q] = "none" THEN "none" ELSE "returned"]
    /\ conns' = {}
    /\ body' = [q \in Requests |->
                   IF stream[q] \notin {"none", "returned"} /\ body[q] = "open" THEN "cut" ELSE body[q]]
    /\ UNCHANGED <<jobVars, fetched, buffered>>

-----------------------------------------------------------------------------

Handler(e) ==
    \/ AskForStream(e) \/ PrepareFails(e) \/ Copy(e) \/ Publish(e) \/ BodyCut(e)
    \/ CopyFails(e) \/ Notify(e) \/ Finish(e) \/ FinishFails(e)

Core(q) == Connect(q) \/ Fetch(q) \/ Drain(q) \/ Return(q) \/ QueryFails(q)

Next ==
    \/ \E e \in Exports : Claim(e) \/ Cancel(e) \/ Recover(e) \/ Handler(e) \/ Die(e)
    \/ \E q \in Requests : Core(q)
    \/ CoreRestarts

Spec == Init /\ [][Next]_vars

\* The goroutines and the event loop run what is ready, the pool serves its
\* waiters in turn, and the queue claims and recovers jobs.
Fairness ==
    /\ \A e \in Exports :
          /\ WF_vars(Claim(e)) /\ WF_vars(Recover(e)) /\ WF_vars(AskForStream(e)) /\ WF_vars(Copy(e))
          /\ WF_vars(Publish(e)) /\ WF_vars(BodyCut(e)) /\ WF_vars(Notify(e)) /\ WF_vars(Finish(e))
    /\ \A q \in Requests :
          /\ SF_vars(Connect(q)) /\ WF_vars(Fetch(q)) /\ WF_vars(Drain(q)) /\ WF_vars(Return(q))

FairSpec == Spec /\ Fairness

-----------------------------------------------------------------------------
(* Properties *)

\* A stream that fails midway "aborts the upload, so no partial file is ever
\* published" (exports/run.go:56), whichever side failed and when.
PublishedIsComplete == \A e \in Exports : object[e] \subseteq {Batches}

\* Every export ends, also when requests that failed keep their connections, as
\* long as the pool (contact-stream.service.ts:21) has one left.
EveryExportEnds == \A e \in Exports : <>(row[e] \in Ended)

\* stream "resolves when done or `out` closed" (contact-stream.service.ts:38).
ResolvesWhenClosed ==
    \A q \in Requests : stream[q] # "none" /\ body[q] = "closed" ~> stream[q] = "returned"
=============================================================================
