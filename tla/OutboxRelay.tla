---------------------------- MODULE OutboxRelay -----------------------------
(***************************************************************************)
(* The relay that drains contacts.outbox to JetStream (services/core,      *)
(* modules/contacts-write/outbox.ts), one per core process: kick, the      *)
(* drain loop, the transaction that locks, publishes and deletes a batch,  *)
(* and the processes that stop, crash and start again.                     *)
(*                                                                         *)
(* An event is its row id: a UUID v7 made before its transaction commits,  *)
(* so a smaller id may be committed later.  JetStream is external: it      *)
(* stores a message unless it remembers the message id, and it forgets the *)
(* ids when its duplicate_window passes.                                   *)
(***************************************************************************)
EXTENDS Integers, FiniteSets

CONSTANTS Procs,        \* core processes
          Rows,         \* row ids are 1..Rows
          Batch,        \* OutboxRelay.BATCH
          MaxCrashes,   \* bound: crashes in a behaviour
          MaxFaults,    \* bound: failed calls and timeouts in a behaviour
          MaxWindows    \* bound: how often the duplicate window passes

ASSUME OutboxRelayAssumption ==
    /\ Rows \in Nat
    /\ Batch \in Nat \ {0}
    /\ MaxCrashes \in Nat /\ MaxFaults \in Nat /\ MaxWindows \in Nat

VARIABLES rows,       \* committed rows of contacts.outbox
          committed,  \* ghost: every row that was ever committed
          stored,     \* how often the stream stored a row's message
          window,     \* message ids JetStream remembers
          windows,    \* how often it forgot them
          life,       \* a process is up, stopping or down
          pc,         \* where its drain loop is; "idle" when this.running is unset
          again,      \* this.again
          flushDue,   \* a writer of the process committed and will call flush
          batch,      \* rows its transaction selected
          unsent,     \* those it has not published yet
          timedOut,   \* the transaction ran into its timeout and rolled back
          crashes, faults

dbVars    == <<rows, committed>>
natsVars  == <<stored, window, windows>>
loopVars  == <<pc, again, batch, unsent, timedOut>>
boundVars == <<crashes, faults>>
vars == <<dbVars, natsVars, life, loopVars, flushDue, boundVars>>

Ids == 1..Rows

TypeOK ==
    /\ rows \subseteq Ids /\ committed \subseteq Ids
    /\ stored \in [Ids -> Nat]
    /\ window \subseteq Ids
    /\ windows \in 0..MaxWindows
    /\ life \in [Procs -> {"up", "stopping", "down"}]
    /\ pc \in [Procs -> {"idle", "select", "sending", "done"}]
    /\ again \in [Procs -> BOOLEAN]
    /\ flushDue \in [Procs -> BOOLEAN]
    /\ batch \in [Procs -> SUBSET Ids]
    /\ unsent \in [Procs -> SUBSET Ids]
    /\ timedOut \in [Procs -> BOOLEAN]
    /\ crashes \in 0..MaxCrashes
    /\ faults \in 0..MaxFaults

\* onApplicationBootstrap kicks, so every process starts with a drain.
Init ==
    /\ rows = {} /\ committed = {}
    /\ stored = [i \in Ids |-> 0]
    /\ window = {} /\ windows = 0
    /\ life = [p \in Procs |-> "up"]
    /\ pc = [p \in Procs |-> "select"]
    /\ again = [p \in Procs |-> FALSE]
    /\ flushDue = [p \in Procs |-> FALSE]
    /\ batch = [p \in Procs |-> {}]
    /\ unsent = [p \in Procs |-> {}]
    /\ timedOut = [p \in Procs |-> FALSE]
    /\ crashes = 0 /\ faults = 0

Delivered == {i \in Ids : stored[i] > 0}

\* Rows a running transaction holds FOR UPDATE.
Locked == UNION {batch[p] : p \in {q \in Procs : ~timedOut[q]}}

\* The first n rows of S in the order of their ids.
First(S, n) == {i \in S : Cardinality({k \in S : k < i}) < n}

Fault == faults < MaxFaults /\ faults' = faults + 1

-----------------------------------------------------------------------------
(* Writers and kick *)

\* A transaction with an event commits in a process that serves requests.
Commit(p, i) ==
    /\ life[p] = "up"
    /\ i \notin committed
    /\ rows' = rows \cup {i}
    /\ committed' = committed \cup {i}
    /\ flushDue' = [flushDue EXCEPT ![p] = TRUE]
    /\ UNCHANGED <<natsVars, life, loopVars, boundVars>>

\* kick: no-op without the timer; a loop that runs is asked to run again.
Kick(p) ==
    /\ life[p] = "up"
    /\ IF pc[p] = "idle"
       THEN /\ pc' = [pc EXCEPT ![p] = "select"]
            /\ again' = [again EXCEPT ![p] = FALSE]
       ELSE /\ again' = [again EXCEPT ![p] = TRUE]
            /\ UNCHANGED pc
    /\ UNCHANGED <<dbVars, natsVars, life, batch, unsent, timedOut, boundVars>>

\* ContactsOutbox.flush, after the transaction.
Flush(p) ==
    /\ flushDue[p]
    /\ flushDue' = [flushDue EXCEPT ![p] = FALSE]
    /\ Kick(p)

\* The interval of one second.
Tick(p) == Kick(p) /\ UNCHANGED flushDue

-----------------------------------------------------------------------------
(* loop and drain *)

\* drain returned n: the loop goes on while batches are full or it was kicked.
DrainReturned(p, n) ==
    /\ batch' = [batch EXCEPT ![p] = {}]
    /\ unsent' = [unsent EXCEPT ![p] = {}]
    /\ timedOut' = [timedOut EXCEPT ![p] = FALSE]
    /\ IF n = Batch
       THEN pc' = [pc EXCEPT ![p] = "select"] /\ UNCHANGED again
       ELSE IF again[p] /\ life[p] = "up"
       THEN pc' = [pc EXCEPT ![p] = "select"] /\ again' = [again EXCEPT ![p] = FALSE]
       ELSE pc' = [pc EXCEPT ![p] = "done"] /\ UNCHANGED again

\* Faulty variant of DrainThrew: this.running stays set.
DrainThrewForGood(p) ==
    /\ batch' = [batch EXCEPT ![p] = {}]
    /\ unsent' = [unsent EXCEPT ![p] = {}]
    /\ timedOut' = [timedOut EXCEPT ![p] = FALSE]
    /\ pc' = [pc EXCEPT ![p] = "rejected"]
    /\ UNCHANGED again

\* drain threw: its transaction is rolled back and the loop ends.
DrainThrew(p) ==
    /\ batch' = [batch EXCEPT ![p] = {}]
    /\ unsent' = [unsent EXCEPT ![p] = {}]
    /\ timedOut' = [timedOut EXCEPT ![p] = FALSE]
    /\ pc' = [pc EXCEPT ![p] = "done"]
    /\ UNCHANGED again

\* The SELECT ... FOR UPDATE SKIP LOCKED of drain.
Select(p) ==
    /\ pc[p] = "select"
    /\ LET found == First(rows \ Locked, Batch)
       IN  IF found = {} THEN DrainReturned(p, 0)
           ELSE /\ batch' = [batch EXCEPT ![p] = found]
                /\ unsent' = [unsent EXCEPT ![p] = found]
                /\ pc' = [pc EXCEPT ![p] = "sending"]
                /\ UNCHANGED <<again, timedOut>>
    /\ UNCHANGED <<dbVars, natsVars, life, flushDue, boundVars>>

SelectFails(p) ==
    /\ pc[p] = "select"
    /\ Fault
    /\ DrainThrew(p)
    /\ UNCHANGED <<dbVars, natsVars, life, flushDue, crashes>>

\* The rows of the batch go out one by one in the order of their ids.
NextRow(p, i) == pc[p] = "sending" /\ i \in unsent[p] /\ \A k \in unsent[p] : i <= k

\* JetStream stores a message whose id it does not remember.
Stores(i) ==
    /\ stored' = IF i \in window THEN stored ELSE [stored EXCEPT ![i] = @ + 1]
    /\ window' = window \cup {i}
    /\ UNCHANGED windows

Send(p, i) ==
    /\ NextRow(p, i)
    /\ Stores(i)
    /\ unsent' = [unsent EXCEPT ![p] = @ \ {i}]
    /\ UNCHANGED <<dbVars, life, pc, again, batch, timedOut, flushDue, boundVars>>

\* publish throws: the stream did not get the message, or its answer was lost.
SendFails(p, i) ==
    /\ NextRow(p, i)
    /\ Fault
    /\ UNCHANGED natsVars \/ Stores(i)
    /\ DrainThrew(p)
    /\ UNCHANGED <<dbVars, life, flushDue, crashes>>

\* The transaction is rolled back after its timeout while the loop of send goes
\* on: its rows are free for other processes.
TransactionTimesOut(p) ==
    /\ pc[p] = "sending"
    /\ ~timedOut[p]
    /\ Fault
    /\ timedOut' = [timedOut EXCEPT ![p] = TRUE]
    /\ UNCHANGED <<dbVars, natsVars, life, pc, again, batch, unsent, flushDue, crashes>>

\* Faulty variant of Delete: the sends are not awaited.
DeleteUnawaited(p) ==
    /\ pc[p] = "sending"
    /\ IF timedOut[p]
       THEN DrainThrew(p) /\ UNCHANGED rows
       ELSE rows' = rows \ batch[p] /\ DrainReturned(p, Cardinality(batch[p]))
    /\ UNCHANGED <<committed, natsVars, life, flushDue, boundVars>>

\* The DELETE and the COMMIT of drain.
Delete(p) ==
    /\ pc[p] = "sending"
    /\ unsent[p] = {}
    /\ IF timedOut[p]
       THEN DrainThrew(p) /\ UNCHANGED rows
       ELSE rows' = rows \ batch[p] /\ DrainReturned(p, Cardinality(batch[p]))
    /\ UNCHANGED <<committed, natsVars, life, flushDue, boundVars>>

DeleteFails(p) ==
    /\ pc[p] = "sending"
    /\ unsent[p] = {}
    /\ Fault
    /\ DrainThrew(p)
    /\ UNCHANGED <<dbVars, natsVars, life, flushDue, crashes>>

\* The finally of kick; a kick between the end of the loop and it has only set
\* again, and waits for the timer.
Done(p) ==
    /\ pc[p] = "done"
    /\ pc' = [pc EXCEPT ![p] = "idle"]
    /\ UNCHANGED <<dbVars, natsVars, life, again, batch, unsent, timedOut, flushDue, boundVars>>

-----------------------------------------------------------------------------
(* Processes, time *)

\* onModuleDestroy: the timer is gone, the loop that runs is awaited.
Shutdown(p) ==
    /\ life[p] = "up"
    /\ crashes < MaxCrashes
    /\ crashes' = crashes + 1
    /\ life' = [life EXCEPT ![p] = "stopping"]
    /\ UNCHANGED <<dbVars, natsVars, loopVars, flushDue, faults>>

\* The process is gone, its transaction rolls back.
Vanish(p) ==
    /\ life' = [life EXCEPT ![p] = "down"]
    /\ pc' = [pc EXCEPT ![p] = "idle"]
    /\ again' = [again EXCEPT ![p] = FALSE]
    /\ flushDue' = [flushDue EXCEPT ![p] = FALSE]
    /\ batch' = [batch EXCEPT ![p] = {}]
    /\ unsent' = [unsent EXCEPT ![p] = {}]
    /\ timedOut' = [timedOut EXCEPT ![p] = FALSE]

Exit(p) ==
    /\ life[p] = "stopping"
    /\ pc[p] = "idle"
    /\ Vanish(p)
    /\ UNCHANGED <<dbVars, natsVars, boundVars>>

Crash(p) ==
    /\ life[p] = "up"
    /\ crashes < MaxCrashes
    /\ crashes' = crashes + 1
    /\ Vanish(p)
    /\ UNCHANGED <<dbVars, natsVars, faults>>

\* A process starts and kicks at bootstrap.
Restart(p) ==
    /\ life[p] = "down"
    /\ life' = [life EXCEPT ![p] = "up"]
    /\ pc' = [pc EXCEPT ![p] = "select"]
    /\ UNCHANGED <<dbVars, natsVars, again, batch, unsent, timedOut, flushDue, boundVars>>

\* duplicate_window passes.
WindowPasses ==
    /\ windows < MaxWindows
    /\ windows' = windows + 1
    /\ window' = {}
    /\ UNCHANGED <<dbVars, stored, life, loopVars, flushDue, boundVars>>

-----------------------------------------------------------------------------

Relay(p) ==
    \/ Flush(p) \/ Tick(p) \/ Select(p) \/ SelectFails(p)
    \/ \E i \in Ids : Send(p, i) \/ SendFails(p, i)
    \/ TransactionTimesOut(p) \/ Delete(p) \/ DeleteFails(p) \/ Done(p)

Next ==
    \/ \E p \in Procs : Relay(p) \/ Shutdown(p) \/ Exit(p) \/ Crash(p) \/ Restart(p)
    \/ \E p \in Procs, i \in Ids : Commit(p, i)
    \/ WindowPasses

Spec == Init /\ [][Next]_vars

\* The event loop runs what is ready, the interval fires, publish answers or
\* fails, and a process that ended is started again.
Fairness ==
    \A p \in Procs :
        /\ WF_vars(Tick(p)) /\ WF_vars(Select(p)) /\ WF_vars(\E i \in Ids : Send(p, i))
        /\ WF_vars(Delete(p)) /\ WF_vars(Done(p)) /\ WF_vars(Exit(p)) /\ WF_vars(Restart(p))

FairSpec == Spec /\ Fairness

-----------------------------------------------------------------------------
(* Properties *)

\* Events are "published if and only if the change commits" (outbox.ts:88):
\* what committed is still in the outbox or in the stream, through failed
\* drains, timeouts and crashes, and nothing else ever was.
PublishedIffCommitted == committed = rows \cup Delivered

\* A message is stored once per duplicate window it is sent in, however many
\* processes send it ("JetStream drops the duplicates", outbox.ts:17).
StoredOncePerWindow == \A i \in Ids : stored[i] <= 1 + windows

\* An event that committed is published and leaves the outbox.
EveryEventIsDelivered == \A i \in Ids : i \in committed ~> i \in Delivered \ rows

Delivery == INSTANCE EventDelivery WITH Events <- Ids, pending <- rows, delivered <- Delivered
\* The relay keeps the promise of EventDelivery to the writers.
ImplementsDelivery == Delivery!Spec
=============================================================================
