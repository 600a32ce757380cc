--------------------------- MODULE EventConsumer ----------------------------
(***************************************************************************)
(* Events of the stream SYSTEM and the durable consumers of core           *)
(* (packages/ts-common nats and audit): the audit trail of every service   *)
(* and the system fields of a new tenant.  The server delivers an event    *)
(* again until it is answered, MaxDeliver times; a process holds what it   *)
(* was given and handles one event of each consumer at a time.  A process  *)
(* here stands for one of core or of the service that writes.              *)
(***************************************************************************)
EXTENDS Naturals, FiniteSets

CONSTANTS Procs,
          Entries,   \* audited writes of other services
          Own,       \* audited writes of core: no event, the sink writes to the database
          Tenants,   \* tenants that are created
          MaxDeliver,
          MaxWrites, \* bound: writes
          MaxFaults  \* bound: failing calls and crashes

ASSUME EventConsumerAssumption ==
    /\ MaxDeliver \in Nat \ {0} /\ MaxWrites \in Nat /\ MaxFaults \in Nat
    /\ Own \cap (Entries \cup Tenants) = {} /\ Entries \cap Tenants = {}

Events == Entries \cup Own \cup Tenants

VARIABLES stream,    \* the server: where an event is, and how often it was delivered
          held,      \* deliveries a process has not answered
          writing,   \* writes of a process whose event or entry is still to come
          written,   \* writes that are committed
          up,
          kept,      \* events with their row: the entry in audit_log, the definitions of the tenant
          dead,      \* events published on oe.system.dead_letter
          faults,
          lost       \* ghost: never published, or held at their last delivery by a process that died

procVars == <<held, writing, up>>
vars == <<stream, procVars, written, kept, dead, faults, lost>>

Delivery == [e : Events \ Own, n : 1..MaxDeliver, at : {"wait", "run", "ack", "bury", "term"}]

\* Every variable has its shape.
TypeOK ==
    /\ stream \in [Events -> [at : {"none", "ready", "pending", "spent", "acked", "termed"}, n : 0..MaxDeliver]]
    /\ held \in [Procs -> SUBSET Delivery]
    /\ writing \in [Procs -> SUBSET Events]
    /\ written \subseteq Events /\ kept \subseteq Events /\ dead \subseteq Events
    /\ up \in [Procs -> BOOLEAN] /\ faults \in 0..MaxFaults
    /\ lost \subseteq Events

Init ==
    /\ stream = [e \in Events |-> [at |-> "none", n |-> 0]]
    /\ held = [p \in Procs |-> {}] /\ writing = [p \in Procs |-> {}]
    /\ written = {} /\ up = [p \in Procs |-> TRUE]
    /\ kept = {} /\ dead = {} /\ faults = 0
    /\ lost = {}

Fault == faults < MaxFaults /\ faults' = faults + 1

\* The process ends, with all it holds: nothing catches the rejection of a promise nobody awaits.
Die(p, sent) ==
    /\ up' = [up EXCEPT ![p] = FALSE]
    /\ held' = [held EXCEPT ![p] = {}] /\ writing' = [writing EXCEPT ![p] = {}]
    /\ lost' = lost \cup (writing[p] \ sent) \cup {d.e : d \in {x \in held[p] : x.n = MaxDeliver}}

-----------------------------------------------------------------------------
(* Writes and their events *)

\* A write commits: its response goes out and its entry is recorded, or the tenant is announced.
Write(p, e) ==
    /\ up[p] /\ e \notin written /\ Cardinality(written) < MaxWrites
    /\ written' = written \cup {e}
    /\ writing' = [writing EXCEPT ![p] = @ \cup {e}]
    /\ UNCHANGED <<stream, held, up, kept, dead, faults, lost>>

\* publish: one message per envelope id.
Publish(p, e) ==
    /\ e \in writing[p] \ Own
    /\ stream' = [stream EXCEPT ![e].at = "ready"]
    /\ writing' = [writing EXCEPT ![p] = @ \ {e}]
    /\ UNCHANGED <<held, written, up, kept, dead, faults, lost>>

\* PostgresAuditSink: the entry of core's own write.
Record(p, e) ==
    /\ e \in writing[p] \cap Own
    /\ kept' = kept \cup {e}
    /\ writing' = [writing EXCEPT ![p] = @ \ {e}]
    /\ UNCHANGED <<stream, held, written, up, dead, faults, lost>>

\* Either fails, whether it was done or not.  The request of a tenant answers with an
\* error; nobody awaits the record of an entry.
AnnounceFails(p, e) ==
    /\ e \in writing[p] /\ Fault
    /\ \E done \in BOOLEAN :
         LET sent == IF done THEN {e} ELSE {} IN
         /\ stream' = IF e \in Own THEN stream ELSE [stream EXCEPT ![e].at = IF done THEN "ready" ELSE @]
         /\ kept' = IF e \in Own THEN kept \cup sent ELSE kept
         /\ IF e \in Tenants
            THEN /\ writing' = [writing EXCEPT ![p] = @ \ {e}]
                 /\ lost' = lost \cup ({e} \ sent)
                 /\ UNCHANGED <<held, up>>
            ELSE Die(p, sent)
    /\ UNCHANGED <<written, dead>>

-----------------------------------------------------------------------------
(* The server *)

Deliver(p, e) ==
    /\ up[p] /\ stream[e].at = "ready"
    /\ stream' = [stream EXCEPT ![e] = [at |-> "pending", n |-> @.n + 1]]
    /\ held' = [held EXCEPT ![p] = @ \cup {[e |-> e, n |-> stream[e].n + 1, at |-> "wait"]}]
    /\ UNCHANGED <<writing, written, up, kept, dead, faults, lost>>

\* An event that was not answered, or answered with nak, is delivered again, MaxDeliver times in all.
Requeued(e) ==
    IF stream[e].at = "pending"
    THEN [stream EXCEPT ![e].at = IF stream[e].n < MaxDeliver THEN "ready" ELSE "spent"]
    ELSE stream

\* ack_wait is over, whoever has the event.
Expire(e) ==
    /\ stream[e].at = "pending" /\ stream' = Requeued(e)
    /\ UNCHANGED <<procVars, written, kept, dead, faults, lost>>

-----------------------------------------------------------------------------
(* The loop of a consumer *)

SameConsumer(e, f) == (e \in Tenants) = (f \in Tenants)

To(p, d, stage) == held' = [held EXCEPT ![p] = (@ \ {d}) \cup {[d EXCEPT !.at = stage]}]

Drop(p, d) == held' = [held EXCEPT ![p] = @ \ {d}]

\* for await: the next message, when the one before it was answered.
Take(p, d) ==
    /\ d.at = "wait" /\ \A x \in held[p] : SameConsumer(x.e, d.e) => x.at = "wait"
    /\ To(p, d, "run")
    /\ UNCHANGED <<stream, writing, written, up, kept, dead, faults, lost>>

\* Faulty variants of Exhausted: one delivery too many, and one too few.
ExhaustedLate(n) == n > MaxDeliver
ExhaustedEarly(n) == n + 1 >= MaxDeliver

\* The last delivery.
Exhausted(n) == n >= MaxDeliver

Catch(p, d) ==
    IF Exhausted(d.n) THEN To(p, d, "bury") /\ UNCHANGED stream
    ELSE Drop(p, d) /\ stream' = Requeued(d.e)

\* The handler: the row is there, also when it was before (isUniqueConstraintViolation, skipDuplicates).
Handle(p, d) ==
    /\ d.at = "run" /\ To(p, d, "ack")
    /\ kept' = kept \cup {d.e}
    /\ UNCHANGED <<stream, writing, written, up, dead, faults, lost>>

\* The handler throws, after its row was committed or not.
HandleFails(p, d) ==
    /\ d.at = "run" /\ Fault /\ Catch(p, d)
    /\ kept' = kept \cup {d.e} \/ UNCHANGED kept
    /\ UNCHANGED <<writing, written, up, dead, lost>>

Ack(p, d) ==
    /\ d.at = "ack" /\ Drop(p, d)
    /\ stream' = [stream EXCEPT ![d.e].at = "acked"]
    /\ UNCHANGED <<writing, written, up, kept, dead, faults, lost>>

\* deadLetter, and the answer after it.
Bury(p, d) ==
    /\ d.at = "bury" /\ To(p, d, "term")
    /\ dead' = dead \cup {d.e}
    /\ UNCHANGED <<stream, writing, written, up, kept, faults, lost>>

\* Faulty variant of BuryFails: the failure is caught and the message answered.
BuryFailsQuietly(p, d) ==
    /\ d.at = "bury" /\ Fault /\ To(p, d, "term")
    /\ UNCHANGED <<stream, writing, written, up, kept, dead, lost>>

\* Publishing the dead letter rejects the promise of the loop.
BuryFails(p, d) ==
    /\ d.at = "bury" /\ Fault /\ Die(p, {})
    /\ \/ dead' = dead \cup {d.e} \/ UNCHANGED dead
    /\ UNCHANGED <<stream, written, kept>>

Term(p, d) ==
    /\ d.at = "term" /\ Drop(p, d)
    /\ stream' = [stream EXCEPT ![d.e].at = IF @ = "acked" THEN @ ELSE "termed"]
    /\ UNCHANGED <<writing, written, up, kept, dead, faults, lost>>

-----------------------------------------------------------------------------
(* Processes *)

\* A crash, or a stop: the messages the process was given are dropped.
Crash(p) ==
    /\ up[p] /\ Fault /\ Die(p, {})
    /\ UNCHANGED <<stream, written, kept, dead>>

\* attach: the durable consumer is there already.
Restart(p) ==
    /\ ~up[p] /\ up' = [up EXCEPT ![p] = TRUE]
    /\ UNCHANGED <<stream, held, writing, written, kept, dead, faults, lost>>

Loop(p, d) == Take(p, d) \/ Handle(p, d) \/ Ack(p, d) \/ Bury(p, d) \/ Term(p, d)

Next ==
    \/ \E p \in Procs, e \in Events : Write(p, e) \/ Publish(p, e) \/ Record(p, e) \/ AnnounceFails(p, e) \/ Deliver(p, e)
    \/ \E e \in Events : Expire(e)
    \/ \E p \in Procs : \/ \E d \in held[p] : Loop(p, d) \/ HandleFails(p, d) \/ BuryFails(p, d)
                        \/ Crash(p) \/ Restart(p)

Spec == Init /\ [][Next]_vars

\* A process runs what it can and is started again; the server delivers and expires.
Fairness ==
    /\ \A p \in Procs : /\ WF_vars(\E d \in held[p] : Loop(p, d)) /\ WF_vars(Restart(p))
                        /\ WF_vars(\E e \in Events : Publish(p, e) \/ Record(p, e))
    /\ \A e \in Events : WF_vars(\E p \in Procs : Deliver(p, e)) /\ WF_vars(Expire(e))

FairSpec == Spec /\ Fairness

-----------------------------------------------------------------------------
(* Properties *)

\* What was written has its entry, or the tenant its fields, or the event is a dead letter in
\* the end: unless it was never announced, or the process that held its last delivery died
\* (loop, consumer.explorer.ts:117).
EveryEventLands == \A e \in Events : (e \in written) ~> (e \in kept \cup dead \cup lost)

\* The server forgets an event only when it is recorded, or buried: also when publishing the
\* dead letter fails (deadLetter, consumer.explorer.ts:118).
AnsweredIsKept ==
    \A e \in Events : /\ stream[e].at = "acked" => e \in kept
                      /\ stream[e].at = "termed" => e \in dead

Tries == [e \in Events |-> stream[e].n]
Answered == {e \in Events : stream[e].at \in {"acked", "termed"}}

Handling == INSTANCE EventHandling WITH tries <- Tries, answered <- Answered
\* An event has its row after a delivery, a dead letter after the last one only, and is not
\* delivered once it was answered, which is for good: also when a late process answers or
\* returns what another one has by now (loop, consumer.explorer.ts:109 to 126).
ImplementsHandling == Handling!Spec
=============================================================================
