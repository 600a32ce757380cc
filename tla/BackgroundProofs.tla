------------------------- MODULE BackgroundProofs --------------------------
(***************************************************************************)
(* Theorems about what core does in the background, EventConsumer and      *)
(* GdprRequests, for any number of processes, events, deliveries, requests *)
(* and faults.                                                             *)
(***************************************************************************)
EXTENDS MCBackground, SequenceTheorems, TLAPS

-----------------------------------------------------------------------------
(* Events: EventConsumer *)

\* Only an event that was published is delivered, and only a written one is about
\* to be, by one process; a delivery that is ready is not the last one too many.
StreamInv ==
    /\ \A p \in Procs : writing[p] \subseteq written
    /\ \A p, q \in Procs : p # q => writing[p] \cap writing[q] = {}
    /\ \A p \in Procs, e \in Events : e \in writing[p] => stream[e] = [at |-> "none", n |-> 0]
    /\ \A e \in Events : e \notin written \/ e \in Own => stream[e] = [at |-> "none", n |-> 0]
    /\ \A e \in Events : stream[e].at = "ready" => stream[e].n < MaxDeliver

\* What a process is about to answer is recorded, or buried.
LoopInv ==
    \A p \in Procs : \A d \in held[p] : /\ d.at = "ack" => d.e \in kept
                                        /\ d.at = "term" => d.e \in dead

\* A process holds only events that were published.
HeldInv == \A p \in Procs : \A d \in held[p] : stream[d.e].at # "none"

\* What was published stays published.
StayPublished == \A e \in Events : stream[e].at # "none" => stream'[e].at # "none"

TypeInv == TypeOK /\ StreamInv /\ HeldInv

-----------------------------------------------------------------------------
(* Types *)

StreamState == [at : {"none", "ready", "pending", "spent", "acked", "termed"}, n : 0..MaxDeliver]

LEMMA InitType == Init => TypeInv
BY EventConsumerAssumption DEF Init, TypeInv, TypeOK, StreamInv, HeldInv

\* An event keeps its deliveries when only its place changes.
LEMMA MovedType ==
    ASSUME NEW x \in StreamState,
           NEW a \in {"none", "ready", "pending", "spent", "acked", "termed"}
    PROVE  [x EXCEPT !.at = a] \in StreamState /\ [x EXCEPT !.at = a].at = a /\ [x EXCEPT !.at = a].n = x.n
BY DEF StreamState

\* Expire and nak put an event back only while deliveries are left.
LEMMA RequeuedType ==
    ASSUME TypeInv, NEW e \in Events, stream' = Requeued(e), UNCHANGED <<writing, written>>
    PROVE  stream' \in [Events -> StreamState] /\ StreamInv' /\ StayPublished
<1>1. CASE stream[e].at # "pending"
  BY <1>1 DEF Requeued, TypeInv, TypeOK, StreamInv, StreamState, StayPublished
<1>2. CASE stream[e].at = "pending"
  <2> DEFINE a == IF stream[e].n < MaxDeliver THEN "ready" ELSE "spent"
             x == [stream[e] EXCEPT !.at = a]
  <2>1. stream' = [stream EXCEPT ![e] = x]
    BY <1>2 DEF Requeued
  <2>2. x \in StreamState /\ x.at = a /\ x.n = stream[e].n
    BY MovedType DEF TypeInv, TypeOK, StreamState
  <2>3. e \in written /\ e \notin Own /\ \A p \in Procs : e \notin writing[p]
    BY <1>2 DEF TypeInv, StreamInv
  <2>4. x.at # "none" /\ (x.at = "ready" => x.n < MaxDeliver)
    BY <2>2
  <2> HIDE DEF x, a
  <2>5. stream' \in [Events -> StreamState]
    BY <2>1, <2>2 DEF TypeInv, TypeOK, StreamState
  <2> QED BY <2>1, <2>3, <2>4, <2>5 DEF TypeInv, TypeOK, StreamInv, StayPublished
<1> QED BY <1>1, <1>2

LEMMA DieTypes ==
    ASSUME TypeInv, NEW p \in Procs, NEW sent, Die(p, sent)
    PROVE  /\ up' \in [Procs -> BOOLEAN] /\ held' \in [Procs -> SUBSET Delivery]
           /\ writing' \in [Procs -> SUBSET Events] /\ lost' \subseteq Events
           /\ \A q \in Procs : writing'[q] \subseteq writing[q] /\ held'[q] \subseteq held[q]
           /\ writing'[p] = {}
<1>1. \A d \in held[p] : d.e \in Events
  BY DEF TypeInv, TypeOK, Delivery
<1> QED BY <1>1 DEF TypeInv, TypeOK, Die

\* Every event keeps its state, except e, which was written and goes where it was not ready.
LEMMA StreamStep ==
    ASSUME TypeInv, NEW e \in Events \ Own, NEW s \in StreamState, e \in written,
           stream' = [stream EXCEPT ![e] = s], s.at # "none", s.at = "ready" => s.n < MaxDeliver,
           \A p \in Procs : e \notin writing'[p] /\ writing'[p] \subseteq writing[p],
           UNCHANGED written
    PROVE  stream' \in [Events -> StreamState] /\ StreamInv' /\ StayPublished
<1>1. stream' \in [Events -> StreamState]
  BY DEF TypeInv, TypeOK, StreamState
<1> QED BY <1>1 DEF TypeInv, TypeOK, StreamInv, StayPublished

\* Announced events leave writing, the others keep their stream.
LEMMA StreamKept ==
    ASSUME TypeInv, UNCHANGED <<stream, written>>,
           \A p \in Procs : writing'[p] \subseteq writing[p]
    PROVE  stream' \in [Events -> StreamState] /\ StreamInv' /\ StayPublished
BY DEF TypeInv, TypeOK, StreamInv, StreamState, StayPublished

\* Deliveries only of events that are held already, or of one that was published.
LEMMA HeldStep ==
    ASSUME TypeInv, StayPublished, held' \in [Procs -> SUBSET Delivery],
           \A q \in Procs : \A x \in held'[q] : \/ \E p \in Procs : \E y \in held[p] : x.e = y.e
                                                \/ stream'[x.e].at # "none"
    PROVE  HeldInv'
<1> SUFFICES ASSUME NEW q \in Procs, NEW x \in held'[q], NEW p \in Procs, NEW y \in held[p], x.e = y.e
             PROVE  stream'[x.e].at # "none"
  BY DEF HeldInv
<1>1. x.e \in Events
  BY DEF Delivery
<1> QED BY <1>1 DEF TypeInv, HeldInv, StayPublished

\* The stages of a delivery.
LEMMA ToType ==
    ASSUME TypeInv, NEW p \in Procs, NEW d \in held[p], NEW stage \in {"run", "ack", "bury", "term"},
           To(p, d, stage)
    PROVE  /\ held' \in [Procs -> SUBSET Delivery] /\ d \in Delivery
           /\ \A q \in Procs : \A x \in held'[q] :
                 x \in held[q] \/ (x.e = d.e /\ x.n = d.n /\ x.at = stage)
<1> DEFINE new == [d EXCEPT !.at = stage]
<1>1. d \in Delivery
  BY DEF TypeInv, TypeOK
<1>2. new \in Delivery /\ new.e = d.e /\ new.n = d.n /\ new.at = stage
  BY <1>1 DEF Delivery
<1>3. held' = [held EXCEPT ![p] = (held[p] \ {d}) \cup {new}]
  BY DEF To
<1> HIDE DEF new
<1> QED BY <1>1, <1>2, <1>3 DEF TypeInv, TypeOK

LEMMA DropType ==
    ASSUME TypeInv, NEW p \in Procs, NEW d \in held[p], Drop(p, d)
    PROVE  /\ held' \in [Procs -> SUBSET Delivery] /\ d \in Delivery
           /\ \A q \in Procs : held'[q] \subseteq held[q]
BY DEF TypeInv, TypeOK, Drop

LEMMA FaultType == ASSUME TypeInv, Fault PROVE faults' \in 0..MaxFaults
BY EventConsumerAssumption DEF TypeInv, TypeOK, Fault

LEMMA NextType == TypeInv /\ [Next]_vars => TypeInv'
<1> SUFFICES ASSUME TypeInv, [Next]_vars PROVE TypeInv'
  OBVIOUS
<1> USE DEF procVars
<1>0. stream \in [Events -> StreamState] /\ TypeOK /\ HeldInv
  BY DEF TypeInv, TypeOK, StreamState
<1>1. CASE UNCHANGED vars
  BY <1>1 DEF vars, TypeInv, TypeOK, StreamInv, HeldInv
<1>2. ASSUME NEW p \in Procs, NEW e \in Events, Write(p, e) PROVE TypeInv'
  <2>1. writing' \in [Procs -> SUBSET Events] /\ written' \subseteq Events
    BY <1>0, <1>2 DEF TypeOK, Write
  <2>2. StreamInv'
    BY <1>0, <1>2 DEF TypeInv, TypeOK, StreamInv, Write
  <2>3. HeldInv'
    BY <1>0, <1>2 DEF HeldInv, Write
  <2> QED BY <1>0, <1>2, <2>1, <2>2, <2>3 DEF TypeInv, TypeOK, Write
<1>3. ASSUME NEW p \in Procs, NEW e \in Events, Publish(p, e) PROVE TypeInv'
  <2> DEFINE s == [stream[e] EXCEPT !.at = "ready"]
  <2>1. e \in Events \ Own /\ e \in written /\ stream[e].n = 0
    BY <1>0, <1>3 DEF TypeInv, StreamInv, Publish
  <2>2. s \in StreamState /\ s.at = "ready" /\ s.n < MaxDeliver
    BY <1>0, <2>1, EventConsumerAssumption DEF StreamState
  <2>3. stream' = [stream EXCEPT ![e] = s]
    BY <1>3 DEF Publish
  <2>4. /\ writing' \in [Procs -> SUBSET Events]
        /\ \A q \in Procs : e \notin writing'[q] /\ writing'[q] \subseteq writing[q]
    BY <1>0, <1>3 DEF TypeInv, TypeOK, StreamInv, Publish
  <2> HIDE DEF s
  <2>5. stream' \in [Events -> StreamState] /\ StreamInv' /\ StayPublished
    BY <1>3, <2>1, <2>2, <2>3, <2>4, StreamStep DEF Publish
  <2>6. HeldInv'
    BY <1>0, <1>3, <2>5, HeldStep DEF TypeOK, Publish
  <2> QED BY <1>0, <1>3, <2>4, <2>5, <2>6 DEF TypeInv, TypeOK, StreamState, Publish
<1>4. ASSUME NEW p \in Procs, NEW e \in Events, Record(p, e) PROVE TypeInv'
  <2>1. writing' \in [Procs -> SUBSET Events] /\ \A q \in Procs : writing'[q] \subseteq writing[q]
    BY <1>0, <1>4 DEF TypeOK, Record
  <2>2. StreamInv'
    BY <1>4, <2>1, StreamKept DEF Record
  <2>3. HeldInv'
    BY <1>0, <1>4 DEF HeldInv, Record
  <2> QED BY <1>0, <1>4, <2>1, <2>2, <2>3 DEF TypeInv, TypeOK, Record
<1>5. ASSUME NEW p \in Procs, NEW e \in Events, AnnounceFails(p, e) PROVE TypeInv'
  <2>1. PICK done \in BOOLEAN :
          LET sent == IF done THEN {e} ELSE {} IN
          /\ stream' = IF e \in Own THEN stream ELSE [stream EXCEPT ![e].at = IF done THEN "ready" ELSE @]
          /\ kept' = IF e \in Own THEN kept \cup sent ELSE kept
          /\ IF e \in Tenants
             THEN /\ writing' = [writing EXCEPT ![p] = @ \ {e}]
                  /\ lost' = lost \cup ({e} \ sent)
                  /\ UNCHANGED <<held, up>>
             ELSE Die(p, sent)
    BY <1>5 DEF AnnounceFails
  <2> DEFINE sent == IF done THEN {e} ELSE {}
  <2>2. /\ e \in writing[p] /\ e \in written /\ stream[e] = [at |-> "none", n |-> 0]
        /\ UNCHANGED <<written, dead>>
    BY <1>0, <1>5 DEF AnnounceFails, TypeInv, StreamInv
  <2>3. /\ up' \in [Procs -> BOOLEAN] /\ held' \in [Procs -> SUBSET Delivery]
        /\ writing' \in [Procs -> SUBSET Events] /\ lost' \subseteq Events
        /\ \A q \in Procs : writing'[q] \subseteq writing[q]
        /\ e \notin writing'[p] /\ \A q \in Procs : held'[q] \subseteq held[q]
    <3>1. CASE e \in Tenants
      BY <1>0, <2>1, <3>1 DEF TypeOK
    <3>2. CASE e \notin Tenants
      BY <2>1, <3>2, DieTypes
    <3> QED BY <3>1, <3>2
  <2>4. \A q \in Procs : e \notin writing'[q]
    BY <2>2, <2>3 DEF TypeInv, StreamInv
  <2>5. stream' \in [Events -> StreamState] /\ StreamInv' /\ StayPublished
    <3>1. CASE e \in Own \/ ~done
      <4>1. stream' = stream
        BY <1>0, <2>1, <3>1 DEF StreamState
      <4> QED BY <2>2, <2>3, <4>1, StreamKept
    <3>2. CASE e \notin Own /\ done
      <4> DEFINE s == [stream[e] EXCEPT !.at = "ready"]
      <4>1. s \in StreamState /\ s.at = "ready" /\ s.n < MaxDeliver
        BY <1>0, <2>2, EventConsumerAssumption DEF StreamState
      <4>2. stream' = [stream EXCEPT ![e] = s]
        BY <2>1, <3>2
      <4> HIDE DEF s
      <4> QED BY <2>2, <2>3, <2>4, <3>2, <4>1, <4>2, StreamStep
    <3> QED BY <3>1, <3>2
  <2>6. kept' \subseteq Events /\ faults' \in 0..MaxFaults
    BY <1>0, <1>5, <2>1, FaultType DEF TypeOK, AnnounceFails
  <2>7. HeldInv'
    BY <2>3, <2>5, HeldStep
  <2> QED BY <1>0, <2>2, <2>3, <2>5, <2>6, <2>7 DEF TypeInv, TypeOK, StreamState
<1>6. ASSUME NEW p \in Procs, NEW e \in Events, Deliver(p, e) PROVE TypeInv'
  <2> DEFINE s == [at |-> "pending", n |-> stream[e].n + 1]
             d == [e |-> e, n |-> stream[e].n + 1, at |-> "wait"]
  <2>1. e \in Events \ Own /\ e \in written /\ \A q \in Procs : e \notin writing[q]
    BY <1>0, <1>6 DEF TypeInv, StreamInv, Deliver
  <2>2. stream[e].n + 1 \in 1..MaxDeliver
    BY <1>0, <1>6, EventConsumerAssumption DEF TypeInv, StreamInv, StreamState, Deliver
  <2>3. s \in StreamState /\ s.at = "pending" /\ d \in Delivery /\ d.e = e
    BY <2>1, <2>2, EventConsumerAssumption DEF StreamState, Delivery
  <2>4. stream' = [stream EXCEPT ![e] = s] /\ held' = [held EXCEPT ![p] = held[p] \cup {d}]
    BY <1>0, <1>6 DEF Deliver
  <2> HIDE DEF s, d
  <2>5. stream' \in [Events -> StreamState] /\ StreamInv' /\ StayPublished
    BY <1>6, <2>1, <2>3, <2>4, StreamStep DEF Deliver
  <2>6. held' \in [Procs -> SUBSET Delivery]
    BY <1>0, <2>3, <2>4 DEF TypeOK
  <2>7. \A q \in Procs : \A x \in held'[q] : x \in held[q] \/ stream'[x.e].at # "none"
    BY <1>0, <2>1, <2>3, <2>4 DEF TypeOK
  <2>8. HeldInv'
    BY <2>5, <2>6, <2>7, HeldStep
  <2> QED BY <1>0, <1>6, <2>5, <2>6, <2>8 DEF TypeInv, TypeOK, StreamState, Deliver
<1>7. ASSUME NEW e \in Events, Expire(e) PROVE TypeInv'
  <2>1. stream' \in [Events -> StreamState] /\ StreamInv' /\ StayPublished
    BY <1>7, RequeuedType DEF Expire
  <2>2. HeldInv'
    BY <1>0, <1>7, <2>1, HeldStep DEF TypeOK, Expire
  <2> QED BY <1>0, <1>7, <2>1, <2>2 DEF TypeInv, TypeOK, StreamState, Expire
<1>8. ASSUME NEW p \in Procs, NEW d \in held[p], Take(p, d) \/ Handle(p, d) \/ Bury(p, d) PROVE TypeInv'
  <2>1. PICK stage \in {"run", "ack", "term"} : To(p, d, stage)
    BY <1>8 DEF Take, Handle, Bury
  <2>2. /\ held' \in [Procs -> SUBSET Delivery] /\ d.e \in Events
        /\ \A q \in Procs : \A x \in held'[q] : x \in held[q] \/ x.e = d.e
    BY <2>1, ToType DEF Delivery
  <2>3. StreamInv' /\ StayPublished
    BY <1>8, StreamKept DEF Take, Handle, Bury, StayPublished
  <2>4. HeldInv'
    BY <1>0, <2>2, <2>3 DEF HeldInv, StayPublished, TypeOK, Delivery
  <2> QED BY <1>0, <1>8, <2>2, <2>3, <2>4 DEF TypeInv, TypeOK, Take, Handle, Bury
<1>9. ASSUME NEW p \in Procs, NEW d \in held[p], Ack(p, d) \/ Term(p, d) PROVE TypeInv'
  <2>1. /\ held' \in [Procs -> SUBSET Delivery] /\ d \in Delivery
        /\ \A q \in Procs : held'[q] \subseteq held[q]
    BY <1>9, DropType DEF Ack, Term
  <2>2. d.e \in Events \ Own /\ d.e \in written /\ \A q \in Procs : d.e \notin writing[q]
    <3>1. d.e \in Events \ Own /\ stream[d.e].at # "none"
      BY <1>0, <2>1 DEF Delivery, HeldInv
    <3> QED BY <3>1 DEF TypeInv, StreamInv
  <2>3. PICK a \in {"acked", "termed"} : stream' = [stream EXCEPT ![d.e].at = a]
    BY <1>0, <1>9, <2>2 DEF Ack, Term, StreamState
  <2> DEFINE s == [stream[d.e] EXCEPT !.at = a]
  <2>4. s \in StreamState /\ s.at # "none" /\ s.at # "ready"
    BY <1>0, <2>2 DEF StreamState
  <2>5. stream' = [stream EXCEPT ![d.e] = s]
    BY <2>3
  <2> HIDE DEF s
  <2>6. UNCHANGED <<written, writing, up, kept, dead, faults, lost>>
    BY <1>9 DEF Ack, Term
  <2>7. stream' \in [Events -> StreamState] /\ StreamInv' /\ StayPublished
    BY <2>2, <2>4, <2>5, <2>6, StreamStep
  <2>8. HeldInv'
    BY <2>1, <2>7, HeldStep
  <2> QED BY <1>0, <2>1, <2>6, <2>7, <2>8 DEF TypeInv, TypeOK, StreamState
<1>10. ASSUME NEW p \in Procs, NEW d \in held[p], HandleFails(p, d) PROVE TypeInv'
  <2>1. UNCHANGED <<writing, written, up, dead, lost>> /\ faults' \in 0..MaxFaults
    BY <1>10, FaultType DEF HandleFails
  <2>2. d \in Delivery /\ d.e \in Events
    BY <1>0 DEF TypeOK, Delivery
  <2>3. kept' \subseteq Events
    BY <1>0, <1>10, <2>2 DEF TypeOK, HandleFails
  <2>4. /\ held' \in [Procs -> SUBSET Delivery]
        /\ \A q \in Procs : \A x \in held'[q] : \E r \in Procs : \E y \in held[r] : x.e = y.e
    <3>1. CASE To(p, d, "bury")
      <4>1. /\ held' \in [Procs -> SUBSET Delivery]
            /\ \A q \in Procs : \A x \in held'[q] : x \in held[q] \/ x.e = d.e
        BY <3>1, ToType
      <4> QED BY <4>1
    <3>2. CASE Drop(p, d)
      BY <3>2, DropType
    <3> QED BY <1>10, <3>1, <3>2 DEF HandleFails, Catch
  <2>5. stream' \in [Events -> StreamState] /\ StreamInv' /\ StayPublished
    <3>1. CASE stream' = Requeued(d.e)
      BY <2>1, <2>2, <3>1, RequeuedType
    <3>2. CASE UNCHANGED stream
      BY <2>1, <3>2, StreamKept DEF StayPublished
    <3> QED BY <1>10, <3>1, <3>2 DEF HandleFails, Catch
  <2>6. HeldInv'
    BY <2>4, <2>5, HeldStep
  <2> QED BY <1>0, <2>1, <2>3, <2>4, <2>5, <2>6 DEF TypeInv, TypeOK, StreamState
<1>11. ASSUME NEW p \in Procs, Die(p, {}), Fault, dead' \subseteq Events, UNCHANGED <<stream, written, kept>>
       PROVE  TypeInv'
  <2>1. /\ up' \in [Procs -> BOOLEAN] /\ held' \in [Procs -> SUBSET Delivery]
        /\ writing' \in [Procs -> SUBSET Events] /\ lost' \subseteq Events
        /\ \A q \in Procs : writing'[q] \subseteq writing[q] /\ held'[q] \subseteq held[q]
    BY <1>11, DieTypes
  <2>2. stream' \in [Events -> StreamState] /\ StreamInv' /\ StayPublished
    BY <1>11, <2>1, StreamKept DEF StayPublished
  <2>3. HeldInv'
    BY <2>1, <2>2, HeldStep
  <2>4. faults' \in 0..MaxFaults
    BY <1>11, FaultType
  <2> QED BY <1>0, <1>11, <2>1, <2>2, <2>3, <2>4 DEF TypeInv, TypeOK, StreamState
<1>12. ASSUME NEW p \in Procs, NEW d \in held[p], BuryFails(p, d) PROVE TypeInv'
  <2>1. d.e \in Events
    BY <1>0 DEF TypeOK, Delivery
  <2> QED BY <1>0, <1>11, <1>12, <2>1 DEF TypeOK, BuryFails
<1>13. ASSUME NEW p \in Procs, Crash(p) PROVE TypeInv'
  BY <1>0, <1>11, <1>13 DEF TypeOK, Crash
<1>14. ASSUME NEW p \in Procs, Restart(p) PROVE TypeInv'
  <2>1. up' \in [Procs -> BOOLEAN]
    BY <1>0, <1>14 DEF TypeOK, Restart
  <2>2. StreamInv' /\ HeldInv'
    BY <1>0, <1>14 DEF TypeInv, StreamInv, HeldInv, Restart
  <2> QED BY <1>0, <1>14, <2>1, <2>2 DEF TypeInv, TypeOK, Restart
<1> QED
  BY <1>1, <1>2, <1>3, <1>4, <1>5, <1>6, <1>7, <1>8, <1>9, <1>10, <1>12, <1>13, <1>14
  DEF Next, Loop

\* The type invariant of the consumers and of the server.
THEOREM TypeCorrect == Spec => []TypeOK
<1>1. TypeInv => TypeOK
  BY DEF TypeInv
<1> QED BY <1>1, InitType, NextType, PTL DEF Spec

-----------------------------------------------------------------------------
(* What the server forgets *)

AnswerInv == TypeInv /\ LoopInv /\ AnsweredIsKept

LEMMA InitAnswer == Init => AnswerInv
BY InitType DEF Init, AnswerInv, LoopInv, AnsweredIsKept

LEMMA NextAnswer == AnswerInv /\ [Next]_vars => AnswerInv'
<1> SUFFICES ASSUME AnswerInv, [Next]_vars PROVE LoopInv' /\ AnsweredIsKept'
  BY NextType DEF AnswerInv
<1> USE DEF procVars
<1>0. TypeInv /\ TypeOK /\ LoopInv /\ AnsweredIsKept
  BY DEF AnswerInv, TypeInv
<1>1. CASE UNCHANGED vars
  BY <1>0, <1>1 DEF vars, LoopInv, AnsweredIsKept
<1>2. ASSUME NEW p \in Procs, NEW e \in Events, Write(p, e) PROVE LoopInv' /\ AnsweredIsKept'
  BY <1>0, <1>2 DEF Write, LoopInv, AnsweredIsKept
<1>3. ASSUME NEW p \in Procs, NEW e \in Events, Publish(p, e) \/ Record(p, e) PROVE LoopInv' /\ AnsweredIsKept'
  BY <1>0, <1>3 DEF Publish, Record, LoopInv, AnsweredIsKept, TypeOK
<1>4. ASSUME NEW p \in Procs, NEW e \in Events, AnnounceFails(p, e) PROVE LoopInv' /\ AnsweredIsKept'
  <2>1. \A q \in Procs : held'[q] \subseteq held[q]
    <3>1. CASE e \in Tenants
      BY <1>4, <3>1 DEF AnnounceFails
    <3>2. CASE e \notin Tenants
      BY <1>0, <1>4, <3>2 DEF AnnounceFails, Die, TypeOK
    <3> QED BY <3>1, <3>2
  <2>2. kept \subseteq kept' /\ UNCHANGED dead
    BY <1>4 DEF AnnounceFails
  <2>3. \A f \in Events : stream'[f].at \in {"acked", "termed"} => stream'[f].at = stream[f].at
    BY <1>0, <1>4 DEF AnnounceFails, TypeOK
  <2> QED BY <1>0, <2>1, <2>2, <2>3 DEF LoopInv, AnsweredIsKept
<1>5. ASSUME NEW p \in Procs, NEW e \in Events, Deliver(p, e) PROVE LoopInv' /\ AnsweredIsKept'
  BY <1>0, <1>5 DEF Deliver, LoopInv, AnsweredIsKept, TypeOK
<1>6. ASSUME NEW e \in Events, stream' = Requeued(e)
      PROVE  \A f \in Events : stream'[f].at \in {"acked", "termed"} => stream'[f].at = stream[f].at
  BY <1>0, <1>6 DEF Requeued, TypeOK
<1>7. ASSUME NEW e \in Events, Expire(e) PROVE LoopInv' /\ AnsweredIsKept'
  BY <1>0, <1>6, <1>7 DEF Expire, LoopInv, AnsweredIsKept
<1>8. ASSUME NEW p \in Procs, NEW d \in held[p], Take(p, d) \/ Handle(p, d) \/ Bury(p, d)
      PROVE  LoopInv' /\ AnsweredIsKept'
  <2>1. kept \subseteq kept' /\ dead \subseteq dead' /\ UNCHANGED stream
    BY <1>8 DEF Take, Handle, Bury
  <2>2. PICK stage \in {"run", "ack", "term"} :
          /\ To(p, d, stage)
          /\ stage = "ack" => d.e \in kept'
          /\ stage = "term" => d.e \in dead'
    BY <1>8 DEF Take, Handle, Bury
  <2>3. \A q \in Procs : \A x \in held'[q] : x \in held[q] \/ (x.e = d.e /\ x.at = stage)
    BY <1>0, <2>2, ToType
  <2> QED BY <1>0, <2>1, <2>2, <2>3 DEF LoopInv, AnsweredIsKept
<1>9. ASSUME NEW p \in Procs, NEW d \in held[p], Ack(p, d) \/ Term(p, d) PROVE LoopInv' /\ AnsweredIsKept'
  <2>1. (\A q \in Procs : held'[q] \subseteq held[q]) /\ d.e \in Events
    BY <1>0, <1>9, DropType DEF Ack, Term, Delivery
  <2>2. UNCHANGED <<kept, dead>>
    BY <1>9 DEF Ack, Term
  <2>3. \A f \in Events : \/ stream'[f].at = stream[f].at
                          \/ f = d.e /\ stream'[f].at = "acked" /\ d.at = "ack"
                          \/ f = d.e /\ stream'[f].at = "termed" /\ d.at = "term"
    BY <1>0, <1>9, <2>1 DEF Ack, Term, TypeOK
  <2> QED BY <1>0, <2>1, <2>2, <2>3 DEF LoopInv, AnsweredIsKept
<1>10. ASSUME NEW p \in Procs, NEW d \in held[p], HandleFails(p, d) PROVE LoopInv' /\ AnsweredIsKept'
  <2>1. kept \subseteq kept' /\ UNCHANGED dead
    BY <1>10 DEF HandleFails
  <2>2. \A q \in Procs : \A x \in held'[q] : x \in held[q] \/ x.at = "bury"
    <3>1. CASE To(p, d, "bury")
      BY <1>0, <3>1, ToType
    <3>2. CASE Drop(p, d)
      BY <1>0, <3>2, DropType
    <3> QED BY <1>10, <3>1, <3>2 DEF HandleFails, Catch
  <2>3. d.e \in Events
    BY <1>0 DEF TypeOK, Delivery
  <2>4. \A f \in Events : stream'[f].at \in {"acked", "termed"} => stream'[f].at = stream[f].at
    BY <1>6, <1>10, <2>3 DEF HandleFails, Catch
  <2> QED BY <1>0, <2>1, <2>2, <2>4 DEF LoopInv, AnsweredIsKept
<1>11. ASSUME NEW p \in Procs, Die(p, {}), dead \subseteq dead', UNCHANGED <<stream, kept>>
       PROVE  LoopInv' /\ AnsweredIsKept'
  BY <1>0, <1>11, DieTypes DEF LoopInv, AnsweredIsKept
<1>12. ASSUME NEW p \in Procs, NEW d \in held[p], BuryFails(p, d) PROVE LoopInv' /\ AnsweredIsKept'
  BY <1>11, <1>12 DEF BuryFails
<1>13. ASSUME NEW p \in Procs, Crash(p) PROVE LoopInv' /\ AnsweredIsKept'
  BY <1>11, <1>13 DEF Crash
<1>14. ASSUME NEW p \in Procs, Restart(p) PROVE LoopInv' /\ AnsweredIsKept'
  BY <1>0, <1>14 DEF Restart, LoopInv, AnsweredIsKept
<1> QED
  BY <1>1, <1>2, <1>3, <1>4, <1>5, <1>7, <1>8, <1>9, <1>10, <1>12, <1>13, <1>14
  DEF Next, Loop

\* What the server no longer delivers is recorded or buried, whatever processes die,
\* handlers fail or deliveries are late (consumer.explorer.ts:118).
THEOREM AnsweredKept == Spec => []AnsweredIsKept
<1>1. AnswerInv => AnsweredIsKept
  BY DEF AnswerInv
<1> QED BY <1>1, InitAnswer, NextAnswer, PTL DEF Spec

-----------------------------------------------------------------------------
(* What a consumer promises *)

\* A delivery is one of those the server counted, and the last one if it is to be buried.
TriesInv ==
    \A p \in Procs : \A d \in held[p] : /\ d.n <= stream[d.e].n
                                        /\ d.at = "bury" => d.n = MaxDeliver

HandlingInv == AnswerInv /\ TriesInv

\* What a process holds was written, and delivered as often as its delivery says.
LEMMA HeldWasTried ==
    ASSUME HandlingInv, NEW p \in Procs, NEW d \in held[p]
    PROVE  /\ d.e \in written /\ d.e \in Events \ Own /\ stream[d.e] \in StreamState
           /\ d.n \in 1..MaxDeliver /\ d.n <= stream[d.e].n /\ stream[d.e].n <= MaxDeliver
           /\ d.at = "bury" => stream[d.e].n = MaxDeliver
<1>1. d \in Delivery /\ stream \in [Events -> StreamState] /\ d.n <= stream[d.e].n
      /\ stream[d.e].at # "none" /\ (d.at = "bury" => d.n = MaxDeliver)
  BY DEF HandlingInv, AnswerInv, TypeInv, TypeOK, HeldInv, TriesInv, StreamState
<1>2. d.e \in Events \ Own /\ d.n \in 1..MaxDeliver /\ stream[d.e].n \in 0..MaxDeliver
  BY <1>1 DEF Delivery, StreamState
<1>3. d.e \in written
  BY <1>1, <1>2 DEF HandlingInv, AnswerInv, TypeInv, StreamInv
<1> QED BY <1>1, <1>2, <1>3, EventConsumerAssumption

\* Expire and nak neither count a delivery nor take an answer back.
LEMMA RequeuedTries ==
    ASSUME TypeInv, NEW e \in Events, stream' = Requeued(e)
    PROVE  Tries' = Tries /\ Answered' = Answered
<1> DEFINE a == IF stream[e].n < MaxDeliver THEN "ready" ELSE "spent"
           x == [stream[e] EXCEPT !.at = a]
<1>1. CASE stream[e].at # "pending"
  BY <1>1 DEF Requeued, Tries, Answered
<1>2. CASE stream[e].at = "pending"
  <2>1. stream' = [stream EXCEPT ![e] = x]
    BY <1>2 DEF Requeued
  <2>2. x.at = a /\ x.n = stream[e].n /\ stream[e] \in StreamState
    BY MovedType DEF TypeInv, TypeOK, StreamState
  <2>3. a \notin {"acked", "termed"}
    OBVIOUS
  <2> HIDE DEF x, a
  <2>4. \A f \in Events : /\ stream'[f].n = stream[f].n
                           /\ stream'[f].at = IF f = e THEN a ELSE stream[f].at
    BY <2>1, <2>2 DEF TypeInv, TypeOK
  <2>5. Tries' = Tries
    BY <2>4 DEF Tries
  <2>6. Answered' = Answered
    BY <1>2, <2>3, <2>4 DEF Answered
  <2> QED BY <2>5, <2>6
<1> QED BY <1>1, <1>2

\* Where an event goes tells whether it is answered; its deliveries stay.
LEMMA MovedTries ==
    ASSUME TypeInv, NEW e \in Events, NEW a \in {"none", "ready", "pending", "spent", "acked", "termed"},
           stream' = [stream EXCEPT ![e].at = a]
    PROVE  /\ Tries' = Tries
           /\ Answered' = IF a \in {"acked", "termed"} THEN Answered \cup {e} ELSE Answered \ {e}
           /\ a \notin {"acked", "termed"} /\ e \notin Answered => Answered' = Answered
<1> DEFINE x == [stream[e] EXCEPT !.at = a]
<1>1. stream' = [stream EXCEPT ![e] = x]
  OBVIOUS
<1>2. x.at = a /\ x.n = stream[e].n /\ stream[e] \in StreamState
  BY MovedType DEF TypeInv, TypeOK, StreamState
<1> HIDE DEF x
<1>3. \A f \in Events : /\ stream'[f].n = stream[f].n
                         /\ stream'[f].at = IF f = e THEN a ELSE stream[f].at
  BY <1>1, <1>2 DEF TypeInv, TypeOK
<1>4. Tries' = Tries
  BY <1>3 DEF Tries
<1>5. Answered' = IF a \in {"acked", "termed"} THEN Answered \cup {e} ELSE Answered \ {e}
  BY <1>3 DEF Answered
<1> QED BY <1>4, <1>5

\* Deliveries are held with the number they had, and buried only after the last.
LEMMA TriesStep ==
    ASSUME HandlingInv, TypeInv', \A e \in Events : stream[e].n <= stream'[e].n,
           \A q \in Procs : \A x \in held'[q] :
              \/ x.at # "bury" /\ x.n <= stream'[x.e].n
              \/ \E d \in held[q] : x.e = d.e /\ x.n = d.n /\ (x.at = "bury" => d.n = MaxDeliver)
    PROVE  TriesInv'
<1> SUFFICES ASSUME NEW q \in Procs, NEW x \in held'[q]
             PROVE  x.n <= stream'[x.e].n /\ (x.at = "bury" => x.n = MaxDeliver)
  BY DEF TriesInv
<1>1. CASE x.at # "bury" /\ x.n <= stream'[x.e].n
  BY <1>1
<1>2. ASSUME NEW d \in held[q], x.e = d.e, x.n = d.n, x.at = "bury" => d.n = MaxDeliver
      PROVE  x.n <= stream'[x.e].n /\ (x.at = "bury" => x.n = MaxDeliver)
  <2>1. d.e \in Events /\ d.n \in Nat /\ stream[d.e].n \in Nat /\ d.n <= stream[d.e].n
    BY HeldWasTried, EventConsumerAssumption DEF StreamState
  <2>2. stream'[d.e].n \in Nat
    BY <2>1, EventConsumerAssumption DEF TypeInv, TypeOK
  <2> QED BY <1>2, <2>1, <2>2
<1> QED BY <1>1, <1>2

\* The deliveries a process keeps are in their places.
LEMMA HeldKeeps ==
    ASSUME HandlingInv, NEW q \in Procs, NEW x \in held[q]
    PROVE  x.at = "bury" => x.n = MaxDeliver
BY DEF HandlingInv, TriesInv

LEMMA TriesDrop ==
    ASSUME HandlingInv, TypeInv', \A e \in Events : stream[e].n <= stream'[e].n,
           \A q \in Procs : held'[q] \subseteq held[q]
    PROVE  TriesInv'
BY TriesStep, HeldKeeps

LEMMA TriesTo ==
    ASSUME HandlingInv, TypeInv', \A e \in Events : stream[e].n <= stream'[e].n,
           NEW p \in Procs, NEW d \in held[p], NEW stage \in {"run", "ack", "bury", "term"}, To(p, d, stage),
           stage = "bury" => d.n = MaxDeliver
    PROVE  TriesInv'
<1>1. \A q \in Procs : \A x \in held'[q] : x \in held[q] \/ (x.e = d.e /\ x.n = d.n /\ x.at = stage)
  BY ToType DEF HandlingInv, AnswerInv
<1>2. held'[p] = (held[p] \ {d}) \cup {[d EXCEPT !.at = stage]} /\ \A q \in Procs : q # p => held'[q] = held[q]
  BY DEF To, HandlingInv, AnswerInv, TypeInv, TypeOK
<1>3. \A q \in Procs : \A x \in held'[q] :
        \E y \in held[q] : x.e = y.e /\ x.n = y.n /\ (x.at = "bury" => y.n = MaxDeliver)
  BY <1>1, <1>2, HeldKeeps
<1> QED BY <1>3, TriesStep

LEMMA SameTries ==
    ASSUME TypeInv, Tries' = Tries
    PROVE  \A e \in Events : stream[e].n <= stream'[e].n
<1>1. \A e \in Events : stream[e].n \in Nat /\ Tries[e] = stream[e].n /\ Tries'[e] = stream'[e].n
  BY EventConsumerAssumption DEF Tries, TypeInv, TypeOK
<1> QED BY <1>1

Unhandled == UNCHANGED <<written, Tries, kept, dead, Answered>>

\* Every step of EventConsumer is one of EventHandling, or none.
Handles ==
    Unhandled \/ \E e \in Events : \/ Handling!Write(e) \/ Handling!Try(e) \/ Handling!Keep(e)
                                   \/ Handling!Bury(e) \/ Handling!Answer(e)

LEMMA KeepOrNot ==
    ASSUME HandlingInv, NEW e \in written, e \in Events, e \in Own \/ Tries[e] > 0,
           kept' = kept \/ kept' = kept \cup {e}, UNCHANGED <<written, Tries, dead, Answered>>
    PROVE  Handles
BY DEF Handles, Unhandled, Handling!Keep

LEMMA AnnounceHandles ==
    ASSUME HandlingInv, TypeInv', NEW p \in Procs, NEW e \in Events, AnnounceFails(p, e)
    PROVE  Handles /\ TriesInv'
<1>0. TypeInv /\ TypeOK /\ e \in written /\ stream[e].at = "none"
  BY DEF HandlingInv, AnswerInv, TypeInv, TypeOK, StreamInv, AnnounceFails
<1>1. UNCHANGED <<written, dead>>
  BY DEF AnnounceFails
<1>2. \A q \in Procs : held'[q] \subseteq held[q]
  <2>1. CASE e \in Tenants
    BY <2>1 DEF AnnounceFails
  <2>2. CASE e \notin Tenants
    BY <1>0, <2>2 DEF AnnounceFails, Die, TypeOK
  <2> QED BY <2>1, <2>2
<1>3. Tries' = Tries /\ Answered' = Answered
  <2>1. CASE e \in Own
    BY <2>1 DEF AnnounceFails, Tries, Answered
  <2>2. CASE e \notin Own
    <3>1. PICK a \in {"none", "ready"} : stream' = [stream EXCEPT ![e].at = a]
      <4>1. PICK done \in BOOLEAN : stream' = [stream EXCEPT ![e].at = IF done THEN "ready" ELSE @]
        BY <2>2 DEF AnnounceFails
      <4>2. CASE done
        BY <4>1, <4>2
      <4>3. CASE ~done
        BY <1>0, <4>1, <4>3
      <4> QED BY <4>2, <4>3
    <3>2. e \notin Answered
      BY <1>0 DEF Answered
    <3>3. a \notin {"acked", "termed"}
      OBVIOUS
    <3> QED BY <1>0, <3>1, <3>2, <3>3, MovedTries
  <2> QED BY <2>1, <2>2
<1>4. Handles
  <2>1. CASE e \in Own
    BY <1>0, <1>1, <1>3, <2>1, KeepOrNot DEF AnnounceFails
  <2>2. CASE e \notin Own
    BY <1>1, <1>3, <2>2 DEF AnnounceFails, Handles, Unhandled
  <2> QED BY <2>1, <2>2
<1> QED BY <1>0, <1>2, <1>3, <1>4, SameTries, TriesDrop

LEMMA DeliverHandles ==
    ASSUME HandlingInv, TypeInv', NEW p \in Procs, NEW e \in Events, Deliver(p, e)
    PROVE  Handles /\ TriesInv'
<1>0. TypeInv /\ TypeOK /\ e \in written \ Own /\ stream[e] \in StreamState /\ stream[e].n < MaxDeliver
  BY DEF HandlingInv, AnswerInv, TypeInv, TypeOK, StreamInv, StreamState, Deliver
<1> DEFINE x == [at |-> "pending", n |-> stream[e].n + 1]
<1>1. stream' = [stream EXCEPT ![e] = x]
  BY DEF Deliver
<1>2. \A f \in Events : stream'[f] = IF f = e THEN x ELSE stream[f]
  BY <1>0, <1>1 DEF TypeOK
<1>3. Tries' = [Tries EXCEPT ![e] = @ + 1] /\ Tries[e] < MaxDeliver
  <2>1. \A f \in Events : stream'[f].n = IF f = e THEN stream[e].n + 1 ELSE stream[f].n
    BY <1>2
  <2>2. Tries' = [f \in Events |-> IF f = e THEN stream[e].n + 1 ELSE stream[f].n]
    BY <2>1 DEF Tries
  <2>3. Tries[e] = stream[e].n
    BY DEF Tries
  <2> QED BY <1>0, <2>2, <2>3 DEF Tries
<1>4. e \notin Answered /\ Answered' = Answered
  BY <1>2 DEF Answered, Deliver
<1>5. Handles
  BY <1>0, <1>3, <1>4 DEF Handles, Handling!Try, Deliver
<1>6. \A f \in Events : stream[f].n <= stream'[f].n
  BY <1>0, <1>2, EventConsumerAssumption DEF TypeOK
<1>7. \A q \in Procs : \A d \in held'[q] : d \in held[q] \/ (d.e = e /\ d.n = stream[e].n + 1 /\ d.at = "wait")
  BY <1>0 DEF TypeOK, Deliver
<1>8. TriesInv'
  <2> SUFFICES ASSUME NEW q \in Procs, NEW d \in held'[q]
               PROVE  \/ d.at # "bury" /\ d.n <= stream'[d.e].n
                      \/ \E y \in held[q] : d.e = y.e /\ d.n = y.n /\ (d.at = "bury" => y.n = MaxDeliver)
    BY <1>6, TriesStep
  <2>1. CASE d \in held[q]
    BY <2>1, HeldKeeps
  <2>2. CASE d.e = e /\ d.n = stream[e].n + 1 /\ d.at = "wait"
    <3>1. stream'[d.e].n = stream[e].n + 1 /\ stream[e].n + 1 \in Nat
      BY <1>0, <1>2, <2>2 DEF StreamState
    <3> QED BY <2>2, <3>1
  <2> QED BY <1>7, <2>1, <2>2
<1> QED BY <1>5, <1>8

LEMMA FailedHandles ==
    ASSUME HandlingInv, TypeInv', NEW p \in Procs, NEW d \in held[p], HandleFails(p, d)
    PROVE  Handles /\ TriesInv'
<1>0. TypeInv /\ d.e \in written /\ d.e \in Events \ Own /\ d.n \in 1..MaxDeliver /\ Tries[d.e] > 0
  BY HeldWasTried, EventConsumerAssumption DEF HandlingInv, AnswerInv, Tries, StreamState
<1>1. CASE Exhausted(d.n)
  <2>1. To(p, d, "bury") /\ UNCHANGED stream /\ d.n = MaxDeliver
    BY <1>0, <1>1, EventConsumerAssumption DEF HandleFails, Catch, Exhausted
  <2>2. Tries' = Tries /\ Answered' = Answered
    BY <2>1 DEF Tries, Answered
  <2>3. Handles
    BY <1>0, <2>2, KeepOrNot DEF HandleFails
  <2> QED BY <1>0, <2>1, <2>2, <2>3, SameTries, TriesTo
<1>2. CASE ~Exhausted(d.n)
  <2>1. Drop(p, d) /\ stream' = Requeued(d.e)
    BY <1>2 DEF HandleFails, Catch
  <2>2. Tries' = Tries /\ Answered' = Answered
    BY <1>0, <2>1, RequeuedTries
  <2>3. Handles
    BY <1>0, <2>2, KeepOrNot DEF HandleFails
  <2>4. \A q \in Procs : held'[q] \subseteq held[q]
    BY <1>0, <2>1, DropType
  <2> QED BY <1>0, <2>2, <2>3, <2>4, SameTries, TriesDrop
<1> QED BY <1>1, <1>2

LEMMA LoopHandles ==
    ASSUME HandlingInv, TypeInv', NEW p \in Procs, NEW d \in held[p], Loop(p, d)
    PROVE  Handles /\ TriesInv'
<1>0. /\ TypeInv /\ TypeOK /\ d.e \in written /\ d.e \in Events \ Own /\ Tries[d.e] > 0
      /\ d.at = "bury" => Tries[d.e] = MaxDeliver
  BY HeldWasTried, EventConsumerAssumption DEF HandlingInv, AnswerInv, TypeInv, Tries, StreamState
<1>1. CASE Take(p, d) \/ Handle(p, d) \/ Bury(p, d)
  <2>1. Tries' = Tries /\ Answered' = Answered
    BY <1>1 DEF Take, Handle, Bury, Tries, Answered
  <2>2. PICK stage \in {"run", "ack", "term"} : To(p, d, stage)
    BY <1>1 DEF Take, Handle, Bury
  <2>3. TriesInv'
    BY <1>0, <2>1, <2>2, SameTries, TriesTo
  <2>4. CASE Take(p, d)
    BY <2>1, <2>3, <2>4 DEF Take, Handles, Unhandled
  <2>5. CASE Handle(p, d)
    BY <1>0, <2>1, <2>3, <2>5, KeepOrNot DEF Handle
  <2>6. CASE Bury(p, d)
    BY <1>0, <2>1, <2>3, <2>6 DEF Bury, Handles, Handling!Bury
  <2> QED BY <1>1, <2>4, <2>5, <2>6
<1>2. CASE Ack(p, d) \/ Term(p, d)
  <2>1. PICK a \in {"acked", "termed"} : stream' = [stream EXCEPT ![d.e].at = a]
    BY <1>0, <1>2 DEF Ack, Term
  <2>2. Tries' = Tries /\ Answered' = Answered \cup {d.e}
    BY <1>0, <2>1, MovedTries
  <2>3. d.e \in kept \cup dead /\ UNCHANGED <<written, kept, dead>>
    BY <1>2 DEF Ack, Term, HandlingInv, AnswerInv, LoopInv
  <2>4. Handles
    BY <1>0, <2>2, <2>3 DEF Handles, Handling!Answer
  <2>5. \A q \in Procs : held'[q] \subseteq held[q]
    BY <1>0, <1>2, DropType DEF Ack, Term
  <2> QED BY <1>0, <2>2, <2>4, <2>5, SameTries, TriesDrop
<1> QED BY <1>1, <1>2 DEF Loop

LEMMA StepHandles == HandlingInv /\ [Next]_vars => Handles /\ HandlingInv'
<1> SUFFICES ASSUME HandlingInv, [Next]_vars PROVE Handles /\ TriesInv'
  BY NextAnswer DEF HandlingInv
<1> USE DEF procVars
<1>0. TypeInv /\ TypeOK /\ TypeInv'
  BY NextType DEF HandlingInv, AnswerInv, TypeInv
<1>1. ASSUME Tries' = Tries, \A q \in Procs : held'[q] \subseteq held[q] PROVE TriesInv'
  BY <1>0, <1>1, SameTries, TriesDrop
<1>2. CASE UNCHANGED vars
  <2>1. Tries' = Tries /\ Answered' = Answered
    BY <1>2 DEF vars, Tries, Answered
  <2> QED BY <1>1, <1>2, <2>1 DEF vars, Handles, Unhandled
<1>3. ASSUME NEW p \in Procs, NEW e \in Events, Write(p, e) PROVE Handles /\ TriesInv'
  <2>1. Tries' = Tries /\ Answered' = Answered
    BY <1>3 DEF Write, Tries, Answered
  <2> QED BY <1>1, <1>3, <2>1 DEF Write, Handles, Handling!Write
<1>4. ASSUME NEW p \in Procs, NEW e \in Events, Publish(p, e) PROVE Handles /\ TriesInv'
  <2>1. e \notin Answered
    BY <1>0, <1>4 DEF Publish, TypeInv, StreamInv, Answered
  <2>2. Tries' = Tries /\ Answered' = Answered
    <3>1. stream' = [stream EXCEPT ![e].at = "ready"] /\ "ready" \notin {"acked", "termed"}
      BY <1>4 DEF Publish
    <3> QED BY <1>0, <2>1, <3>1, MovedTries
  <2> QED BY <1>1, <1>4, <2>2 DEF Publish, Handles, Unhandled
<1>5. ASSUME NEW p \in Procs, NEW e \in Events, Record(p, e) PROVE Handles /\ TriesInv'
  <2>1. Tries' = Tries /\ Answered' = Answered
    BY <1>5 DEF Record, Tries, Answered
  <2>2. e \in written
    BY <1>0, <1>5 DEF Record, TypeInv, StreamInv
  <2>3. Handles
    BY <1>5, <2>1, <2>2, KeepOrNot DEF Record
  <2> QED BY <1>1, <1>5, <2>1, <2>3 DEF Record
<1>6. ASSUME NEW e \in Events, Expire(e) PROVE Handles /\ TriesInv'
  <2>1. Tries' = Tries /\ Answered' = Answered
    BY <1>0, <1>6, RequeuedTries DEF Expire
  <2> QED BY <1>1, <1>6, <2>1 DEF Expire, Handles, Unhandled
<1>7. ASSUME NEW p \in Procs, NEW d \in held[p], BuryFails(p, d) PROVE Handles /\ TriesInv'
  <2>1. Tries' = Tries /\ Answered' = Answered
    BY <1>7 DEF BuryFails, Tries, Answered
  <2>2. \A q \in Procs : held'[q] \subseteq held[q]
    BY <1>0, <1>7, DieTypes DEF BuryFails
  <2>3. d.e \in Events /\ Tries[d.e] = MaxDeliver
    BY <1>7, HeldWasTried DEF BuryFails, Tries
  <2>4. Handles
    BY <1>7, <2>1, <2>3 DEF BuryFails, Handles, Unhandled, Handling!Bury
  <2> QED BY <1>1, <2>1, <2>2, <2>4
<1>8. ASSUME NEW p \in Procs, Crash(p) \/ Restart(p) PROVE Handles /\ TriesInv'
  <2>1. Tries' = Tries /\ Answered' = Answered
    BY <1>8 DEF Crash, Restart, Tries, Answered
  <2>2. \A q \in Procs : held'[q] \subseteq held[q]
    BY <1>0, <1>8, DieTypes DEF Crash, Restart
  <2> QED BY <1>1, <1>8, <2>1, <2>2 DEF Crash, Restart, Handles, Unhandled
<1> QED
  BY <1>0, <1>2, <1>3, <1>4, <1>5, <1>6, <1>7, <1>8, AnnounceHandles, DeliverHandles, FailedHandles, LoopHandles DEF Next

\* Consumers keep the promise of EventHandling: no event is buried before its last delivery or
\* delivered after an answer, and no answer is taken back (loop, consumer.explorer.ts:109 to 126).
THEOREM Refinement == Spec => ImplementsHandling
<1>1. Init => HandlingInv
  BY InitAnswer DEF Init, HandlingInv, TriesInv
<1>2. Init => Handling!Init
  BY DEF Init, Handling!Init, Tries, Answered
<1>3. HandlingInv /\ [Next]_vars => [Handling!Next]_(Handling!vars)
  BY StepHandles DEF Handles, Unhandled, Handling!Next, Handling!vars
<1> QED BY <1>1, <1>2, <1>3, StepHandles, PTL DEF Spec, ImplementsHandling, Handling!Spec

-----------------------------------------------------------------------------
(* Erasures: GdprRequests, whose operators are G!... *)

Request == [kind : {"export", "forget"}, status : {"pending", "running", "done", "failed"},
            linked : BOOLEAN, key : BOOLEAN]

\* The requests are records, and a run is idle or has a stage, a request and the exports it removes.
RunsInv ==
    /\ req \in Seq(Request)
    /\ run = [p \in Procs |-> run[p]]
    /\ \A p \in Procs : run[p] # G!Idle => run[p] = [at |-> run[p].at, id |-> run[p].id, stale |-> run[p].stale]

\* A run that has claimed its request works on one that exists, and uploads are of such.
ClaimedInv ==
    /\ \A p \in Procs : run[p] # G!Idle /\ run[p].at \in {"work", "put", "mark"} => run[p].id \in DOMAIN req
    /\ objects \subseteq DOMAIN req

\* Until the erasure every request has its subject, so the erasure sees all keys.
LinkedInv == contact => \A i \in DOMAIN req : req[i].linked

\* A process is asked for an export or an erasure.
AskedInv == asked \in [Procs -> {"export", "forget", None}]

ErasureInv == RunsInv /\ ClaimedInv /\ LinkedInv /\ ErasureIsComplete

\* Requests are numbered from one.
LEMMA RequestsCounted == ASSUME RunsInv PROVE \E n \in Nat : req \in [1..n -> Request]
BY SeqDef DEF RunsInv

\* What a step of a process makes of its run.
LEMMA RunSet ==
    ASSUME RunsInv, NEW p \in Procs, NEW t, run' = [run EXCEPT ![p] = t]
    PROVE  /\ run' = [q \in Procs |-> run'[q]] /\ run'[p] = t
           /\ \A q \in Procs : q # p => run'[q] = run[q]
<1>1. run = [q \in Procs |-> run[q]]
  BY DEF RunsInv
<1> QED BY <1>1

LEMMA RunGoes ==
    ASSUME RunsInv, NEW p \in Procs, NEW stage, run[p] # G!Idle, run' = [run EXCEPT ![p].at = stage]
    PROVE  /\ run' = [q \in Procs |-> run'[q]]
           /\ run'[p] = [at |-> stage, id |-> run[p].id, stale |-> run[p].stale]
           /\ \A q \in Procs : q # p => run'[q] = run[q]
<1>1. [run[p] EXCEPT !.at = stage] = [at |-> stage, id |-> run[p].id, stale |-> run[p].stale]
  BY DEF RunsInv
<1>2. run' = [run EXCEPT ![p] = [run[p] EXCEPT !.at = stage]]
  OBVIOUS
<1> QED BY <1>1, <1>2, RunSet

\* A change of the status leaves the subjects and the keys of the requests.
LEMMA StatusSet ==
    ASSUME RunsInv, NEW i, NEW v \in {"pending", "running", "done", "failed"}, req' = G!Set(i, "status", v)
    PROVE  /\ req' \in Seq(Request) /\ DOMAIN req' = DOMAIN req
           /\ \A j \in DOMAIN req : req'[j].linked = req[j].linked /\ req'[j].key = req[j].key
<1>1. PICK n \in Nat : req \in [1..n -> Request]
  BY RequestsCounted
<1>2. DOMAIN req = 1..n
  BY <1>1
<1>3. req' = [req EXCEPT ![i] = [req[i] EXCEPT !["status"] = v]]
  BY DEF G!Set
<1>4. \A t \in Request : /\ [t EXCEPT !.status = v] \in Request
                         /\ [t EXCEPT !.status = v].linked = t.linked /\ [t EXCEPT !.status = v].key = t.key
  BY DEF Request
<1>5. CASE i \in 1..n
  <2>1. req' = [req EXCEPT ![i] = [req[i] EXCEPT !.status = v]]
    BY <1>3
  <2>2. req' \in [1..n -> Request]
    BY <1>1, <1>4, <1>5, <2>1
  <2>3. \A j \in 1..n : req'[j].linked = req[j].linked /\ req'[j].key = req[j].key
    <3>1. \A j \in 1..n : req[j] \in Request /\ req'[j] = IF j = i THEN [req[i] EXCEPT !.status = v] ELSE req[j]
      BY <1>1, <1>5, <2>1
    <3> QED BY <1>4, <3>1
  <2> QED BY <1>2, <2>2, <2>3, SeqDef
<1>6. CASE i \notin 1..n
  <2>1. req' \in [1..n -> Request] /\ \A j \in 1..n : req'[j] = req[j]
    BY <1>1, <1>3, <1>6
  <2> QED BY <1>1, <1>2, <2>1, SeqDef
<1> QED BY <1>5, <1>6

LEMMA RunCleans ==
    ASSUME RunsInv, NEW p \in Procs, NEW S, run[p] # G!Idle,
           run' = [run EXCEPT ![p].at = "clean", ![p].stale = S]
    PROVE  /\ run' = [q \in Procs |-> run'[q]]
           /\ run'[p] = [at |-> "clean", id |-> run[p].id, stale |-> S]
           /\ \A q \in Procs : q # p => run'[q] = run[q]
<1>1. run' = [run EXCEPT ![p] = [[run[p] EXCEPT !.at = "clean"] EXCEPT !.stale = S]]
  OBVIOUS
<1>2. [run[p] EXCEPT !.at = "clean"] = [at |-> "clean", id |-> run[p].id, stale |-> run[p].stale]
  BY DEF RunsInv
<1>3. ASSUME NEW x, NEW y
      PROVE  [[at |-> "clean", id |-> x, stale |-> y] EXCEPT !.stale = S] = [at |-> "clean", id |-> x, stale |-> S]
  OBVIOUS
<1>4. [[run[p] EXCEPT !.at = "clean"] EXCEPT !.stale = S] = [at |-> "clean", id |-> run[p].id, stale |-> S]
  BY <1>2, <1>3
<1> HIDE DEF G!Idle
<1> QED BY <1>1, <1>4, RunSet

\* The keys of a request may be marked, too, and an erasure takes both from all requests.
LEMMA MarkSet ==
    ASSUME RunsInv, NEW i, req' = [req EXCEPT ![i].status = "done", ![i].key = TRUE]
    PROVE  /\ req' \in Seq(Request) /\ DOMAIN req' = DOMAIN req
           /\ \A j \in DOMAIN req : req'[j].linked = req[j].linked
<1>1. PICK n \in Nat : req \in [1..n -> Request]
  BY RequestsCounted
<1>2. DOMAIN req = 1..n
  BY <1>1
<1>3. \A t \in Request : [[t EXCEPT !.status = "done"] EXCEPT !.key = TRUE] \in Request
                         /\ [[t EXCEPT !.status = "done"] EXCEPT !.key = TRUE].linked = t.linked
  BY DEF Request
<1>4. CASE i \in 1..n
  <2>1. req' = [req EXCEPT ![i] = [[req[i] EXCEPT !.status = "done"] EXCEPT !.key = TRUE]]
    BY <1>1, <1>4
  <2>2. req[i] \in Request
    BY <1>1, <1>4
  <2> DEFINE t == [[req[i] EXCEPT !.status = "done"] EXCEPT !.key = TRUE]
  <2>3. t \in Request /\ t.linked = req[i].linked
    BY <1>3, <2>2
  <2> HIDE DEF t
  <2>4. req' \in [1..n -> Request] /\ \A j \in 1..n : req'[j] = IF j = i THEN t ELSE req[j]
    BY <1>1, <2>1, <2>3 DEF t
  <2> QED BY <1>2, <2>3, <2>4, SeqDef
<1>5. CASE i \notin 1..n
  <2>1. req' \in [1..n -> Request] /\ \A j \in 1..n : req'[j] = req[j]
    BY <1>1, <1>5
  <2> QED BY <1>2, <2>1, SeqDef
<1> QED BY <1>4, <1>5

LEMMA EraseSet ==
    ASSUME RunsInv, NEW i, NEW L,
           req' = [j \in G!Ids |-> [req[j] EXCEPT !.linked = FALSE, !.key = @ /\ j \notin L,
                                                  !.status = IF j = i THEN "done" ELSE @]]
    PROVE  req' \in Seq(Request) /\ DOMAIN req' = DOMAIN req
<1>1. PICK n \in Nat : req \in [1..n -> Request]
  BY RequestsCounted
<1>2. DOMAIN req = 1..n /\ G!Ids = 1..n
  BY <1>1 DEF G!Ids
<1>3. ASSUME NEW j \in 1..n
      PROVE  [req[j] EXCEPT !.linked = FALSE, !.key = @ /\ j \notin L,
                            !.status = IF j = i THEN "done" ELSE @] \in Request
  <2>1. req[j] \in Request
    BY <1>1
  <2>2. (req[j].key /\ j \notin L) \in BOOLEAN /\ (IF j = i THEN "done" ELSE req[j].status) \in {"pending", "running", "done", "failed"}
    BY <2>1 DEF Request
  <2> QED BY <2>1, <2>2 DEF Request
<1>4. req' \in [1..n -> Request]
  BY <1>2, <1>3
<1> QED BY <1>2, <1>4, SeqDef

\* What a step must leave for the erasure to be complete.
LEMMA ErasureKept ==
    ASSUME ErasureInv, RunsInv', LinkedInv',
           \A p \in Procs : run'[p] # G!Idle /\ run'[p].at \in {"work", "put", "mark"} => run'[p].id \in DOMAIN req',
           objects' \subseteq DOMAIN req', contact' = contact, rows' => rows \/ stray' \/ contact, stray => stray',
           \A i \in objects' : i \in objects \/ contact \/ i \in orphans',
           orphans \subseteq orphans',
           \A p \in Procs, i \in objects' : run[p] # G!Idle /\ run[p].at = "clean" /\ i \in run[p].stale =>
               \/ i \in orphans'
               \/ run'[p] # G!Idle /\ run'[p].at = "clean" /\ i \in run'[p].stale
    PROVE  ErasureInv'
<1>1. ClaimedInv'
  BY DEF ClaimedInv
<1>2. ErasureIsComplete'
  <2> SUFFICES ASSUME ~contact PROVE /\ rows' => stray'
                                     /\ \A i \in objects' : i \in orphans' \/ \E p \in Procs :
                                           run'[p] # G!Idle /\ run'[p].at = "clean" /\ i \in run'[p].stale
    BY DEF ErasureIsComplete, G!ErasureIsComplete, G!At
  <2>1. rows => stray
    BY DEF ErasureInv, ErasureIsComplete, G!ErasureIsComplete
  <2>2. \A i \in objects : i \in orphans \/ \E p \in Procs :
           run[p] # G!Idle /\ run[p].at = "clean" /\ i \in run[p].stale
    BY DEF ErasureInv, ErasureIsComplete, G!ErasureIsComplete, G!At
  <2> QED BY <2>1, <2>2
<1> QED BY <1>1, <1>2 DEF ErasureInv

\* The same for a step of a run that removes no export and changes no row.
LEMMA WorkKept ==
    ASSUME ErasureInv, NEW p \in Procs, run[p] = G!Idle \/ run[p].at # "clean",
           run' = [q \in Procs |-> run'[q]], \A q \in Procs : q # p => run'[q] = run[q],
           run'[p] # G!Idle => run'[p] = [at |-> run'[p].at, id |-> run'[p].id, stale |-> run'[p].stale],
           run'[p] # G!Idle /\ run'[p].at \in {"work", "put", "mark"} => run'[p].id \in DOMAIN req,
           req' \in Seq(Request), DOMAIN req' = DOMAIN req, \A j \in DOMAIN req : req'[j].linked = req[j].linked,
           objects' \subseteq DOMAIN req, \A i \in objects' : i \in objects \/ contact \/ i \in orphans',
           orphans \subseteq orphans', UNCHANGED <<contact, rows, stray>>
    PROVE  ErasureInv'
<1>1. RunsInv'
  BY DEF ErasureInv, RunsInv
<1>2. LinkedInv'
  BY DEF ErasureInv, LinkedInv
<1>3. \A q \in Procs : run'[q] # G!Idle /\ run'[q].at \in {"work", "put", "mark"} => run'[q].id \in DOMAIN req'
  BY DEF ErasureInv, ClaimedInv
<1> QED BY <1>1, <1>2, <1>3, ErasureKept

LEMMA NextAsked == AskedInv /\ [G!Next]_G!vars => AskedInv'
<1> SUFFICES ASSUME AskedInv, [G!Next]_G!vars PROVE AskedInv'
  OBVIOUS
<1>1. ASSUME NEW p \in Procs, NEW kind \in {"export", "forget"}, G!Ask(p, kind) PROVE AskedInv'
  BY <1>1 DEF AskedInv, G!Ask
<1>2. ASSUME NEW p \in Procs, G!Create(p) \/ G!Crash(p) PROVE AskedInv'
  BY <1>2 DEF AskedInv, G!Create, G!Crash
<1>3. ASSUME NEW p \in Procs, G!Work(p) PROVE UNCHANGED asked
  BY <1>3 DEF G!Work, G!Start, G!Claim, G!Read, G!Put, G!Mark, G!Erase, G!Clean, G!Fail
<1>4. ASSUME NEW p \in Procs, G!Break(p) \/ G!Restart(p) \/ G!ResolveRows \/ G!WriteRows PROVE UNCHANGED asked
  BY <1>4 DEF G!Break, G!Restart, G!ResolveRows, G!WriteRows, G!work
<1>5. CASE UNCHANGED asked
  BY <1>5 DEF AskedInv
<1>6. CASE UNCHANGED G!vars
  BY <1>5, <1>6 DEF G!vars, G!work
<1>7. CASE G!ResolveRows \/ G!WriteRows
  BY <1>5, <1>7 DEF G!ResolveRows, G!WriteRows, G!work
<1> QED BY <1>1, <1>2, <1>3, <1>4, <1>5, <1>6, <1>7 DEF G!Next

LEMMA NextErasure == AskedInv /\ ErasureInv /\ [G!Next]_G!vars => ErasureInv'
<1> SUFFICES ASSUME AskedInv, ErasureInv, [G!Next]_G!vars PROVE ErasureInv'
  OBVIOUS
<1>0. /\ RunsInv /\ ClaimedInv /\ LinkedInv
      /\ \A p \in Procs : run[p] # G!Idle => run[p] = [at |-> run[p].at, id |-> run[p].id, stale |-> run[p].stale]
  BY DEF ErasureInv, RunsInv
<1>1. ASSUME UNCHANGED <<req, contact, objects, run, orphans>>, rows' => rows \/ stray' \/ contact, stray => stray'
      PROVE  ErasureInv'
  <2>1. RunsInv' /\ ClaimedInv' /\ LinkedInv'
    BY <1>0, <1>1 DEF RunsInv, ClaimedInv, LinkedInv
  <2>2. ErasureIsComplete'
    BY <1>1 DEF ErasureInv, ErasureIsComplete, G!ErasureIsComplete, G!At
  <2> QED BY <2>1, <2>2 DEF ErasureInv
<1>2. ASSUME NEW p \in Procs, NEW kind \in {"export", "forget"}, G!Ask(p, kind) PROVE ErasureInv'
  BY <1>1, <1>2 DEF G!Ask, G!ghosts
<1>3. ASSUME NEW p \in Procs, G!Restart(p) PROVE ErasureInv'
  BY <1>1, <1>3 DEF G!Restart, G!ghosts
<1>18. CASE G!ResolveRows \/ G!WriteRows
  BY <1>1, <1>18 DEF G!ResolveRows, G!WriteRows, G!ghosts, G!work
<1>4. CASE UNCHANGED G!vars
  BY <1>1, <1>4 DEF G!vars, G!ghosts, G!work
<1>5. ASSUME NEW p \in Procs, G!Create(p) PROVE ErasureInv'
  <2> DEFINE t == [kind |-> asked[p], status |-> "pending", linked |-> TRUE, key |-> FALSE]
  <2>1. req' = Append(req, t) /\ UNCHANGED <<contact, rows, objects, run, orphans, stray>> /\ asked[p] \in {"export", "forget"}
    BY <1>5 DEF G!Create, G!ghosts, AskedInv
  <2>2. t \in Request
    BY <2>1 DEF Request
  <2> HIDE DEF t
  <2>3. req' \in Seq(Request) /\ DOMAIN req \subseteq DOMAIN req'
        /\ \A i \in DOMAIN req' : req'[i] = IF i \in DOMAIN req THEN req[i] ELSE t
    <3>1. req \in Seq(Request)
      BY <1>0 DEF RunsInv
    <3>2. /\ req' \in Seq(Request) /\ Len(req') = Len(req) + 1 /\ req'[Len(req) + 1] = t
          /\ \A i \in 1..Len(req) : req'[i] = req[i]
      BY <2>1, <2>2, <3>1, AppendProperties
    <3>3. DOMAIN req = 1..Len(req) /\ DOMAIN req' = 1..Len(req') /\ Len(req) \in Nat
      BY <3>1, <3>2
    <3>4. DOMAIN req \subseteq DOMAIN req' /\ \A i \in DOMAIN req' : i \notin DOMAIN req => i = Len(req) + 1
      BY <3>2, <3>3
    <3>5. ASSUME NEW i \in DOMAIN req' PROVE req'[i] = IF i \in DOMAIN req THEN req[i] ELSE t
      <4>1. CASE i \in DOMAIN req
        BY <3>2, <3>3, <4>1
      <4>2. CASE i \notin DOMAIN req
        <5>1. i = Len(req) + 1
          BY <3>4, <4>2
        <5>2. req'[i] = t
          BY <3>2, <5>1
        <5> QED BY <4>2, <5>2
      <4> QED BY <4>1, <4>2
    <3> QED BY <3>2, <3>4, <3>5
  <2>4. t.linked
    BY DEF t
  <2>5. RunsInv' /\ ClaimedInv' /\ LinkedInv'
    BY <1>0, <2>1, <2>3, <2>4 DEF RunsInv, ClaimedInv, LinkedInv
  <2>6. ErasureIsComplete'
    BY <2>1 DEF ErasureInv, ErasureIsComplete, G!ErasureIsComplete, G!At
  <2> QED BY <2>5, <2>6 DEF ErasureInv
<1>6. ASSUME NEW p \in Procs, G!Start(p) PROVE ErasureInv'
  <2> DEFINE t == [at |-> "claim", id |-> Head(queue[p]), stale |-> {}]
  <2>1. run' = [run EXCEPT ![p] = t] /\ run[p] = G!Idle /\ UNCHANGED <<req, contact, rows, objects, orphans, stray>>
    BY <1>6 DEF G!Start, G!ghosts
  <2>2. t = [at |-> t.at, id |-> t.id, stale |-> t.stale] /\ t.at = "claim"
    OBVIOUS
  <2> HIDE DEF t
  <2>3. run' = [q \in Procs |-> run'[q]] /\ run'[p] = t /\ \A q \in Procs : q # p => run'[q] = run[q]
    BY <1>0, <2>1, RunSet
  <2> QED BY <1>0, <2>1, <2>2, <2>3, WorkKept DEF RunsInv, ClaimedInv
<1>7. ASSUME NEW p \in Procs, G!Claim(p) PROVE ErasureInv'
  <2>1. run[p] # G!Idle /\ run[p].at = "claim" /\ UNCHANGED <<contact, rows, objects, orphans, stray>>
    BY <1>7 DEF G!Claim, G!At
  <2>2. CASE G!Claimable(run[p].id)
    <3>1. req' = G!Set(run[p].id, "status", "running") /\ run' = [run EXCEPT ![p].at = "work"]
      BY <1>7, <2>2 DEF G!Claim, G!Go
    <3>2. run[p].id \in DOMAIN req
      BY <2>2 DEF G!Claimable, G!Open, G!Ids
    <3>3. /\ run' = [q \in Procs |-> run'[q]]
          /\ run'[p] = [at |-> "work", id |-> run[p].id, stale |-> run[p].stale]
          /\ \A q \in Procs : q # p => run'[q] = run[q]
      BY <1>0, <2>1, <3>1, RunGoes
    <3>4. req' \in Seq(Request) /\ DOMAIN req' = DOMAIN req /\ \A j \in DOMAIN req : req'[j].linked = req[j].linked
      BY <1>0, <3>1, StatusSet
    <3> QED BY <1>0, <2>1, <3>2, <3>3, <3>4, WorkKept DEF ClaimedInv
  <2>3. CASE ~G!Claimable(run[p].id)
    <3>1. UNCHANGED req /\ run' = [run EXCEPT ![p] = G!Idle]
      BY <1>7, <2>3 DEF G!Claim, G!End
    <3>2. run' = [q \in Procs |-> run'[q]] /\ run'[p] = G!Idle /\ \A q \in Procs : q # p => run'[q] = run[q]
      BY <1>0, <3>1, RunSet
    <3> QED BY <1>0, <2>1, <3>1, <3>2, WorkKept DEF RunsInv, ClaimedInv
  <2> QED BY <2>2, <2>3
<1>8. ASSUME NEW p \in Procs, G!Read(p) PROVE ErasureInv'
  <2> DEFINE stage == IF req[run[p].id].linked /\ contact THEN "put" ELSE "fail"
  <2>1. /\ run[p] # G!Idle /\ run[p].at = "work" /\ run' = [run EXCEPT ![p].at = stage]
        /\ UNCHANGED <<req, contact, rows, objects, orphans, stray>>
    BY <1>8 DEF G!Read, G!At, G!Go, G!ghosts
  <2>2. run[p].id \in DOMAIN req
    BY <1>0, <2>1 DEF ClaimedInv
  <2> HIDE DEF stage
  <2>3. /\ run' = [q \in Procs |-> run'[q]]
        /\ run'[p] = [at |-> stage, id |-> run[p].id, stale |-> run[p].stale]
        /\ \A q \in Procs : q # p => run'[q] = run[q]
    BY <1>0, <2>1, RunGoes
  <2> QED BY <1>0, <2>1, <2>2, <2>3, WorkKept DEF RunsInv, ClaimedInv
<1>9. ASSUME NEW p \in Procs, G!Put(p) PROVE ErasureInv'
  <2>1. /\ run[p] # G!Idle /\ run[p].at = "put" /\ run' = [run EXCEPT ![p].at = "mark"]
        /\ objects' = objects \cup {run[p].id}
        /\ orphans' = IF contact THEN orphans ELSE orphans \cup {run[p].id}
        /\ UNCHANGED <<req, contact, rows, stray>>
    BY <1>9 DEF G!Put, G!At, G!Go
  <2>2. run[p].id \in DOMAIN req
    BY <1>0, <2>1 DEF ClaimedInv
  <2>3. /\ run' = [q \in Procs |-> run'[q]]
        /\ run'[p] = [at |-> "mark", id |-> run[p].id, stale |-> run[p].stale]
        /\ \A q \in Procs : q # p => run'[q] = run[q]
    BY <1>0, <2>1, RunGoes
  <2>4. objects' \subseteq DOMAIN req /\ orphans \subseteq orphans' /\ \A i \in objects' : i \in objects \/ contact \/ i \in orphans'
    BY <1>0, <2>1, <2>2 DEF ClaimedInv
  <2> QED BY <1>0, <2>1, <2>2, <2>3, <2>4, WorkKept DEF RunsInv
<1>10. ASSUME NEW p \in Procs, G!Mark(p) PROVE ErasureInv'
  <2>1. /\ run[p] # G!Idle /\ run[p].at = "mark" /\ run' = [run EXCEPT ![p] = G!Idle]
        /\ req' = [req EXCEPT ![run[p].id].status = "done", ![run[p].id].key = TRUE]
        /\ UNCHANGED <<contact, rows, objects, orphans, stray>>
    BY <1>10 DEF G!Mark, G!At, G!End, G!ghosts
  <2>2. run' = [q \in Procs |-> run'[q]] /\ run'[p] = G!Idle /\ \A q \in Procs : q # p => run'[q] = run[q]
    BY <1>0, <2>1, RunSet
  <2>3. req' \in Seq(Request) /\ DOMAIN req' = DOMAIN req /\ \A j \in DOMAIN req : req'[j].linked = req[j].linked
    BY <1>0, <2>1, MarkSet
  <2> QED BY <1>0, <2>1, <2>2, <2>3, WorkKept DEF ClaimedInv
<1>11. ASSUME NEW p \in Procs, G!Erase(p) PROVE ErasureInv'
  <2>1. /\ run[p] # G!Idle /\ run[p].at = "work" /\ UNCHANGED <<objects, stray>>
        /\ run[p] = [at |-> run[p].at, id |-> run[p].id, stale |-> run[p].stale]
    BY <1>0, <1>11 DEF G!Erase, G!At
  <2>2. CASE req[run[p].id].linked
    <3>1. /\ contact' = FALSE /\ rows' = FALSE
          /\ req' = [j \in G!Ids |-> [req[j] EXCEPT !.linked = FALSE, !.key = @ /\ j \notin G!Linked,
                                                    !.status = IF j = run[p].id THEN "done" ELSE @]]
          /\ run' = [run EXCEPT ![p].at = "clean", ![p].stale = G!StaleExports]
          /\ orphans' = orphans \cup {j \in objects : ~req[j].key}
      BY <1>11, <2>2 DEF G!Erase
    <3>2. req' \in Seq(Request) /\ DOMAIN req' = DOMAIN req
      BY <1>0, <3>1, EraseSet
    <3>5. /\ run' = [q \in Procs |-> run'[q]]
          /\ run'[p] = [at |-> "clean", id |-> run[p].id, stale |-> G!StaleExports]
          /\ \A q \in Procs : q # p => run'[q] = run[q]
      BY <1>0, <2>1, <3>1, RunCleans
    <3>6. RunsInv' /\ ClaimedInv' /\ LinkedInv'
      BY <1>0, <2>1, <3>1, <3>2, <3>5 DEF RunsInv, ClaimedInv, LinkedInv
    <3>7. ASSUME NEW i \in objects
          PROVE  i \in orphans' \/ \E q \in Procs : run'[q] # G!Idle /\ run'[q].at = "clean" /\ i \in run'[q].stale
      <4>1. i \in DOMAIN req
        BY <1>0 DEF ClaimedInv
      <4>2. CASE ~req[i].key
        BY <3>1, <4>2
      <4>3. CASE req[i].key /\ req[i].linked
        <5>1. i \in G!StaleExports
          BY <4>1, <4>3 DEF G!StaleExports, G!Linked, G!Ids
        <5>2. run'[p].at = "clean" /\ i \in run'[p].stale /\ run'[p] # G!Idle
          <6>1. run'[p].id = run[p].id /\ run'[p].at = "clean" /\ run'[p].stale = G!StaleExports
            BY <3>5
          <6>2. G!Idle.at = "idle"
            BY DEF G!Idle
          <6> QED BY <5>1, <6>1, <6>2
        <5> QED BY <5>2
      <4>4. CASE ~req[i].linked
        <5>1. ~contact
          BY <1>0, <4>1, <4>4 DEF LinkedInv
        <5>2. i \in orphans \/ \E q \in Procs : run[q] # G!Idle /\ run[q].at = "clean" /\ i \in run[q].stale
          BY <5>1 DEF ErasureInv, ErasureIsComplete, G!ErasureIsComplete, G!At
        <5> QED BY <2>1, <3>1, <3>5, <5>2
      <4> QED BY <4>2, <4>3, <4>4
    <3>8. ErasureIsComplete'
      BY <2>1, <3>1, <3>7 DEF ErasureIsComplete, G!ErasureIsComplete, G!At
    <3> QED BY <3>6, <3>8 DEF ErasureInv
  <2>3. CASE ~req[run[p].id].linked
    <3>1. /\ req' = G!Set(run[p].id, "status", "done") /\ run' = [run EXCEPT ![p] = G!Idle]
          /\ UNCHANGED <<contact, rows, orphans>>
      BY <1>11, <2>3 DEF G!Erase, G!End
    <3>2. run' = [q \in Procs |-> run'[q]] /\ run'[p] = G!Idle /\ \A q \in Procs : q # p => run'[q] = run[q]
      BY <1>0, <3>1, RunSet
    <3>3. req' \in Seq(Request) /\ DOMAIN req' = DOMAIN req /\ \A j \in DOMAIN req : req'[j].linked = req[j].linked
      BY <1>0, <3>1, StatusSet
    <3> QED BY <1>0, <2>1, <3>1, <3>2, <3>3, WorkKept DEF ClaimedInv
  <2> QED BY <2>2, <2>3
<1>12. ASSUME NEW p \in Procs, G!Clean(p) PROVE ErasureInv'
  <2>1. /\ run[p] # G!Idle /\ run[p].at = "clean" /\ UNCHANGED <<req, contact, rows, stray>>
        /\ run[p] = [at |-> run[p].at, id |-> run[p].id, stale |-> run[p].stale]
    BY <1>0, <1>12 DEF G!Clean, G!At
  <2>2. CASE run[p].stale = {}
    <3>1. run' = [run EXCEPT ![p] = G!Idle] /\ UNCHANGED <<objects, orphans>>
      BY <1>12, <2>2 DEF G!Clean, G!End
    <3>2. run' = [q \in Procs |-> run'[q]] /\ run'[p] = G!Idle /\ \A q \in Procs : q # p => run'[q] = run[q]
      BY <1>0, <3>1, RunSet
    <3>3. RunsInv' /\ LinkedInv'
      BY <1>0, <2>1, <3>1, <3>2 DEF RunsInv, LinkedInv
    <3> QED BY <1>0, <2>1, <2>2, <3>1, <3>2, <3>3, ErasureKept DEF ClaimedInv
  <2>3. CASE run[p].stale # {}
    <3>1. PICK k \in run[p].stale :
            /\ run' = [run EXCEPT ![p].stale = run[p].stale \ {k}]
            /\ \/ objects' = objects \ {k} /\ UNCHANGED orphans
               \/ orphans' = orphans \cup {k} /\ UNCHANGED objects
      BY <1>12, <2>3 DEF G!Clean
    <3>2. [run[p] EXCEPT !.stale = run[p].stale \ {k}] = [at |-> "clean", id |-> run[p].id, stale |-> run[p].stale \ {k}]
      BY <2>1
    <3>3. run' = [run EXCEPT ![p] = [run[p] EXCEPT !.stale = run[p].stale \ {k}]]
      BY <3>1
    <3>4. /\ run' = [q \in Procs |-> run'[q]]
          /\ run'[p] = [at |-> "clean", id |-> run[p].id, stale |-> run[p].stale \ {k}]
          /\ \A q \in Procs : q # p => run'[q] = run[q]
      BY <1>0, <3>2, <3>3, RunSet
    <3>5. RunsInv' /\ LinkedInv'
      BY <1>0, <2>1, <3>4 DEF RunsInv, LinkedInv
    <3>6. run'[p] # G!Idle /\ run'[p].at = "clean" /\ run'[p].stale = run[p].stale \ {k}
      <4>1. run'[p].at = "clean" /\ run'[p].stale = run[p].stale \ {k}
        BY <3>4
      <4>2. G!Idle.at = "idle"
        BY DEF G!Idle
      <4> QED BY <4>1, <4>2
    <3>7. objects' \subseteq objects /\ orphans \subseteq orphans'
      BY <3>1
    <3>8. ASSUME NEW q \in Procs, NEW i \in objects', run[q] # G!Idle /\ run[q].at = "clean" /\ i \in run[q].stale
          PROVE  \/ i \in orphans'
                 \/ run'[q] # G!Idle /\ run'[q].at = "clean" /\ i \in run'[q].stale
      <4>1. CASE q # p
        BY <3>4, <3>8, <4>1
      <4>2. CASE q = p /\ i # k
        BY <3>6, <3>8, <4>2
      <4>3. CASE q = p /\ i = k
        BY <3>1, <4>3
      <4> QED BY <4>1, <4>2, <4>3
    <3>9. \A q \in Procs : run'[q] # G!Idle /\ run'[q].at \in {"work", "put", "mark"} => run'[q].id \in DOMAIN req'
      BY <1>0, <2>1, <3>4, <3>6 DEF ClaimedInv
    <3>10. objects' \subseteq DOMAIN req'
      BY <1>0, <2>1, <3>7 DEF ClaimedInv
    <3> QED BY <2>1, <3>5, <3>7, <3>8, <3>9, <3>10, ErasureKept
  <2> QED BY <2>2, <2>3
<1>13. ASSUME NEW p \in Procs, G!Break(p) PROVE ErasureInv'
  <2>1. /\ run[p] # G!Idle /\ run[p].at # "clean" /\ run' = [run EXCEPT ![p].at = "fail"]
        /\ UNCHANGED <<req, contact, rows, objects, orphans, stray>>
    BY <1>13 DEF G!Break, G!At, G!Go
  <2>2. /\ run' = [q \in Procs |-> run'[q]]
        /\ run'[p] = [at |-> "fail", id |-> run[p].id, stale |-> run[p].stale]
        /\ \A q \in Procs : q # p => run'[q] = run[q]
    BY <1>0, <2>1, RunGoes
  <2> QED BY <1>0, <2>1, <2>2, WorkKept DEF RunsInv, ClaimedInv
<1>14. ASSUME NEW p \in Procs, G!Fail(p) PROVE ErasureInv'
  <2>1. /\ run[p] # G!Idle /\ run[p].at = "fail" /\ run' = [run EXCEPT ![p] = G!Idle]
        /\ req' = G!Set(run[p].id, "status", "failed") \/ UNCHANGED req
        /\ UNCHANGED <<contact, rows, objects, orphans, stray>>
    BY <1>14 DEF G!Fail, G!At, G!End
  <2>2. run' = [q \in Procs |-> run'[q]] /\ run'[p] = G!Idle /\ \A q \in Procs : q # p => run'[q] = run[q]
    BY <1>0, <2>1, RunSet
  <2>3. req' \in Seq(Request) /\ DOMAIN req' = DOMAIN req /\ \A j \in DOMAIN req : req'[j].linked = req[j].linked
    <3>1. CASE req' = G!Set(run[p].id, "status", "failed")
      BY <1>0, <3>1, StatusSet
    <3>2. CASE UNCHANGED req
      BY <1>0, <3>2 DEF RunsInv
    <3> QED BY <2>1, <3>1, <3>2
  <2> QED BY <1>0, <2>1, <2>2, <2>3, WorkKept DEF ClaimedInv
<1>15. ASSUME NEW p \in Procs, G!Crash(p) PROVE ErasureInv'
  <2>1. /\ run' = [run EXCEPT ![p] = G!Idle] /\ UNCHANGED <<req, contact, rows, objects, stray>>
        /\ orphans' = IF run[p] # G!Idle /\ run[p].at = "clean" THEN orphans \cup run[p].stale ELSE orphans
    BY <1>15 DEF G!Crash, G!At, G!End
  <2>2. run' = [q \in Procs |-> run'[q]] /\ run'[p] = G!Idle /\ \A q \in Procs : q # p => run'[q] = run[q]
    BY <1>0, <2>1, RunSet
  <2>3. RunsInv' /\ LinkedInv'
    BY <1>0, <2>1, <2>2 DEF RunsInv, LinkedInv
  <2>4. ASSUME NEW q \in Procs, NEW i \in objects', run[q] # G!Idle /\ run[q].at = "clean" /\ i \in run[q].stale
        PROVE  \/ i \in orphans'
               \/ run'[q] # G!Idle /\ run'[q].at = "clean" /\ i \in run'[q].stale
    BY <2>1, <2>2, <2>4
  <2>5. orphans \subseteq orphans'
    BY <2>1
  <2>6. objects' \subseteq DOMAIN req' /\ \A q \in Procs : run'[q] # G!Idle /\ run'[q].at \in {"work", "put", "mark"} => run'[q].id \in DOMAIN req'
    BY <1>0, <2>1, <2>2 DEF ClaimedInv
  <2> QED BY <2>1, <2>3, <2>4, <2>5, <2>6, ErasureKept
<1>16. CASE \E p \in Procs : G!Work(p)
  BY <1>6, <1>7, <1>8, <1>9, <1>10, <1>11, <1>12, <1>14, <1>16 DEF G!Work
<1>17. CASE G!Next
  BY <1>2, <1>3, <1>5, <1>13, <1>15, <1>16, <1>17, <1>18 DEF G!Next
<1> QED BY <1>4, <1>17

LEMMA InitErasure == G!Init => ErasureInv
<1> SUFFICES ASSUME G!Init PROVE ErasureInv
  OBVIOUS
<1>1. req = <<>> /\ contact = TRUE /\ objects = {} /\ run = [p \in Procs |-> G!Idle]
  BY DEF G!Init
<1>2. req \in Seq(Request) /\ DOMAIN req = {}
  BY <1>1
<1>3. \A p \in Procs : run[p] = G!Idle
  BY <1>1
<1>4. RunsInv
  BY <1>1, <1>2, <1>3 DEF RunsInv
<1>5. ClaimedInv /\ LinkedInv /\ ErasureIsComplete
  BY <1>1, <1>2, <1>3 DEF ClaimedInv, LinkedInv, ErasureIsComplete, G!ErasureIsComplete
<1> QED BY <1>4, <1>5 DEF ErasureInv

\* After the erasure nothing of the contact is left but what the ghosts name (forget,
\* gdpr.service.ts:206): for every number of processes, requests and faults.
THEOREM ErasureComplete == G!Spec => []ErasureIsComplete
<1>1. ErasureInv => ErasureIsComplete
  BY DEF ErasureInv
<1>2. G!Init => AskedInv
  BY DEF G!Init, AskedInv
<1> QED BY <1>1, <1>2, InitErasure, NextAsked, NextErasure, PTL DEF G!Spec
=============================================================================
