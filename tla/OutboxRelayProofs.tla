------------------------- MODULE OutboxRelayProofs --------------------------
(***************************************************************************)
(* Theorems about OutboxRelay, for any number of processes, events, crashes*)
(* and faults.                                                             *)
(***************************************************************************)
EXTENDS OutboxRelay, TLAPS

LEMMA FirstIsPart == \A S, n : First(S, n) \subseteq S
BY DEF First

(* Cases of a step, so that every proof below splits Next the same way.        *)
LEMMA StepCases ==
    ASSUME Next
    PROVE  \/ \E p \in Procs : \/ Flush(p) \/ Tick(p) \/ Select(p) \/ SelectFails(p)
                               \/ TransactionTimesOut(p) \/ Delete(p) \/ DeleteFails(p)
                               \/ Done(p) \/ Shutdown(p) \/ Exit(p) \/ Crash(p) \/ Restart(p)
           \/ \E p \in Procs, i \in Ids : Send(p, i) \/ SendFails(p, i) \/ Commit(p, i)
           \/ WindowPasses
BY DEF Next, Relay

-----------------------------------------------------------------------------
(* Types *)

LEMMA InitType == Init => TypeOK
BY OutboxRelayAssumption DEF Init, TypeOK

LoopTypeOK ==
    /\ pc \in [Procs -> {"idle", "select", "sending", "done"}]
    /\ again \in [Procs -> BOOLEAN]
    /\ batch \in [Procs -> SUBSET Ids]
    /\ unsent \in [Procs -> SUBSET Ids]
    /\ timedOut \in [Procs -> BOOLEAN]

\* The ends of drain and of a process keep the types of the loop's variables.
LEMMA DrainTypes ==
    ASSUME LoopTypeOK, NEW p \in Procs, NEW n, DrainThrew(p) \/ DrainReturned(p, n)
    PROVE  LoopTypeOK'
<1>1. batch' \in [Procs -> SUBSET Ids] /\ unsent' \in [Procs -> SUBSET Ids]
  BY DEF LoopTypeOK, DrainThrew, DrainReturned
<1>2. timedOut' \in [Procs -> BOOLEAN]
  BY DEF LoopTypeOK, DrainThrew, DrainReturned
<1>3. pc' \in [Procs -> {"idle", "select", "sending", "done"}] /\ again' \in [Procs -> BOOLEAN]
  BY DEF LoopTypeOK, DrainThrew, DrainReturned
<1> QED BY <1>1, <1>2, <1>3 DEF LoopTypeOK

LEMMA VanishTypes ==
    ASSUME LoopTypeOK, NEW p \in Procs, Vanish(p)
    PROVE  LoopTypeOK'
<1>1. batch' \in [Procs -> SUBSET Ids] /\ unsent' \in [Procs -> SUBSET Ids]
  BY DEF LoopTypeOK, Vanish
<1>2. timedOut' \in [Procs -> BOOLEAN] /\ again' \in [Procs -> BOOLEAN]
  BY DEF LoopTypeOK, Vanish
<1>3. pc' \in [Procs -> {"idle", "select", "sending", "done"}]
  BY DEF LoopTypeOK, Vanish
<1> QED BY <1>1, <1>2, <1>3 DEF LoopTypeOK

\* A selected batch is of event ids.
LEMMA SelectTypes ==
    ASSUME LoopTypeOK, rows \subseteq Ids, NEW p \in Procs, Select(p)
    PROVE  LoopTypeOK'
<1> DEFINE found == First(rows \ Locked, Batch)
<1>1. found \subseteq Ids
  BY FirstIsPart
<1> HIDE DEF found
<1>2. CASE found = {}
  <2>1. DrainReturned(p, 0)
    BY <1>2 DEF Select, found
  <2> QED BY <2>1, DrainTypes
<1>3. CASE found # {}
  <2>1. /\ batch' = [batch EXCEPT ![p] = found]
        /\ unsent' = [unsent EXCEPT ![p] = found]
        /\ pc' = [pc EXCEPT ![p] = "sending"]
        /\ UNCHANGED <<again, timedOut>>
    BY <1>3 DEF Select, found
  <2> QED BY <1>1, <2>1 DEF LoopTypeOK
<1> QED BY <1>2, <1>3

LEMMA NextType == TypeOK /\ [Next]_vars => TypeOK'
<1> SUFFICES ASSUME TypeOK, [Next]_vars PROVE TypeOK'
  OBVIOUS
<1>0. LoopTypeOK
  BY DEF TypeOK, LoopTypeOK
<1> USE OutboxRelayAssumption DEF TypeOK, dbVars, natsVars, loopVars, boundVars
<1>1. CASE UNCHANGED vars
  BY <1>1 DEF vars
<1>2. ASSUME NEW p \in Procs, Flush(p) \/ Tick(p) PROVE TypeOK'
  BY <1>2 DEF Flush, Tick, Kick
<1>3. ASSUME NEW p \in Procs, Select(p) PROVE TypeOK'
  <2>1. LoopTypeOK'
    BY <1>0, <1>3, SelectTypes
  <2> QED BY <1>3, <2>1 DEF Select, LoopTypeOK
<1>4. ASSUME NEW p \in Procs, SelectFails(p) \/ DeleteFails(p) PROVE TypeOK'
  <2>1. LoopTypeOK'
    BY <1>0, <1>4, DrainTypes DEF SelectFails, DeleteFails
  <2> QED BY <1>4, <2>1 DEF SelectFails, DeleteFails, Fault, LoopTypeOK
<1>5. ASSUME NEW p \in Procs, TransactionTimesOut(p) PROVE TypeOK'
  BY <1>5 DEF TransactionTimesOut, Fault
<1>6. ASSUME NEW p \in Procs, Delete(p) PROVE TypeOK'
  <2>1. LoopTypeOK'
    BY <1>0, <1>6, DrainTypes DEF Delete
  <2> QED BY <1>6, <2>1 DEF Delete, LoopTypeOK
<1>7. ASSUME NEW p \in Procs, Done(p) \/ Shutdown(p) \/ Restart(p) PROVE TypeOK'
  BY <1>7 DEF Done, Shutdown, Restart
<1>8. ASSUME NEW p \in Procs, Exit(p) \/ Crash(p) PROVE TypeOK'
  <2>1. LoopTypeOK'
    BY <1>0, <1>8, VanishTypes DEF Exit, Crash
  <2>2. life' \in [Procs -> {"up", "stopping", "down"}] /\ flushDue' \in [Procs -> BOOLEAN]
    BY <1>8 DEF Exit, Crash, Vanish
  <2> QED BY <1>8, <2>1, <2>2 DEF Exit, Crash, LoopTypeOK
<1>9. ASSUME NEW p \in Procs, NEW i \in Ids, Send(p, i) PROVE TypeOK'
  BY <1>9 DEF Send, NextRow, Stores
<1>10. ASSUME NEW p \in Procs, NEW i \in Ids, SendFails(p, i) PROVE TypeOK'
  <2>1. LoopTypeOK'
    BY <1>0, <1>10, DrainTypes DEF SendFails
  <2> QED BY <1>10, <2>1 DEF SendFails, Stores, Fault, LoopTypeOK
<1>11. ASSUME NEW p \in Procs, NEW i \in Ids, Commit(p, i) PROVE TypeOK'
  BY <1>11 DEF Commit
<1>12. CASE WindowPasses
  BY <1>12 DEF WindowPasses
<1> HIDE DEF TypeOK
<1> QED BY StepCases, <1>1, <1>2, <1>3, <1>4, <1>5, <1>6, <1>7, <1>8, <1>9, <1>10, <1>11, <1>12

(* The variables of the relay keep their types.                                *)
THEOREM TypeCorrect == Spec => []TypeOK
BY InitType, NextType, PTL DEF Spec

-----------------------------------------------------------------------------
(* What JetStream remembers it has stored, and it forgets once per window.     *)

WindowInv ==
    \A i \in Ids :
        /\ i \in window => stored[i] >= 1
        /\ i \notin window => stored[i] <= windows
        /\ stored[i] <= 1 + windows

LEMMA StoresOnce ==
    ASSUME TypeOK, WindowInv, NEW i \in Ids, Stores(i)
    PROVE  WindowInv' /\ Delivered' = Delivered \cup {i}
<1>1. WindowInv'
  BY DEF TypeOK, WindowInv, Stores
<1>2. Delivered' = Delivered \cup {i}
  BY DEF TypeOK, WindowInv, Stores, Delivered
<1> QED BY <1>1, <1>2

LEMMA NextWindow == TypeOK /\ WindowInv /\ [Next]_vars => WindowInv'
<1> SUFFICES ASSUME TypeOK, WindowInv, [Next]_vars PROVE WindowInv'
  OBVIOUS
<1>1. CASE UNCHANGED natsVars
  BY <1>1 DEF natsVars, WindowInv
<1>2. ASSUME NEW i \in Ids, Stores(i) PROVE WindowInv'
  BY <1>2, StoresOnce
<1>3. CASE WindowPasses
  BY <1>3 DEF WindowPasses, WindowInv, TypeOK
<1>4. ASSUME NEW p \in Procs, Flush(p) \/ Tick(p) \/ Select(p) \/ SelectFails(p)
             \/ TransactionTimesOut(p) \/ Delete(p) \/ DeleteFails(p)
             \/ Done(p) \/ Shutdown(p) \/ Exit(p) \/ Crash(p) \/ Restart(p)
      PROVE WindowInv'
  BY <1>1, <1>4 DEF Flush, Tick, Kick, Select, SelectFails, TransactionTimesOut, Delete,
                    DeleteFails, Done, Shutdown, Exit, Crash, Restart
<1>5. ASSUME NEW p \in Procs, NEW i \in Ids, Send(p, i) \/ SendFails(p, i) \/ Commit(p, i)
      PROVE WindowInv'
  BY <1>1, <1>2, <1>5 DEF Send, SendFails, Commit
<1>6. CASE UNCHANGED vars
  BY <1>1, <1>6 DEF vars
<1> QED BY StepCases, <1>3, <1>4, <1>5, <1>6

(* No more than one copy of an event per duplicate window, however many        *)
(* processes publish it again after a failure.                                 *)
THEOREM StoredOnce == Spec => []StoredOncePerWindow
<1>1. Init => WindowInv
  BY OutboxRelayAssumption DEF Init, WindowInv
<1>2. WindowInv => StoredOncePerWindow
  BY DEF WindowInv, StoredOncePerWindow
<1> QED BY <1>1, <1>2, InitType, NextType, NextWindow, PTL DEF Spec

-----------------------------------------------------------------------------
(* Published if and only if committed.  A transaction holds rows that were     *)
(* committed, and what it no longer has to send is in the stream: that is why  *)
(* its DELETE loses nothing.                                                   *)

BatchInv ==
    \A p \in Procs :
        /\ unsent[p] \subseteq batch[p]
        /\ batch[p] \subseteq committed
        /\ batch[p] \ unsent[p] \subseteq Delivered

RelayInv == TypeOK /\ WindowInv /\ BatchInv /\ PublishedIffCommitted

(* A drain that returned or threw, and a process that vanished, hold nothing.  *)
LEMMA EmptyBatch ==
    ASSUME TypeOK, BatchInv, NEW p \in Procs, NEW n,
           DrainThrew(p) \/ DrainReturned(p, n) \/ Vanish(p),
           committed' = committed, Delivered \subseteq Delivered'
    PROVE  BatchInv'
<1>1. /\ batch' = [batch EXCEPT ![p] = {}]
      /\ unsent' = [unsent EXCEPT ![p] = {}]
  BY DEF DrainThrew, DrainReturned, Vanish
<1> QED BY <1>1 DEF BatchInv, TypeOK

LEMMA InitRelay == Init => RelayInv
<1> SUFFICES ASSUME Init PROVE RelayInv
  OBVIOUS
<1>1. WindowInv /\ PublishedIffCommitted
  BY OutboxRelayAssumption DEF Init, WindowInv, PublishedIffCommitted, Delivered
<1>2. BatchInv
  BY DEF Init, BatchInv
<1> QED BY <1>1, <1>2, InitType DEF RelayInv

LEMMA NextRelay == RelayInv /\ [Next]_vars => RelayInv'
<1> SUFFICES ASSUME RelayInv, [Next]_vars PROVE BatchInv' /\ PublishedIffCommitted'
  BY NextType, NextWindow DEF RelayInv
<1>0. TypeOK /\ WindowInv /\ BatchInv /\ PublishedIffCommitted
  BY DEF RelayInv
<1>1. CASE UNCHANGED vars
  BY <1>0, <1>1 DEF vars, dbVars, natsVars, loopVars, BatchInv, PublishedIffCommitted, Delivered
<1>2. ASSUME NEW p \in Procs,
             Flush(p) \/ Tick(p) \/ TransactionTimesOut(p) \/ Done(p) \/ Shutdown(p) \/ Restart(p)
      PROVE BatchInv' /\ PublishedIffCommitted'
  <2>1. UNCHANGED <<rows, committed, stored, batch, unsent>>
    BY <1>2 DEF Flush, Tick, Kick, TransactionTimesOut, Done, Shutdown, Restart, dbVars, natsVars, loopVars
  <2> QED BY <1>0, <2>1 DEF BatchInv, PublishedIffCommitted, Delivered
<1>3. ASSUME NEW p \in Procs, SelectFails(p) \/ DeleteFails(p) \/ Exit(p) \/ Crash(p)
      PROVE BatchInv' /\ PublishedIffCommitted'
  <2>1. UNCHANGED <<rows, committed, stored>> /\ (DrainThrew(p) \/ Vanish(p))
    BY <1>3 DEF SelectFails, DeleteFails, Exit, Crash, dbVars, natsVars
  <2> QED BY <1>0, <2>1, EmptyBatch DEF PublishedIffCommitted, Delivered
<1>4. ASSUME NEW p \in Procs, Select(p) PROVE BatchInv' /\ PublishedIffCommitted'
  <2> DEFINE found == First(rows \ Locked, Batch)
  <2>1. found \subseteq committed
    BY <1>0, FirstIsPart DEF PublishedIffCommitted
  <2>2. UNCHANGED <<rows, committed, stored>>
    BY <1>4 DEF Select, dbVars, natsVars
  <2> HIDE DEF found
  <2>3. CASE DrainReturned(p, 0)
    BY <1>0, <2>2, <2>3, EmptyBatch DEF PublishedIffCommitted, Delivered
  <2>4. CASE batch' = [batch EXCEPT ![p] = found] /\ unsent' = [unsent EXCEPT ![p] = found]
    BY <1>0, <2>1, <2>2, <2>4 DEF BatchInv, TypeOK, PublishedIffCommitted, Delivered
  <2> QED BY <1>4, <2>3, <2>4 DEF Select, found
<1>5. ASSUME NEW p \in Procs, Delete(p) PROVE BatchInv' /\ PublishedIffCommitted'
  <2>1. UNCHANGED <<committed, stored>> /\ (DrainThrew(p) \/ DrainReturned(p, Cardinality(batch[p])))
    BY <1>5 DEF Delete, natsVars
  <2>2. batch[p] \subseteq Delivered
    BY <1>0, <1>5 DEF Delete, BatchInv
  <2>3. rows' = rows \/ rows' = rows \ batch[p]
    BY <1>5 DEF Delete
  <2>4. Delivered' = Delivered
    BY <2>1 DEF Delivered
  <2>5. BatchInv'
    BY <1>0, <2>1, <2>4, EmptyBatch
  <2> QED BY <1>0, <2>1, <2>2, <2>3, <2>4, <2>5 DEF PublishedIffCommitted
<1>6. ASSUME NEW p \in Procs, NEW i \in Ids, Send(p, i) PROVE BatchInv' /\ PublishedIffCommitted'
  <2>1. Delivered' = Delivered \cup {i}
    BY <1>0, <1>6, StoresOnce DEF Send
  <2>2. i \in committed
    BY <1>0, <1>6 DEF Send, NextRow, BatchInv
  <2>3. UNCHANGED <<rows, committed, batch>> /\ unsent' = [unsent EXCEPT ![p] = @ \ {i}]
    BY <1>6 DEF Send, dbVars
  <2>4. PublishedIffCommitted'
    BY <1>0, <2>1, <2>2, <2>3 DEF PublishedIffCommitted
  <2>5. BatchInv'
    BY <1>0, <2>1, <2>3 DEF BatchInv, TypeOK
  <2> QED BY <2>4, <2>5
<1>7. ASSUME NEW p \in Procs, NEW i \in Ids, SendFails(p, i) PROVE BatchInv' /\ PublishedIffCommitted'
  <2>1. Delivered' = Delivered \/ Delivered' = Delivered \cup {i}
    BY <1>0, <1>7, StoresOnce DEF SendFails, natsVars, Delivered
  <2>2. i \in committed
    BY <1>0, <1>7 DEF SendFails, NextRow, BatchInv
  <2>3. UNCHANGED <<rows, committed>> /\ DrainThrew(p)
    BY <1>7 DEF SendFails, dbVars
  <2>4. PublishedIffCommitted'
    BY <1>0, <2>1, <2>2, <2>3 DEF PublishedIffCommitted
  <2>5. BatchInv'
    BY <1>0, <2>1, <2>3, EmptyBatch
  <2> QED BY <2>4, <2>5
<1>8. ASSUME NEW p \in Procs, NEW i \in Ids, Commit(p, i) PROVE BatchInv' /\ PublishedIffCommitted'
  <2>1. /\ UNCHANGED <<stored, batch, unsent>>
        /\ rows' = rows \cup {i} /\ committed' = committed \cup {i}
    BY <1>8 DEF Commit, natsVars, loopVars
  <2> QED BY <1>0, <2>1 DEF BatchInv, PublishedIffCommitted, Delivered
<1>9. CASE WindowPasses
  BY <1>0, <1>9 DEF WindowPasses, dbVars, loopVars, BatchInv, PublishedIffCommitted, Delivered
<1> QED BY StepCases, <1>1, <1>2, <1>3, <1>4, <1>5, <1>6, <1>7, <1>8, <1>9

(* No committed event is ever lost and no other is ever published.             *)
THEOREM NothingLost == Spec => []PublishedIffCommitted
<1>1. RelayInv => PublishedIffCommitted
  BY DEF RelayInv
<1> QED BY <1>1, InitRelay, NextRelay, PTL DEF Spec

-----------------------------------------------------------------------------
(* Refinement *)

LEMMA StepDelivers == RelayInv /\ [Next]_vars => [Delivery!Next]_(Delivery!vars)
<1> SUFFICES ASSUME RelayInv, [Next]_vars
             PROVE  Delivery!Next \/ UNCHANGED <<rows, Delivered>>
  BY DEF Delivery!vars
<1>0. TypeOK /\ WindowInv /\ BatchInv /\ PublishedIffCommitted
  BY DEF RelayInv
<1>1. CASE UNCHANGED <<rows, stored>>
  BY <1>1 DEF Delivered
<1>2. ASSUME NEW i \in Ids, i \in committed, Stores(i), UNCHANGED rows
      PROVE  Delivery!Next \/ UNCHANGED <<rows, Delivered>>
  <2>1. Delivered' = Delivered \cup {i}
    BY <1>0, <1>2, StoresOnce
  <2>2. CASE i \in rows
    BY <1>2, <2>1, <2>2 DEF Delivery!Next, Delivery!Deliver
  <2>3. CASE i \in Delivered
    BY <1>2, <2>1, <2>3
  <2> QED BY <1>0, <1>2, <2>2, <2>3 DEF PublishedIffCommitted
<1>3. ASSUME NEW p \in Procs, NEW i \in Ids, Send(p, i) \/ SendFails(p, i)
      PROVE  Delivery!Next \/ UNCHANGED <<rows, Delivered>>
  <2>1. i \in committed
    BY <1>0, <1>3 DEF Send, SendFails, NextRow, BatchInv
  <2> QED BY <1>1, <1>2, <1>3, <2>1 DEF Send, SendFails, dbVars, natsVars
<1>4. ASSUME NEW p \in Procs, NEW i \in Ids, Commit(p, i) PROVE Delivery!Next
  <2>1. rows' = rows \cup {i} /\ Delivered' = Delivered /\ i \notin rows \cup Delivered
    BY <1>0, <1>4 DEF Commit, natsVars, PublishedIffCommitted, Delivered
  <2> QED BY <2>1 DEF Delivery!Next, Delivery!Accept
<1>5. ASSUME NEW p \in Procs, Delete(p)
      PROVE  Delivery!Next \/ UNCHANGED <<rows, Delivered>>
  <2>1. UNCHANGED stored /\ batch[p] \subseteq Delivered /\ batch[p] \in SUBSET Ids
    BY <1>0, <1>5 DEF Delete, natsVars, BatchInv, TypeOK
  <2>2. CASE rows' = rows
    BY <1>1, <2>1, <2>2
  <2>3. CASE rows' = rows \ batch[p]
    <3> DEFINE settled == batch[p] \cap rows
    <3>1. settled \in SUBSET Ids /\ rows' = rows \ settled /\ settled \subseteq rows \cap Delivered
      BY <2>1, <2>3
    <3>2. Delivered' = Delivered
      BY <2>1 DEF Delivered
    <3> HIDE DEF settled
    <3>3. Delivery!Settle(settled)
      BY <3>1, <3>2 DEF Delivery!Settle
    <3> QED BY <3>1, <3>3 DEF Delivery!Next
  <2> QED BY <1>5, <2>2, <2>3 DEF Delete
<1>6. ASSUME NEW p \in Procs, Flush(p) \/ Tick(p) \/ Select(p) \/ SelectFails(p)
             \/ TransactionTimesOut(p) \/ DeleteFails(p)
             \/ Done(p) \/ Shutdown(p) \/ Exit(p) \/ Crash(p) \/ Restart(p)
      PROVE UNCHANGED <<rows, stored>>
  BY <1>6 DEF Flush, Tick, Kick, Select, SelectFails, TransactionTimesOut,
              DeleteFails, Done, Shutdown, Exit, Crash, Restart, dbVars, natsVars
<1>7. CASE WindowPasses \/ UNCHANGED vars
  BY <1>1, <1>7 DEF WindowPasses, vars, dbVars, natsVars
<1> QED BY StepCases, <1>1, <1>3, <1>4, <1>5, <1>6, <1>7

(* The relay implements the promise of the outbox to its writers.              *)
THEOREM Refinement == Spec => ImplementsDelivery
<1>1. Init => Delivery!Init
  BY OutboxRelayAssumption DEF Init, Delivery!Init, Delivered
<1>2. Spec => []RelayInv
  BY InitRelay, NextRelay, PTL DEF Spec
<1> QED BY <1>1, <1>2, StepDelivers, PTL DEF Spec, ImplementsDelivery, Delivery!Spec
=============================================================================
