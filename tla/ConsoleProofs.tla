---------------------------- MODULE ConsoleProofs ----------------------------
(***************************************************************************)
(* Theorems about what an administrator works with in the console: the     *)
(* files of ExportRun, the lists of Listings (operators L!... of           *)
(* MCConsole) and the editors of ConsoleEdits (operators E!...), for any   *)
(* number of rows, requests, writers and faults.                           *)
(***************************************************************************)
EXTENDS ExportRun, MCConsole, FiniteSetTheorems, WellFoundedInduction, TLAPS

-----------------------------------------------------------------------------
(* Exports: ExportRun. *)

\* A response has ended only when everything was fetched; a request that was not made
\* has fetched nothing.
StreamsInv ==
    \A q \in Requests :
        /\ stream[q] = "none" => fetched[q] = 0 /\ body[q] # "ended"
        /\ buffered[q] <= fetched[q]
        /\ body[q] = "ended" => fetched[q] = Batches

\* Runs to come have made no request.
RunsInv ==
    \A e \in Exports :
        /\ row[e] = "queued" => run[e] < Runs
        /\ handler[e] # "none" => run[e] > 0
        /\ \A n \in 1..Runs : n > run[e] \/ (n = run[e] /\ handler[e] = "preparing") => stream[<<e, n>>] = "none"

\* What a run has read and what is buffered for it is what was fetched for it.
CopyInv ==
    \A e \in Exports :
        /\ handler[e] = "preparing" => read[e] = 0
        /\ handler[e] = "copying" => read[e] + buffered[Request(e)] = fetched[Request(e)]

FileInv == StreamsInv /\ RunsInv /\ CopyInv /\ PublishedIsComplete

LEMMA RequestIsOne ==
    ASSUME TypeOK, RunsInv, NEW e \in Exports, handler[e] # "none"
    PROVE  run[e] \in 1..Runs /\ Request(e) = <<e, run[e]>> /\ Request(e) \in Requests
BY ExportRunAssumption DEF TypeOK, RunsInv, Request, Requests

LEMMA InitInv == Init => TypeOK /\ FileInv
<1> SUFFICES ASSUME Init PROVE TypeOK /\ FileInv
  OBVIOUS
<1>1. TypeOK
  BY ExportRunAssumption DEF Init, TypeOK
<1>2. StreamsInv /\ RunsInv
  BY ExportRunAssumption DEF Init, StreamsInv, RunsInv, Requests
<1>3. CopyInv /\ PublishedIsComplete
  BY DEF Init, CopyInv, PublishedIsComplete
<1> QED BY <1>1, <1>2, <1>3 DEF FileInv

LEMMA NextType == TypeOK /\ FileInv /\ [Next]_vars => TypeOK'
<1> SUFFICES ASSUME TypeOK, FileInv, [Next]_vars PROVE TypeOK'
  OBVIOUS
<1> USE ExportRunAssumption DEF jobVars, coreVars
<1>0. StreamsInv /\ RunsInv /\ CopyInv
  BY DEF FileInv
<1>1. CASE UNCHANGED vars
  BY <1>1 DEF vars, TypeOK
<1>2. ASSUME NEW e \in Exports, Claim(e) PROVE TypeOK'
  BY <1>0, <1>2 DEF TypeOK, RunsInv, Claim
<1>3. ASSUME NEW e \in Exports, Cancel(e) \/ Finish(e) \/ FinishFails(e) \/ Recover(e) PROVE TypeOK'
  BY <1>3 DEF TypeOK, Ended, Cancel, Finish, FinishFails, Recover, Fault
<1>4. ASSUME NEW e \in Exports, AskForStream(e) \/ PrepareFails(e) \/ BodyCut(e) \/ Notify(e) PROVE TypeOK'
  BY <1>4 DEF TypeOK, AskForStream, PrepareFails, BodyCut, Notify, Returns, Fault
<1>5. ASSUME NEW e \in Exports, Copy(e) PROVE TypeOK'
  <2>1. Request(e) \in Requests
    BY <1>0, <1>5, RequestIsOne DEF Copy
  <2>2. /\ buffered[Request(e)] \in 1..Batches /\ fetched[Request(e)] \in 0..Batches
        /\ read[e] + buffered[Request(e)] = fetched[Request(e)] /\ read[e] \in 0..Batches
    BY <1>0, <1>5, <2>1 DEF TypeOK, CopyInv, Copy
  <2>3. buffered[Request(e)] - 1 \in 0..Batches /\ read[e] + 1 \in 0..Batches
    BY <2>2
  <2>4. /\ buffered' = [buffered EXCEPT ![Request(e)] = buffered[Request(e)] - 1]
        /\ read' = [read EXCEPT ![e] = read[e] + 1]
        /\ UNCHANGED <<row, run, handler, result, object, notices, stream, conns, fetched, body, faults>>
    BY <1>5 DEF Copy, TypeOK
  <2> QED BY <2>1, <2>3, <2>4 DEF TypeOK
<1>6. ASSUME NEW e \in Exports, Publish(e) PROVE TypeOK'
  BY <1>6 DEF TypeOK, Publish, Returns, Fault
<1>7. ASSUME NEW e \in Exports, CopyFails(e) \/ Die(e) PROVE TypeOK'
  BY <1>7 DEF TypeOK, CopyFails, Die, Leave, Returns, Fault
<1>8. ASSUME NEW q \in Requests, Connect(q) \/ Drain(q) \/ Return(q) \/ QueryFails(q) PROVE TypeOK'
  BY <1>8 DEF TypeOK, Connect, Drain, Return, QueryFails, Fault
<1>9. ASSUME NEW q \in Requests, Fetch(q) PROVE TypeOK'
  <2>1. fetched[q] + 1 \in 0..Batches /\ buffered[q] + 1 \in 0..Batches
    BY <1>0, <1>9 DEF TypeOK, StreamsInv, Fetch
  <2>2. /\ fetched' = [fetched EXCEPT ![q] = fetched[q] + 1] /\ buffered' = [buffered EXCEPT ![q] = buffered[q] + 1]
        /\ \E s \in {"draining", stream[q]} : stream' = [stream EXCEPT ![q] = s]
        /\ UNCHANGED <<jobVars, conns, body, faults>>
    BY <1>9 DEF Fetch, TypeOK
  <2> QED BY <2>1, <2>2 DEF TypeOK
<1>10. CASE CoreRestarts
  BY <1>10 DEF TypeOK, CoreRestarts, Fault
<1> QED
  BY <1>1, <1>2, <1>3, <1>4, <1>5, <1>6, <1>7, <1>8, <1>9, <1>10 DEF Next, Handler, Core

LEMMA NextFile == TypeOK /\ FileInv /\ [Next]_vars => FileInv'
<1> SUFFICES ASSUME TypeOK, FileInv, [Next]_vars PROVE FileInv'
  OBVIOUS
<1> USE ExportRunAssumption DEF jobVars, coreVars
<1>0. StreamsInv /\ RunsInv /\ CopyInv /\ PublishedIsComplete
  BY DEF FileInv
<1>1. CASE UNCHANGED vars
  BY <1>0, <1>1 DEF vars, FileInv, StreamsInv, RunsInv, CopyInv, PublishedIsComplete, Request
<1>2. ASSUME NEW e \in Exports, Claim(e) PROVE FileInv'
  <2>1. StreamsInv' /\ PublishedIsComplete'
    BY <1>0, <1>2 DEF StreamsInv, PublishedIsComplete, Claim
  <2>2. RunsInv'
    BY <1>0, <1>2 DEF TypeOK, RunsInv, Claim
  <2>3. CopyInv'
    BY <1>0, <1>2 DEF TypeOK, CopyInv, Claim, Request
  <2> QED BY <2>1, <2>2, <2>3 DEF FileInv
<1>3. ASSUME NEW e \in Exports,
             Cancel(e) \/ Finish(e) \/ FinishFails(e) \/ Recover(e) \/ PrepareFails(e) \/ BodyCut(e) \/ Notify(e)
      PROVE  FileInv'
  <2>1. UNCHANGED <<run, read, object, coreVars>>
    BY <1>3 DEF Cancel, Finish, FinishFails, Recover, PrepareFails, BodyCut, Notify
  <2>2. StreamsInv' /\ PublishedIsComplete'
    BY <1>0, <2>1 DEF StreamsInv, PublishedIsComplete
  <2>3. \A f \in Exports : /\ handler'[f] \in {"preparing", "copying"} => handler'[f] = handler[f]
                           /\ handler'[f] # "none" => handler[f] # "none"
                           /\ row'[f] = "queued" => row[f] = "queued" \/ run[f] # Runs
    BY <1>3 DEF TypeOK, Cancel, Finish, FinishFails, Recover, PrepareFails, BodyCut, Notify, Returns
  <2>4. RunsInv'
    <3> SUFFICES ASSUME NEW f \in Exports
                 PROVE  /\ row'[f] = "queued" => run[f] < Runs
                        /\ handler'[f] # "none" => run[f] > 0
                        /\ \A n \in 1..Runs : n > run[f] \/ (n = run[f] /\ handler'[f] = "preparing")
                                             => stream[<<f, n>>] = "none"
      BY <2>1 DEF RunsInv
    <3>1. row'[f] = "queued" => run[f] < Runs
      <4>1. run[f] \in 0..Runs
        BY DEF TypeOK
      <4> QED BY <1>0, <2>3, <4>1 DEF RunsInv
    <3>2. handler'[f] # "none" => run[f] > 0
      BY <1>0, <2>3 DEF RunsInv
    <3>3. handler'[f] = "preparing" => handler[f] = "preparing"
      BY <2>3
    <3> QED BY <1>0, <3>1, <3>2, <3>3 DEF RunsInv
  <2>5. CopyInv'
    BY <1>0, <2>1, <2>3 DEF CopyInv, Request
  <2> QED BY <2>2, <2>4, <2>5 DEF FileInv
<1>4. ASSUME NEW e \in Exports, AskForStream(e) PROVE FileInv'
  <2> DEFINE q == <<e, run[e]>>
  <2>1. q \in Requests /\ Request(e) = q /\ stream[q] = "none" /\ fetched[q] = 0 /\ buffered[q] = 0 /\ body[q] # "ended"
    <3>1. q \in Requests /\ Request(e) = q /\ run[e] \in 1..Runs /\ handler[e] = "preparing"
      BY <1>0, <1>4, RequestIsOne DEF AskForStream
    <3> QED BY <1>0, <3>1 DEF RunsInv, StreamsInv, TypeOK
  <2>2. stream' = [stream EXCEPT ![q] = "waiting"] /\ handler' = [handler EXCEPT ![e] = "copying"]
        /\ handler[e] = "preparing" /\ read[e] = 0
        /\ UNCHANGED <<row, run, result, read, object, notices, conns, fetched, buffered, body, faults>>
    BY <1>0, <1>4, <2>1 DEF AskForStream, CopyInv
  <2>3. StreamsInv' /\ PublishedIsComplete'
    BY <1>0, <2>1, <2>2 DEF StreamsInv, PublishedIsComplete, TypeOK
  <2>4. RunsInv'
    BY <1>0, <2>1, <2>2 DEF RunsInv, TypeOK, Requests
  <2>5. CopyInv'
    BY <1>0, <2>1, <2>2 DEF CopyInv, TypeOK, Request
  <2> QED BY <2>3, <2>4, <2>5 DEF FileInv
<1>5. ASSUME NEW e \in Exports, Copy(e) PROVE FileInv'
  <2>1. Request(e) \in Requests /\ handler[e] = "copying" /\ buffered[Request(e)] > 0
    BY <1>0, <1>5, RequestIsOne DEF Copy
  <2>2. /\ buffered' = [buffered EXCEPT ![Request(e)] = buffered[Request(e)] - 1]
        /\ read' = [read EXCEPT ![e] = read[e] + 1]
        /\ UNCHANGED <<row, run, handler, result, object, notices, stream, conns, fetched, body, faults>>
    BY <1>5 DEF Copy, TypeOK
  <2>3. StreamsInv' /\ PublishedIsComplete' /\ RunsInv'
    BY <1>0, <2>1, <2>2 DEF StreamsInv, PublishedIsComplete, RunsInv, TypeOK
  <2>4. \A f \in Exports \ {e} : Request(f) # Request(e)
    BY DEF Request
  <2>5. CopyInv'
    <3> SUFFICES ASSUME NEW f \in Exports
                 PROVE  /\ handler'[f] = "preparing" => read'[f] = 0
                        /\ handler'[f] = "copying" => read'[f] + buffered'[Request(f)] = fetched'[Request(f)]
      BY <2>2 DEF CopyInv, Request
    <3>1. CASE f = e
      BY <1>0, <2>1, <2>2, <3>1 DEF CopyInv, TypeOK
    <3>2. CASE f # e
      <4>1. buffered'[Request(f)] = buffered[Request(f)] \/ Request(f) \notin Requests
        BY <2>2, <2>4, <3>2 DEF TypeOK
      <4>2. handler[f] = "copying" => Request(f) \in Requests
        BY <1>0, RequestIsOne
      <4> QED BY <1>0, <2>2, <3>2, <4>1, <4>2 DEF CopyInv, TypeOK
    <3> QED BY <3>1, <3>2
  <2> QED BY <2>3, <2>5 DEF FileInv
<1>6. ASSUME NEW e \in Exports, Publish(e) PROVE FileInv'
  <2>1. Request(e) \in Requests /\ read[e] = Batches
    <3>1. Request(e) \in Requests
      BY <1>0, <1>6, RequestIsOne DEF Publish
    <3> QED BY <1>0, <1>6, <3>1 DEF CopyInv, StreamsInv, TypeOK, Publish
  <2>2. /\ object' = [object EXCEPT ![e] = {read[e]}] /\ handler' = [handler EXCEPT ![e] = "notifying"]
        /\ UNCHANGED <<row, run, read, notices, coreVars>> /\ handler[e] = "copying"
    BY <1>6 DEF Publish, Returns
  <2>3. PublishedIsComplete'
    BY <1>0, <2>1, <2>2 DEF PublishedIsComplete, TypeOK
  <2>4. StreamsInv' /\ RunsInv'
    BY <1>0, <2>2 DEF StreamsInv, RunsInv, TypeOK
  <2>5. CopyInv'
    BY <1>0, <2>2 DEF CopyInv, TypeOK, Request
  <2> QED BY <2>3, <2>4, <2>5 DEF FileInv
<1>7. ASSUME NEW e \in Exports, CopyFails(e) \/ Die(e) PROVE FileInv'
  <2>1. PICK h \in {"notifying", "lost"} : handler' = [handler EXCEPT ![e] = h]
    BY <1>7 DEF CopyFails, Die, Returns
  <2>2. handler[e] # "none" /\ UNCHANGED <<row, run, read, object, notices, stream, conns, fetched, buffered>>
    BY <1>7 DEF CopyFails, Die, Leave
  <2>3. \A q \in Requests : body'[q] \in {body[q], "closed"}
    BY <1>7 DEF CopyFails, Die, Leave, TypeOK
  <2>4. StreamsInv' /\ PublishedIsComplete'
    BY <1>0, <2>2, <2>3 DEF StreamsInv, PublishedIsComplete
  <2>5. RunsInv' /\ CopyInv'
    BY <1>0, <2>1, <2>2 DEF RunsInv, CopyInv, TypeOK, Request
  <2> QED BY <2>4, <2>5 DEF FileInv
<1>8. ASSUME NEW q \in Requests, Connect(q) \/ Drain(q) \/ Return(q) \/ QueryFails(q) PROVE FileInv'
  <2>1. UNCHANGED <<jobVars, fetched, buffered>> /\ stream[q] # "none"
    BY <1>8 DEF Connect, Drain, Return, QueryFails
  <2>2. \A p \in Requests : /\ stream'[p] = "none" <=> stream[p] = "none"
                            /\ body'[p] = "ended" => \/ body[p] = "ended"
                                                     \/ p = q /\ fetched[q] = Batches
    BY <1>8 DEF Connect, Drain, Return, QueryFails, TypeOK
  <2>3. StreamsInv'
    BY <1>0, <2>1, <2>2 DEF StreamsInv
  <2>4. PublishedIsComplete' /\ CopyInv'
    BY <1>0, <2>1 DEF PublishedIsComplete, CopyInv, Request
  <2>5. RunsInv'
    BY <1>0, <2>1, <2>2 DEF RunsInv, Requests
  <2> QED BY <2>3, <2>4, <2>5 DEF FileInv
<1>9. ASSUME NEW q \in Requests, Fetch(q) PROVE FileInv'
  <2>1. /\ fetched' = [fetched EXCEPT ![q] = fetched[q] + 1] /\ buffered' = [buffered EXCEPT ![q] = buffered[q] + 1]
        /\ UNCHANGED <<jobVars, conns, body, faults>> /\ stream[q] = "fetching" /\ fetched[q] < Batches
    BY <1>9 DEF Fetch
  <2>2. \A p \in Requests : stream'[p] = "none" <=> stream[p] = "none"
    BY <1>9 DEF Fetch, TypeOK
  <2>3. StreamsInv'
    BY <1>0, <2>1, <2>2 DEF StreamsInv, TypeOK
  <2>4. PublishedIsComplete'
    BY <1>0, <2>1 DEF PublishedIsComplete
  <2>5. RunsInv'
    BY <1>0, <2>1, <2>2 DEF RunsInv, Requests
  <2>6. CopyInv'
    <3> SUFFICES ASSUME NEW e \in Exports
                 PROVE  /\ handler[e] = "preparing" => read[e] = 0
                        /\ handler[e] = "copying" => read[e] + buffered'[Request(e)] = fetched'[Request(e)]
      BY <2>1 DEF CopyInv, Request
    <3>1. handler[e] = "copying" => Request(e) \in Requests
      BY <1>0, RequestIsOne
    <3> QED BY <1>0, <2>1, <3>1 DEF CopyInv, TypeOK
  <2> QED BY <2>3, <2>4, <2>5, <2>6 DEF FileInv
<1>10. CASE CoreRestarts
  <2>1. UNCHANGED <<jobVars, fetched, buffered>>
    BY <1>10 DEF CoreRestarts
  <2>2. \A p \in Requests : /\ stream'[p] = "none" <=> stream[p] = "none"
                            /\ body'[p] = "ended" => body[p] = "ended"
    BY <1>10 DEF CoreRestarts
  <2>3. StreamsInv'
    BY <1>0, <2>1, <2>2 DEF StreamsInv
  <2>4. PublishedIsComplete' /\ CopyInv'
    BY <1>0, <2>1 DEF PublishedIsComplete, CopyInv, Request
  <2>5. RunsInv'
    BY <1>0, <2>1, <2>2 DEF RunsInv, Requests
  <2> QED BY <2>3, <2>4, <2>5 DEF FileInv
<1> QED
  BY <1>1, <1>2, <1>3, <1>4, <1>5, <1>6, <1>7, <1>8, <1>9, <1>10 DEF Next, Handler, Core

\* The type invariant of exports and of the stream of core.
THEOREM TypeCorrect == Spec => []TypeOK
<1> QED BY InitInv, NextType, NextFile, PTL DEF Spec

\* No partial file is published, however often core, the upload or the importer fails
\* and however many runs the export takes (exports/run.go:56).
THEOREM FilesAreComplete == Spec => []PublishedIsComplete
<1>1. FileInv => PublishedIsComplete
  BY DEF FileInv
<1> QED BY <1>1, InitInv, NextType, NextFile, PTL DEF Spec

-----------------------------------------------------------------------------
(* Lists: Listings, whose operators are L!... *)

LEMMA Least ==
    ASSUME NEW T, T \subseteq Nat, T # {}
    PROVE  \E x \in T : \A y \in T : x <= y
<1>1. PICK x \in T : \A y \in T : ~(<<y, x>> \in OpToRel(<, Nat))
  BY NatLessThanWellFounded, WFMin
<1>2. \A y \in T : ~(y < x)
  BY <1>1 DEF OpToRel
<1>3. \A y \in T : x <= y
  BY <1>2
<1> QED BY <1>3

LEMMA StrictSubset ==
    ASSUME NEW S, IsFiniteSet(S), NEW T, T \subseteq S, T # S
    PROVE  Cardinality(T) \in Nat /\ Cardinality(S) \in Nat /\ Cardinality(T) < Cardinality(S)
<1>1. IsFiniteSet(T) /\ Cardinality(T) <= Cardinality(S) /\ Cardinality(S) # Cardinality(T)
  BY FS_Subset
<1>2. Cardinality(S) \in Nat /\ Cardinality(T) \in Nat
  BY <1>1, FS_CardinalityType
<1> QED BY <1>1, <1>2

\* What Listings says of finite sets.
LEMMA SetsOfListings == \A S : L!Cardinality(S) = Cardinality(S) /\ (L!IsFiniteSet(S) <=> IsFiniteSet(S))
BY DEF L!Cardinality, L!IsFiniteSet, Cardinality, IsFiniteSet

LEMMA RowsAreFinite == ASSUME L!ListingsAssumption PROVE IsFiniteSet(Rows) /\ Rows \subseteq Nat /\ PageSize \in Nat \ {0}
BY SetsOfListings DEF L!ListingsAssumption

\* Rows that are newer than another one, of a set of rows.
NewerThan(S, r) == {q \in S : L!Newer(q, r)}

LEMMA NewerIsOrder ==
    ASSUME L!ListingsAssumption, stamp \in [Rows -> 0..MaxTime], NEW a \in Rows, NEW b \in Rows, NEW c \in Rows
    PROVE  /\ ~L!Newer(a, a)
           /\ L!Newer(a, b) /\ L!Newer(b, c) => L!Newer(a, c)
           /\ a = b \/ L!Newer(a, b) \/ L!Newer(b, a)
           /\ ~(L!Newer(a, b) /\ L!Newer(b, a))
<1>1. {a, b, c} \subseteq Nat /\ {stamp[a], stamp[b], stamp[c]} \subseteq Nat
  BY DEF L!ListingsAssumption
<1> QED BY <1>1 DEF L!Newer

LEMMA NewerCount ==
    ASSUME L!ListingsAssumption, stamp \in [Rows -> 0..MaxTime], NEW S \in SUBSET Rows, NEW a \in S, NEW b \in Rows
    PROVE  /\ Cardinality(NewerThan(S, b)) \in Nat
           /\ L!Newer(a, b) => Cardinality(NewerThan(S, a)) < Cardinality(NewerThan(S, b))
<1>1. IsFiniteSet(NewerThan(S, b))
  BY RowsAreFinite, FS_Subset DEF NewerThan
<1>2. ASSUME L!Newer(a, b) PROVE NewerThan(S, a) \subseteq NewerThan(S, b) /\ NewerThan(S, a) # NewerThan(S, b)
  <2>1. \A q \in S : L!Newer(q, a) => L!Newer(q, b)
    BY <1>2, NewerIsOrder
  <2>2. a \in NewerThan(S, b) /\ a \notin NewerThan(S, a)
    BY <1>2, NewerIsOrder DEF NewerThan
  <2> QED BY <2>1, <2>2 DEF NewerThan
<1>3. Cardinality(NewerThan(S, b)) \in Nat
  BY <1>1, FS_CardinalityType
<1> QED BY <1>1, <1>2, <1>3, StrictSubset

\* Rows that are there have one that is the newest, and one that is the oldest.
LEMMA NewestOfAll ==
    ASSUME L!ListingsAssumption, stamp \in [Rows -> 0..MaxTime], NEW S \in SUBSET Rows, S # {}
    PROVE  \E r \in S : Cardinality(NewerThan(S, r)) = 0
<1> DEFINE T == {Cardinality(NewerThan(S, r)) : r \in S}
<1>1. T \subseteq Nat /\ T # {}
  BY NewerCount
<1>2. PICK n \in T : \A m \in T : n <= m
  <2> HIDE DEF T
  <2> QED BY <1>1, Least
<1>3. PICK r \in S : n = Cardinality(NewerThan(S, r))
  BY <1>2
<1>4. \A q \in S : ~L!Newer(q, r)
  <2> SUFFICES ASSUME NEW q \in S, L!Newer(q, r) PROVE FALSE
    OBVIOUS
  <2>1. Cardinality(NewerThan(S, q)) < n /\ Cardinality(NewerThan(S, q)) \in T
    BY <1>3, NewerCount
  <2>2. Cardinality(NewerThan(S, q)) \in Nat /\ n \in Nat /\ n <= Cardinality(NewerThan(S, q))
    BY <1>1, <1>2, <2>1
  <2> QED BY <2>1, <2>2
<1>5. NewerThan(S, r) = {}
  BY <1>4 DEF NewerThan
<1> QED BY <1>5, FS_EmptySet

LEMMA OldestOfAll ==
    ASSUME L!ListingsAssumption, stamp \in [Rows -> 0..MaxTime], NEW S \in SUBSET Rows, S # {}
    PROVE  /\ L!Last(S) \in S
           /\ \A q \in S : q = L!Last(S) \/ L!Newer(q, L!Last(S))
<1> DEFINE T == {stamp[r] : r \in S}
<1>1. T \subseteq Nat /\ T # {} /\ S \subseteq Nat
  BY RowsAreFinite
<1>2. PICK t \in T : \A m \in T : t <= m
  <2> HIDE DEF T
  <2> QED BY <1>1, Least
<1> DEFINE U == {r \in S : stamp[r] = t}
<1>3. U \subseteq Nat /\ U # {}
  BY <1>1, <1>2
<1>4. PICK r \in U : \A q \in U : r <= q
  <2> HIDE DEF U
  <2> QED BY <1>3, Least
<1>5. \A q \in S : q = r \/ L!Newer(q, r)
  <2> SUFFICES ASSUME NEW q \in S, q # r PROVE L!Newer(q, r)
    OBVIOUS
  <2>1. stamp[q] \in Nat /\ t \in Nat /\ stamp[r] = t /\ t <= stamp[q] /\ q \in Nat /\ r \in Nat
    BY <1>1, <1>2, <1>4
  <2>2. stamp[q] = t => r <= q
    BY <1>4
  <2> QED BY <2>1, <2>2 DEF L!Newer
<1>6. \E x \in S : \A q \in S : q = x \/ L!Newer(q, x)
  BY <1>4, <1>5
<1> QED BY <1>6 DEF L!Last

\* A page has the rows of what was found that do not come after its cursor.
LEMMA PageSplits ==
    ASSUME L!ListingsAssumption, stamp \in [Rows -> 0..MaxTime], NEW S \in SUBSET Rows, \A r \in S : stamp[r] # 0
    PROVE  /\ L!Page(S).rows \subseteq S
           /\ L!Page(S).next # None => \E c \in S : L!Page(S).next = [at |-> stamp[c], id |-> c]
           /\ \A r \in S : r \in L!Page(S).rows <=> ~(L!Page(S).next # None /\ L!After(r, L!Page(S).next))
<1>0. \A c \in S : [at |-> stamp[c], id |-> c] \in L!Cursors /\ [at |-> stamp[c], id |-> c] # None
  BY DEF L!ListingsAssumption, L!Cursors
<1>1. CASE Cardinality(S) <= PageSize
  BY <1>1, SetsOfListings DEF L!Page
<1>2. CASE ~(Cardinality(S) <= PageSize)
  <2> DEFINE p == L!Newest(S)
             c == L!Last(p)
  <2>1. p = {r \in S : Cardinality(NewerThan(S, r)) < PageSize} /\ p \subseteq S
    BY SetsOfListings DEF L!Newest, NewerThan
  <2>2. p # {}
    <3>1. IsFiniteSet(S) /\ Cardinality(S) \in Nat
      BY RowsAreFinite, FS_Subset, FS_CardinalityType
    <3>2. S # {}
      BY <1>2, <3>1, RowsAreFinite, FS_EmptySet
    <3>3. PICK r \in S : Cardinality(NewerThan(S, r)) = 0
      BY <3>2, NewestOfAll
    <3>4. r \in p
      BY <3>3, <2>1 DEF L!ListingsAssumption
    <3> QED BY <3>4
  <2>3. c \in p /\ \A q \in p : q = c \/ L!Newer(q, c)
    <3> HIDE DEF p
    <3> QED BY <2>1, <2>2, OldestOfAll
  <2>4. L!Page(S).rows = p /\ L!Page(S).next = [at |-> stamp[c], id |-> c]
    BY <1>2, SetsOfListings DEF L!Page
  <2> HIDE DEF p, c
  <2>5. c \in S /\ L!Page(S).next # None
    BY <1>0, <2>1, <2>3, <2>4
  <2>6. ASSUME NEW r \in S PROVE L!After(r, L!Page(S).next) <=> L!Newer(c, r)
    <3>1. L!Page(S).next.at = stamp[c] /\ L!Page(S).next.id = c
      BY <2>4
    <3>2. {r, c} \subseteq Nat /\ {stamp[r], stamp[c]} \subseteq Nat
      BY <2>5 DEF L!ListingsAssumption
    <3> QED BY <2>5, <3>1, <3>2 DEF L!After, L!Newer
  <2>7. ASSUME NEW r \in p PROVE ~L!Newer(c, r)
    BY <2>1, <2>3, <2>5, NewerIsOrder
  <2>8. ASSUME NEW r \in S, r \notin p PROVE L!Newer(c, r)
    <3>1. c # r
      BY <2>3, <2>8
    <3>2. L!Newer(r, c) => Cardinality(NewerThan(S, r)) < Cardinality(NewerThan(S, c))
      BY <2>5, NewerCount
    <3>3. /\ Cardinality(NewerThan(S, r)) \in Nat /\ Cardinality(NewerThan(S, c)) \in Nat /\ PageSize \in Nat
          /\ Cardinality(NewerThan(S, c)) < PageSize /\ ~(Cardinality(NewerThan(S, r)) < PageSize)
      BY <2>1, <2>3, <2>5, <2>8, NewerCount DEF L!ListingsAssumption
    <3>4. ~L!Newer(r, c)
      BY <3>2, <3>3
    <3> QED BY <2>5, <3>1, <3>4, NewerIsOrder
  <2> QED BY <2>1, <2>4, <2>5, <2>6, <2>7, <2>8
<1> QED BY <1>1, <1>2

\* Rows that were written last before write n.
Since(r, n) == listWrites.of[r] <= n

\* The page an answer has, for the rows nobody has written since it was read.
PageInv ==
    \A a \in listAnswers :
        /\ a.ask \in L!Ask /\ a.rows \subseteq Rows /\ a.next \in {None} \cup L!Cursors
        /\ a.writes \in Nat /\ a.writes <= listWrites.n
        /\ a.next # None /\ a.ask.cursor # None =>
             a.next.at < a.ask.cursor.at \/ (a.next.at = a.ask.cursor.at /\ a.next.id < a.ask.cursor.id)
        /\ \A r \in Rows : Since(r, a.writes) =>
             (r \in a.rows <=> L!Matches(r, a.ask.filter) /\ L!After(r, a.ask.cursor)
                               /\ ~(a.next # None /\ L!After(r, a.next)))

CountInv ==
    /\ listWrites = [n |-> listWrites.n, of |-> listWrites.of]
    /\ listWrites.n \in Nat /\ listWrites.of \in [Rows -> Nat] /\ \A r \in Rows : Since(r, listWrites.n)
    /\ walk = [filter |-> walk.filter, writes |-> walk.writes]
    /\ walk.filter \in L!Filters \cup {None} /\ walk.writes \in Nat /\ walk.writes <= listWrites.n
    /\ mixed \in BOOLEAN /\ eager \in BOOLEAN

ListTyped == L!TypeOK /\ CountInv /\ PageInv

\* Requests have different numbers.
NumbersInv ==
    /\ \A a \in listAsks : a.n <= asked
    /\ \A w \in listAnswers : w.ask.n <= asked
    /\ \A a \in listAsks, b \in listAsks : a.n = b.n => a = b
    /\ \A a \in listAsks, w \in listAnswers : a.n # w.ask.n
    /\ \A v \in listAnswers, w \in listAnswers : v.ask.n = w.ask.n => v = w

\* The last request asks for what follows the table.
Follows(a) == a.n = asked /\ a.cursor # None => a.cursor = cursor /\ (a.filter = walk.filter \/ eager)

LastInv ==
    list = "contacts" =>
        /\ \A a \in listAsks : Follows(a)
        /\ \A w \in listAnswers : Follows(w.ask) /\ (w.ask.n = asked /\ w.ask.cursor # None => walk.writes <= w.writes)

ListInv == ListTyped /\ NumbersInv /\ LastInv /\ EachRowIsListedOnce /\ SearchesAreNotMixed

LEMMA InitList == ASSUME L!ListingsAssumption PROVE L!Init => ListInv
<1> SUFFICES ASSUME L!Init PROVE ListInv
  OBVIOUS
<1>1. L!TypeOK
  BY DEF L!Init, L!TypeOK, L!ListingsAssumption, L!Ask, L!Cursors, L!Filters
<1>2. CountInv
  <2>1. listWrites = [n |-> 0, of |-> [r \in Rows |-> 0]] /\ walk = [filter |-> None, writes |-> 0]
    BY DEF L!Init, L!NoWalk
  <2>2. mixed \in BOOLEAN /\ eager \in BOOLEAN
    BY DEF L!Init
  <2>3. listWrites.n = 0 /\ listWrites.of = [r \in Rows |-> 0] /\ walk.filter = None /\ walk.writes = 0
    BY <2>1
  <2> QED BY <2>1, <2>2, <2>3 DEF CountInv, Since
<1>3. PageInv /\ NumbersInv /\ LastInv
  BY DEF L!Init, PageInv, NumbersInv, LastInv, Follows
<1>4. EachRowIsListedOnce /\ SearchesAreNotMixed
  BY DEF L!Init, EachRowIsListedOnce, SearchesAreNotMixed, L!EachRowIsListedOnce, L!SearchesAreNotMixed
<1> QED BY <1>1, <1>2, <1>3, <1>4 DEF ListInv, ListTyped

\* Nothing a page or the table depends on has changed.
Unread == UNCHANGED <<list, stamp, some, listWrites>>

LEMMA RequestTyped ==
    ASSUME L!ListingsAssumption, L!TypeOK, NEW f \in L!Filters, NEW c \in {None} \cup L!Cursors, L!Request(f, c)
    PROVE  asked' \in 0..MaxAsks /\ listAsks' \subseteq L!Ask
<1>1. asked \in 0..MaxAsks /\ MaxAsks \in Nat /\ asked < MaxAsks /\ asked' = asked + 1
  BY DEF L!ListingsAssumption, L!TypeOK, L!Request
<1>2. [n |-> asked + 1, filter |-> f, cursor |-> c] \in L!Ask
  BY <1>1 DEF L!Ask
<1>3. listAsks' \subseteq L!Ask
  BY <1>2 DEF L!TypeOK, L!Request
<1> QED BY <1>1, <1>3

LEMMA NextListTyped == ASSUME L!ListingsAssumption PROVE ListInv /\ [L!Next]_L!vars => ListTyped'
<1> SUFFICES ASSUME ListInv, [L!Next]_L!vars PROVE ListTyped'
  OBVIOUS
<1>0. L!TypeOK /\ CountInv /\ PageInv
  BY DEF ListInv, ListTyped
<1> USE DEF L!server, L!client, L!walked
<1>1. CASE UNCHANGED L!vars
  <2>1. L!TypeOK'
    BY <1>0, <1>1 DEF L!vars, L!TypeOK
  <2>2. CountInv'
    BY <1>0, <1>1 DEF L!vars, CountInv, Since
  <2>3. PageInv'
    BY <1>0, <1>1 DEF L!vars, PageInv, Since, L!Matches, L!After
  <2> QED BY <2>1, <2>2, <2>3 DEF ListTyped
<1>2. ASSUME NEW r \in Rows, L!Begin(r) PROVE ListTyped'
  <2>1. L!TypeOK'
    BY <1>0, <1>2 DEF L!Begin, L!TypeOK, L!Cursors
  <2>2. CountInv'
    BY <1>0, <1>2 DEF L!Begin, CountInv, Since
  <2>3. PageInv'
    BY <1>0, <1>2 DEF L!Begin, PageInv, Since, L!Matches, L!After
  <2> QED BY <2>1, <2>2, <2>3 DEF ListTyped
<1>3. ASSUME NEW w \in open, L!Commit(w) PROVE ListTyped'
  <2>0. w.id \in Rows /\ w.at \in 1..MaxTime
    BY <1>0 DEF L!TypeOK, L!Cursors
  <2>1. L!TypeOK'
    <3>1. stamp' \in [Rows -> 0..MaxTime]
      <4>1. stamp' = [stamp EXCEPT ![w.id] = w.at] \/ stamp' = [stamp EXCEPT ![w.id] = 0]
        BY <1>3 DEF L!Commit
      <4>2. stamp \in [Rows -> 0..MaxTime] /\ w.at \in 0..MaxTime /\ 0 \in 0..MaxTime
        BY <1>0, <2>0 DEF L!TypeOK, L!ListingsAssumption
      <4> QED BY <4>1, <4>2
    <3>2. some' \subseteq Rows /\ open' \subseteq L!Cursors
      BY <1>0, <1>3, <2>0 DEF L!Commit, L!TypeOK
    <3> QED BY <1>0, <1>3, <3>1, <3>2 DEF L!Commit, L!TypeOK
  <2>2. /\ listWrites' = [n |-> listWrites.n + 1, of |-> [listWrites.of EXCEPT ![w.id] = listWrites.n + 1]]
        /\ listWrites'.n = listWrites.n + 1 /\ listWrites'.of = [listWrites.of EXCEPT ![w.id] = listWrites.n + 1]
    BY <1>3 DEF L!Commit
  <2>3. \A r \in Rows : listWrites'.of[r] = IF r = w.id THEN listWrites.n + 1 ELSE listWrites.of[r]
    BY <1>0, <2>2 DEF CountInv
  <2>4. CountInv'
    <3>1. listWrites'.n \in Nat /\ listWrites'.of \in [Rows -> Nat] /\ listWrites' = [n |-> listWrites'.n, of |-> listWrites'.of]
      BY <1>0, <2>0, <2>2 DEF CountInv
    <3>2. \A r \in Rows : listWrites'.of[r] <= listWrites'.n
      BY <1>0, <2>2, <2>3 DEF CountInv, Since
    <3>3. walk' = walk /\ mixed' = mixed /\ eager' = eager /\ walk.writes <= listWrites'.n
      BY <1>0, <1>3, <2>2 DEF CountInv, L!Commit
    <3> QED BY <1>0, <3>1, <3>2, <3>3 DEF CountInv, Since
  <2>5. PageInv'
    <3>0. UNCHANGED listAnswers
      BY <1>3 DEF L!Commit
    <3>1. ASSUME NEW a \in listAnswers PROVE a.writes \in Nat /\ a.writes <= listWrites.n /\ listWrites.n \in Nat
      BY <1>0 DEF PageInv, CountInv
    <3>2. ASSUME NEW a \in listAnswers, NEW r \in Rows, listWrites'.of[r] <= a.writes
          PROVE  r \in a.rows <=> L!Matches(r, a.ask.filter)' /\ L!After(r, a.ask.cursor)'
                                    /\ ~(a.next # None /\ L!After(r, a.next)')
      <4>1. r # w.id /\ Since(r, a.writes)
        BY <2>3, <3>1, <3>2 DEF Since
      <4>2. stamp'[r] = stamp[r] /\ (r \in some' <=> r \in some)
        BY <1>0, <1>3, <4>1 DEF L!Commit, L!TypeOK
      <4> QED BY <1>0, <4>1, <4>2 DEF PageInv, L!Matches, L!After
    <3>3. \A a \in listAnswers : a.writes <= listWrites'.n
      BY <2>2, <3>1
    <3> QED BY <1>0, <3>0, <3>2, <3>3 DEF PageInv, Since
  <2> QED BY <2>1, <2>4, <2>5 DEF ListTyped
<1>4. CASE L!Tick
  <2>1. L!TypeOK'
    BY <1>0, <1>4 DEF L!Tick, L!TypeOK, L!ListingsAssumption
  <2>2. CountInv'
    BY <1>0, <1>4 DEF L!Tick, CountInv, Since
  <2>3. PageInv'
    BY <1>0, <1>4 DEF L!Tick, PageInv, Since, L!Matches, L!After
  <2> QED BY <2>1, <2>2, <2>3 DEF ListTyped
<1>5. ASSUME NEW a \in listAsks, L!Answer(a) PROVE ListTyped'
  <2> DEFINE w == [ask |-> a, rows |-> L!Page(L!Found(a)).rows, next |-> L!Page(L!Found(a)).next, writes |-> listWrites.n]
  <2>0. /\ listAnswers' = listAnswers \cup {w} /\ listAsks' = listAsks \ {a} /\ Unread
        /\ UNCHANGED <<time, open, filter, shown, cursor, asked, walk, mixed, eager>>
    BY <1>5 DEF L!Answer, Unread
  <2>1. a \in L!Ask /\ w.ask = a /\ w.rows = L!Page(L!Found(a)).rows /\ w.next = L!Page(L!Found(a)).next /\ w.writes = listWrites.n
    BY <1>0 DEF L!TypeOK
  <2>2. /\ L!Found(a) \subseteq Rows
        /\ \A r \in Rows : r \in L!Found(a) <=> L!Matches(r, a.filter) /\ L!After(r, a.cursor)
    BY DEF L!Found
  <2>3. \A r \in L!Found(a) : stamp[r] # 0
    BY DEF L!Found, L!Matches
  <2>4. /\ w.rows \subseteq L!Found(a)
        /\ w.next # None => \E c \in L!Found(a) : w.next = [at |-> stamp[c], id |-> c]
        /\ \A r \in L!Found(a) : r \in w.rows <=> ~(w.next # None /\ L!After(r, w.next))
    <3> HIDE DEF w
    <3>1. stamp \in [Rows -> 0..MaxTime]
      BY <1>0 DEF L!TypeOK
    <3> QED BY <2>1, <2>2, <2>3, <3>1, PageSplits
  <2> HIDE DEF w
  <2>5. w.next \in {None} \cup L!Cursors
    <3> SUFFICES ASSUME w.next # None PROVE w.next \in L!Cursors
      OBVIOUS
    <3>1. PICK c \in L!Found(a) : w.next = [at |-> stamp[c], id |-> c]
      BY <2>4
    <3>2. c \in Rows /\ stamp[c] \in 1..MaxTime
      <4>1. c \in Rows /\ stamp[c] # 0
        BY <2>2, <2>3, <3>1
      <4>2. MaxTime \in Nat /\ stamp[c] \in 0..MaxTime
        BY <1>0, <4>1 DEF L!TypeOK, L!ListingsAssumption
      <4> QED BY <4>1, <4>2
    <3> QED BY <3>1, <3>2 DEF L!Cursors
  <2>6. w.next # None /\ a.cursor # None =>
             w.next.at < a.cursor.at \/ (w.next.at = a.cursor.at /\ w.next.id < a.cursor.id)
    <3> SUFFICES ASSUME w.next # None, a.cursor # None
                 PROVE  w.next.at < a.cursor.at \/ (w.next.at = a.cursor.at /\ w.next.id < a.cursor.id)
      OBVIOUS
    <3>1. PICK c \in L!Found(a) : w.next = [at |-> stamp[c], id |-> c]
      BY <2>4
    <3>2. L!After(c, a.cursor) /\ w.next.at = stamp[c] /\ w.next.id = c
      BY <2>2, <3>1
    <3> QED BY <3>2 DEF L!After
  <2>7. L!TypeOK'
    BY <1>0, <2>0, <2>1, <2>2, <2>4 DEF L!TypeOK, Unread
  <2>8. CountInv'
    BY <1>0, <2>0 DEF CountInv, Unread, Since
  <2>9. PageInv'
    <3>1. PageInv' <=> \A b \in listAnswers' :
        /\ b.ask \in L!Ask /\ b.rows \subseteq Rows /\ b.next \in {None} \cup L!Cursors
        /\ b.writes \in Nat /\ b.writes <= listWrites.n
        /\ b.next # None /\ b.ask.cursor # None =>
             b.next.at < b.ask.cursor.at \/ (b.next.at = b.ask.cursor.at /\ b.next.id < b.ask.cursor.id)
        /\ \A r \in Rows : Since(r, b.writes) =>
             (r \in b.rows <=> L!Matches(r, b.ask.filter) /\ L!After(r, b.ask.cursor)
                               /\ ~(b.next # None /\ L!After(r, b.next)))
      BY <2>0 DEF PageInv, Unread, Since, L!Matches, L!After
    <3>2. \A r \in Rows : r \in w.rows <=> L!Matches(r, a.filter) /\ L!After(r, a.cursor)
                               /\ ~(w.next # None /\ L!After(r, w.next))
      BY <2>2, <2>4
    <3>3. w.rows \subseteq Rows /\ w.writes \in Nat /\ w.writes <= listWrites.n
      BY <1>0, <2>1, <2>2, <2>4 DEF CountInv
    <3> QED BY <1>0, <2>0, <2>1, <2>5, <2>6, <3>1, <3>2, <3>3 DEF PageInv
  <2> QED BY <2>7, <2>8, <2>9 DEF ListTyped
<1>6. ASSUME NEW a \in listAsks, L!Fail(a) PROVE ListTyped'
  <2>1. L!TypeOK'
    BY <1>0, <1>6 DEF L!Fail, L!TypeOK
  <2>2. CountInv'
    BY <1>0, <1>6 DEF L!Fail, CountInv, Since
  <2>3. PageInv'
    BY <1>0, <1>6 DEF L!Fail, PageInv, Since, L!Matches, L!After
  <2> QED BY <2>1, <2>2, <2>3 DEF ListTyped
<1>7. ASSUME NEW f \in L!Filters, L!Search(f) \/ L!EditFilters(f) PROVE ListTyped'
  <2>1. L!TypeOK'
    <3>1. L!Request(f, None) \/ UNCHANGED <<asked, listAsks>>
      BY <1>7 DEF L!Search, L!EditFilters
    <3>2. asked' \in 0..MaxAsks /\ listAsks' \subseteq L!Ask
      BY <1>0, <3>1, RequestTyped DEF L!TypeOK
    <3> QED BY <1>0, <1>7, <3>2 DEF L!Search, L!EditFilters, L!Still, L!TypeOK
  <2>2. CountInv'
    BY <1>0, <1>7 DEF L!Search, L!EditFilters, L!Request, L!Still, CountInv, Since
  <2>3. PageInv'
    BY <1>0, <1>7 DEF L!Search, L!EditFilters, L!Request, L!Still, PageInv, Since, L!Matches, L!After
  <2> QED BY <2>1, <2>2, <2>3 DEF ListTyped
<1>8. CASE L!QuickAdd \/ L!ApplyFilters \/ L!LoadMembers
  <2> USE DEF L!QuickAdd, L!ApplyFilters, L!LoadMembers
  <2>1. L!TypeOK'
    <3>1. filter \in L!Filters /\ L!Request(filter, None)
      BY <1>0, <1>8 DEF L!TypeOK
    <3>2. asked' \in 0..MaxAsks /\ listAsks' \subseteq L!Ask
      BY <1>0, <3>1, RequestTyped
    <3> QED BY <1>0, <1>8, <3>2 DEF L!Still, L!TypeOK
  <2>2. CountInv'
    BY <1>0, <1>8 DEF L!Request, L!Still, CountInv, Since
  <2>3. PageInv'
    BY <1>0, <1>8 DEF L!Request, L!Still, PageInv, Since, L!Matches, L!After
  <2> QED BY <2>1, <2>2, <2>3 DEF ListTyped
<1>9. CASE L!More
  <2>1. L!TypeOK'
    BY <1>0, <1>9 DEF L!More, L!Request, L!Still, L!TypeOK, L!Ask, L!ListingsAssumption
  <2>2. CountInv'
    <3>1. eager' \in BOOLEAN
      BY <1>9 DEF L!More
    <3> QED BY <1>0, <1>9, <3>1 DEF L!More, L!Still, CountInv, Since
  <2>3. PageInv'
    BY <1>0, <1>9 DEF L!More, L!Request, L!Still, PageInv, Since, L!Matches, L!After
  <2> QED BY <2>1, <2>2, <2>3 DEF ListTyped
<1>10. ASSUME NEW a \in listAnswers, L!Receive(a) PROVE ListTyped'
  <2>0. a.ask \in L!Ask /\ a.rows \subseteq Rows /\ a.next \in {None} \cup L!Cursors /\ a.writes \in Nat /\ a.writes <= listWrites.n
    BY <1>0 DEF PageInv
  <2>1. L!TypeOK'
    <3>1. shown' \in [Rows -> Nat] /\ cursor' \in {None} \cup L!Cursors
      BY <1>0, <1>10, <2>0 DEF L!Receive, L!Show, L!TypeOK
    <3> QED BY <1>0, <1>10, <3>1 DEF L!Receive, L!TypeOK
  <2>2. CountInv'
    <3>1. /\ UNCHANGED listWrites
          /\ UNCHANGED walk \/ walk' = [filter |-> a.ask.filter, writes |-> a.writes]
          /\ UNCHANGED mixed \/ mixed' \in BOOLEAN
          /\ UNCHANGED eager \/ eager' \in BOOLEAN
      BY <1>10 DEF L!Receive, L!Show
    <3>2. a.ask.filter \in L!Filters
      BY <2>0 DEF L!Ask
    <3> QED BY <1>0, <2>0, <3>1, <3>2 DEF CountInv, Since
  <2>3. PageInv'
    BY <1>0, <1>10 DEF L!Receive, PageInv, Since, L!Matches, L!After
  <2> QED BY <2>1, <2>2, <2>3 DEF ListTyped
<1> QED
  BY <1>1, <1>2, <1>3, <1>4, <1>5, <1>6, <1>7, <1>8, <1>9, <1>10
  DEF L!Next, L!MoreContacts, L!MoreEntries, L!MoreMembers

\* A step of the client that is not an answer keeps the numbers of the requests apart.
LEMMA NumbersStay ==
    ASSUME NumbersInv, L!TypeOK, UNCHANGED listAnswers,
           \/ UNCHANGED asked /\ listAsks' \subseteq listAsks
           \/ \E f, c : L!Request(f, c)
    PROVE  NumbersInv'
<1>1. CASE UNCHANGED asked /\ listAsks' \subseteq listAsks
  BY <1>1 DEF NumbersInv
<1>2. CASE \E f, c : L!Request(f, c)
  <2>1. PICK f, c : L!Request(f, c)
    BY <1>2
  <2> DEFINE b == [n |-> asked + 1, filter |-> f, cursor |-> c]
  <2>2. asked \in Nat /\ asked' = asked + 1 /\ listAsks' = listAsks \cup {b} /\ b.n = asked + 1
    BY <2>1 DEF L!Request, L!TypeOK
  <2>3. \A a \in listAsks : a.n \in Nat /\ a.n <= asked
    BY DEF L!TypeOK, L!Ask, NumbersInv
  <2>4. \A w \in listAnswers : w.ask.n \in Nat /\ w.ask.n <= asked
    BY DEF L!TypeOK, L!Ask, NumbersInv
  <2> HIDE DEF b
  <2>5. \A a \in listAsks : a.n < b.n
    BY <2>2, <2>3
  <2>6. \A w \in listAnswers : w.ask.n < b.n
    BY <2>2, <2>4
  <2> QED BY <2>2, <2>3, <2>4, <2>5, <2>6 DEF NumbersInv
<1> QED BY <1>1, <1>2

LEMMA NextNumbers == ASSUME L!ListingsAssumption PROVE ListInv /\ [L!Next]_L!vars => NumbersInv'
<1> SUFFICES ASSUME ListInv, [L!Next]_L!vars PROVE NumbersInv'
  OBVIOUS
<1>0. NumbersInv /\ L!TypeOK
  BY DEF ListInv, ListTyped
<1> USE DEF L!server, L!client, L!walked
<1>1. CASE UNCHANGED L!vars
  BY <1>0, <1>1, NumbersStay DEF L!vars
<1>2. CASE L!Tick \/ \E r \in Rows : L!Begin(r)
  BY <1>0, <1>2, NumbersStay DEF L!Begin, L!Tick
<1>3. CASE \E w \in open : L!Commit(w)
  BY <1>0, <1>3, NumbersStay DEF L!Commit
<1>4. ASSUME NEW a \in listAsks, L!Answer(a) PROVE NumbersInv'
  <2> DEFINE w == [ask |-> a, rows |-> L!Page(L!Found(a)).rows, next |-> L!Page(L!Found(a)).next, writes |-> listWrites.n]
  <2>1. listAnswers' = listAnswers \cup {w} /\ listAsks' = listAsks \ {a} /\ UNCHANGED asked /\ w.ask = a
    BY <1>4 DEF L!Answer
  <2> HIDE DEF w
  <2> QED BY <1>0, <2>1 DEF NumbersInv
<1>5. ASSUME NEW a \in listAsks, L!Fail(a) PROVE NumbersInv'
  BY <1>0, <1>5, NumbersStay DEF L!Fail
<1>6. ASSUME NEW f \in L!Filters, L!Search(f) \/ L!EditFilters(f) PROVE NumbersInv'
  BY <1>0, <1>6, NumbersStay DEF L!Search, L!EditFilters, L!Still
<1>7. CASE L!QuickAdd \/ L!ApplyFilters \/ L!LoadMembers \/ L!More
  BY <1>0, <1>7, NumbersStay DEF L!QuickAdd, L!ApplyFilters, L!LoadMembers, L!More, L!Still
<1>8. ASSUME NEW a \in listAnswers, L!Receive(a) PROVE NumbersInv'
  BY <1>0, <1>8 DEF NumbersInv, L!Receive
<1> QED
  BY <1>1, <1>2, <1>3, <1>4, <1>5, <1>6, <1>7, <1>8
  DEF L!Next, L!MoreContacts, L!MoreEntries, L!MoreMembers

\* What the search of contacts asks next follows what it shows.
LEMMA NextSearch ==
    ASSUME L!ListingsAssumption PROVE ListInv /\ [L!Next]_L!vars => LastInv' /\ SearchesAreNotMixed'
<1> SUFFICES ASSUME ListInv, [L!Next]_L!vars, list' = "contacts"
             PROVE  /\ \A a \in listAsks' : Follows(a)'
                    /\ \A w \in listAnswers' : Follows(w.ask)' /\ (w.ask.n = asked' /\ w.ask.cursor # None => walk'.writes <= w.writes)
                    /\ mixed' => eager'
  BY DEF LastInv, SearchesAreNotMixed, L!SearchesAreNotMixed
<1> USE DEF L!server, L!client, L!walked
<1>0. /\ L!TypeOK /\ CountInv /\ PageInv /\ NumbersInv /\ list = "contacts"
      /\ \A a \in listAsks : Follows(a)
      /\ \A w \in listAnswers : Follows(w.ask) /\ (w.ask.n = asked /\ w.ask.cursor # None => walk.writes <= w.writes)
      /\ mixed => eager
  <2>1. list = "contacts"
    BY DEF L!Next, L!vars, L!Begin, L!Commit, L!Tick, L!Answer, L!Fail, L!Search, L!EditFilters, L!QuickAdd, L!ApplyFilters,
           L!LoadMembers, L!MoreContacts, L!MoreEntries, L!MoreMembers, L!More, L!Still, L!Receive
  <2> QED BY <2>1 DEF ListInv, ListTyped, LastInv, SearchesAreNotMixed, L!SearchesAreNotMixed
<1>1. CASE UNCHANGED <<filter, shown, cursor, asked, listAsks, listAnswers, walk, mixed, eager>>
  BY <1>0, <1>1 DEF Follows
<1>2. ASSUME NEW a \in listAsks, L!Answer(a)
      PROVE  /\ \A b \in listAsks' : Follows(b)'
             /\ \A w \in listAnswers' : Follows(w.ask)' /\ (w.ask.n = asked' /\ w.ask.cursor # None => walk'.writes <= w.writes)
             /\ mixed' => eager'
  <2> DEFINE w == [ask |-> a, rows |-> L!Page(L!Found(a)).rows, next |-> L!Page(L!Found(a)).next, writes |-> listWrites.n]
  <2>1. listAnswers' = listAnswers \cup {w} /\ listAsks' = listAsks \ {a} /\ w.ask = a /\ w.writes = listWrites.n
    BY <1>2 DEF L!Answer
  <2>2. UNCHANGED <<cursor, asked, walk, mixed, eager>>
    BY <1>2 DEF L!Answer
  <2>3. walk.writes <= listWrites.n
    BY <1>0 DEF CountInv
  <2> HIDE DEF w
  <2> QED BY <1>0, <2>1, <2>2, <2>3 DEF Follows
<1>3. CASE UNCHANGED <<cursor, asked, listAnswers, walk, mixed, eager>> /\ listAsks' \subseteq listAsks
  BY <1>0, <1>3 DEF Follows
<1>4. ASSUME NEW f, NEW c, L!Request(f, c), UNCHANGED <<cursor, listAnswers, walk, mixed>>,
             c # None => c = cursor /\ (eager \/ f # walk.filter => eager'), eager => eager'
      PROVE  /\ \A a \in listAsks' : Follows(a)'
             /\ \A w \in listAnswers' : Follows(w.ask)' /\ (w.ask.n = asked' /\ w.ask.cursor # None => walk'.writes <= w.writes)
             /\ mixed' => eager'
  <2>0. PICK b : b = [n |-> asked + 1, filter |-> f, cursor |-> c]
    OBVIOUS
  <2>1. /\ asked \in Nat /\ asked' = asked + 1 /\ listAsks' = listAsks \cup {b}
        /\ b.n = asked + 1 /\ b.filter = f /\ b.cursor = c
    BY <1>0, <1>4, <2>0 DEF L!Request, L!TypeOK
  <2>2. \A a \in listAsks : a.n # asked'
    BY <1>0, <2>1 DEF L!TypeOK, L!Ask, NumbersInv
  <2>3. \A w \in listAnswers : w.ask.n # asked'
    BY <1>0, <2>1 DEF L!TypeOK, L!Ask, NumbersInv
  <2>4. Follows(b)'
    BY <1>4, <2>1 DEF Follows
  <2> QED BY <1>0, <1>4, <2>1, <2>2, <2>3, <2>4 DEF Follows
<1>5. ASSUME NEW a \in listAnswers, L!Receive(a)
      PROVE  /\ \A b \in listAsks' : Follows(b)'
             /\ \A w \in listAnswers' : Follows(w.ask)' /\ (w.ask.n = asked' /\ w.ask.cursor # None => walk'.writes <= w.writes)
             /\ mixed' => eager'
  <2>1. listAnswers' = listAnswers \ {a} /\ UNCHANGED <<listAsks, asked>>
    BY <1>5 DEF L!Receive
  <2>2. CASE a.ask.n # asked
    <3>1. UNCHANGED <<cursor, walk, mixed, eager>>
      BY <1>0, <1>5, <2>2 DEF L!Receive, L!Superseded
    <3> QED BY <1>0, <2>1, <3>1 DEF Follows
  <2>3. CASE a.ask.n = asked
    <3>1. (\A b \in listAsks' : b.n # asked') /\ (\A w \in listAnswers' : w.ask.n # asked')
      BY <1>0, <2>1, <2>3 DEF NumbersInv
    <3>2. L!Show(a)
      BY <1>5, <2>3 DEF L!Receive, L!Superseded
    <3>3. CASE a.ask.cursor = None
      BY <3>1, <3>2, <3>3 DEF L!Show, Follows
    <3>4. CASE a.ask.cursor # None
      <4>1. a.ask.cursor = cursor /\ (a.ask.filter = walk.filter \/ eager) /\ walk.writes <= a.writes
        BY <1>0, <2>3, <3>4 DEF Follows
      <4>2. walk.writes \in Nat /\ a.writes \in Nat
        BY <1>0 DEF CountInv, PageInv
      <4>3. eager' = eager /\ mixed' = (mixed \/ a.ask.filter # walk.filter)
        BY <3>2, <3>4, <4>1, <4>2 DEF L!Show
      <4> QED BY <1>0, <3>1, <4>1, <4>3 DEF Follows
    <3> QED BY <3>3, <3>4
  <2> QED BY <2>2, <2>3
<1> QED
  <2>1. CASE UNCHANGED L!vars \/ L!Tick \/ (\E r \in Rows : L!Begin(r)) \/ (\E w \in open : L!Commit(w))
    BY <2>1, <1>1 DEF L!vars, L!Begin, L!Commit, L!Tick
  <2>2. CASE \E a \in listAsks : L!Fail(a)
    BY <2>2, <1>3 DEF L!Fail
  <2>3. CASE \E f \in L!Filters : L!Search(f) \/ L!EditFilters(f)
    BY <1>0, <2>3, <1>4 DEF L!Search, L!EditFilters, L!Still
  <2>4. CASE L!QuickAdd \/ L!ApplyFilters \/ L!LoadMembers
    BY <2>4, <1>4 DEF L!QuickAdd, L!ApplyFilters, L!LoadMembers, L!Still
  <2>5. CASE L!More
    BY <2>5, <1>4 DEF L!More, L!Still
  <2> QED BY <1>2, <1>5, <2>1, <2>2, <2>3, <2>4, <2>5 DEF L!Next, L!MoreContacts, L!MoreEntries, L!MoreMembers

LEMMA NextRows ==
    ASSUME L!ListingsAssumption PROVE ListInv /\ [L!Next]_L!vars => EachRowIsListedOnce'
<1> SUFFICES ASSUME ListInv, [L!Next]_L!vars PROVE EachRowIsListedOnce'
  OBVIOUS
<1>0. L!TypeOK /\ CountInv /\ PageInv /\ EachRowIsListedOnce
  BY DEF ListInv, ListTyped
<1> USE DEF L!server, L!client, L!walked
<1>1. CASE UNCHANGED <<stamp, some, shown, cursor, listWrites, walk, mixed>>
  BY <1>0, <1>1 DEF EachRowIsListedOnce, L!EachRowIsListedOnce, L!Calm, L!Matches, L!After, L!NoWalk
<1>2. ASSUME NEW w \in open, L!Commit(w) PROVE EachRowIsListedOnce'
  <2>1. UNCHANGED <<shown, cursor, walk, mixed>> /\ listWrites'.of = [listWrites.of EXCEPT ![w.id] = listWrites.n + 1]
    BY <1>2 DEF L!Commit
  <2>2. ASSUME NEW r \in Rows, listWrites'.of[r] <= walk.writes
        PROVE  listWrites.of[r] <= walk.writes /\ stamp'[r] = stamp[r] /\ (r \in some' <=> r \in some)
    <3>1. r # w.id
      BY <1>0, <2>1, <2>2 DEF CountInv
    <3>2. listWrites.of[r] <= walk.writes
      BY <1>0, <2>1, <2>2, <3>1 DEF CountInv
    <3> QED BY <1>0, <1>2, <3>1, <3>2 DEF L!Commit, L!TypeOK
  <2> SUFFICES ASSUME walk # L!NoWalk, ~mixed, NEW r \in Rows, listWrites'.of[r] <= walk.writes, L!Matches(r, walk.filter)'
               PROVE  shown[r] = IF cursor # None /\ L!After(r, cursor)' THEN 0 ELSE 1
    BY <2>1 DEF EachRowIsListedOnce, L!EachRowIsListedOnce, L!Calm, L!NoWalk
  <2>3. listWrites.of[r] <= walk.writes /\ L!Matches(r, walk.filter)
    BY <2>1, <2>2 DEF L!Matches
  <2>4. L!After(r, cursor)' <=> L!After(r, cursor)
    BY <2>1, <2>2 DEF L!After
  <2> QED BY <1>0, <2>3, <2>4 DEF EachRowIsListedOnce, L!EachRowIsListedOnce, L!Calm
<1>3. ASSUME NEW a \in listAnswers, L!Receive(a), L!Show(a) PROVE EachRowIsListedOnce'
  <2>0. UNCHANGED <<stamp, some, listWrites>> /\ cursor' = a.next
    BY <1>3 DEF L!Receive, L!Show
  <2>1. \A r \in Rows : listWrites.of[r] <= a.writes =>
             (r \in a.rows <=> L!Matches(r, a.ask.filter) /\ L!After(r, a.ask.cursor)
                               /\ ~(a.next # None /\ L!After(r, a.next)))
    BY <1>0 DEF PageInv, Since
  <2>2. CASE a.ask.cursor = None
    <3>1. /\ shown' = [r \in Rows |-> IF r \in a.rows THEN 1 ELSE 0]
          /\ walk'.filter = a.ask.filter /\ walk'.writes = a.writes
      BY <1>3, <2>2 DEF L!Show
    <3>2. \A r \in Rows : L!After(r, a.ask.cursor)
      BY <2>2 DEF L!After
    <3> SUFFICES ASSUME NEW r \in Rows, listWrites.of[r] <= a.writes, L!Matches(r, a.ask.filter)
                 PROVE  shown'[r] = IF a.next # None /\ L!After(r, a.next) THEN 0 ELSE 1
      BY <2>0, <3>1 DEF EachRowIsListedOnce, L!EachRowIsListedOnce, L!Calm, L!Matches, L!After
    <3> QED BY <2>1, <3>1, <3>2
  <2>3. CASE a.ask.cursor # None
    <3>1. /\ shown' = [r \in Rows |-> IF r \in a.rows THEN shown[r] + 1 ELSE shown[r]]
          /\ UNCHANGED walk
          /\ mixed' = (mixed \/ a.ask.cursor # cursor \/ a.ask.filter # walk.filter \/ a.writes < walk.writes)
      BY <1>3, <2>3 DEF L!Show
    <3> SUFFICES ASSUME walk # L!NoWalk, ~mixed, a.ask.cursor = cursor, a.ask.filter = walk.filter, ~(a.writes < walk.writes),
                        NEW r \in Rows, listWrites.of[r] <= walk.writes, L!Matches(r, walk.filter)
                 PROVE  shown'[r] = IF a.next # None /\ L!After(r, a.next) THEN 0 ELSE 1
      BY <2>0, <3>1 DEF EachRowIsListedOnce, L!EachRowIsListedOnce, L!Calm, L!Matches, L!After, L!NoWalk
    <3>2. listWrites.of[r] <= a.writes
      BY <1>0 DEF CountInv, PageInv
    <3>3. r \in a.rows <=> L!After(r, cursor) /\ ~(a.next # None /\ L!After(r, a.next))
      BY <2>1, <3>2
    <3>4. shown[r] = IF L!After(r, cursor) THEN 0 ELSE 1
      BY <1>0, <2>3 DEF EachRowIsListedOnce, L!EachRowIsListedOnce, L!Calm
    <3>5. a.next # None /\ L!After(r, a.next) => L!After(r, cursor)
      <4> SUFFICES ASSUME a.next # None, L!After(r, a.next) PROVE L!After(r, cursor)
        OBVIOUS
      <4>1. a.next.at < cursor.at \/ (a.next.at = cursor.at /\ a.next.id < cursor.id)
        BY <1>0, <2>3 DEF PageInv
      <4>2. a.next \in L!Cursors /\ cursor \in L!Cursors
        BY <1>0, <2>3 DEF PageInv, L!TypeOK
      <4>3. {a.next.at, cursor.at, a.next.id, cursor.id, stamp[r], r} \subseteq Nat
        <5>1. MaxTime \in Nat
          BY DEF L!ListingsAssumption
        <5>2. r \in Nat /\ a.next.id \in Nat /\ cursor.id \in Nat
          BY <4>2, RowsAreFinite DEF L!Cursors
        <5>3. a.next.at \in Nat /\ cursor.at \in Nat
          BY <4>2, <5>1 DEF L!Cursors
        <5>4. stamp[r] \in Nat
          BY <1>0, <5>1 DEF L!TypeOK
        <5> QED BY <5>2, <5>3, <5>4
      <4> QED BY <4>1, <4>3 DEF L!After
    <3> QED BY <3>1, <3>3, <3>4, <3>5
  <2> QED BY <2>2, <2>3
<1>4. ASSUME NEW a \in listAnswers, L!Receive(a) PROVE EachRowIsListedOnce'
  <2>1. CASE L!Superseded(a)
    BY <1>1, <1>4, <2>1 DEF L!Receive
  <2>2. CASE ~L!Superseded(a)
    BY <1>3, <1>4, <2>2 DEF L!Receive
  <2> QED BY <2>1, <2>2
<1> QED
  <2>1. CASE UNCHANGED L!vars \/ L!Tick \/ (\E r \in Rows : L!Begin(r)) \/ (\E a \in listAsks : L!Answer(a) \/ L!Fail(a))
    BY <2>1, <1>1 DEF L!vars, L!Begin, L!Tick, L!Answer, L!Fail
  <2>2. CASE \E f \in L!Filters : L!Search(f) \/ L!EditFilters(f)
    BY <2>2, <1>1 DEF L!Search, L!EditFilters, L!Still
  <2>3. CASE L!QuickAdd \/ L!ApplyFilters \/ L!LoadMembers \/ L!More
    BY <2>3, <1>1 DEF L!QuickAdd, L!ApplyFilters, L!LoadMembers, L!More, L!Still
  <2> QED BY <1>2, <1>4, <2>1, <2>2, <2>3 DEF L!Next, L!MoreContacts, L!MoreEntries, L!MoreMembers

LEMMA NextList == ASSUME L!ListingsAssumption PROVE ListInv /\ [L!Next]_L!vars => ListInv'
BY NextListTyped, NextNumbers, NextSearch, NextRows DEF ListInv

\* A walk shows every row nobody writes meanwhile once, or has it still to come: whatever else is
\* inserted, deleted or moved, however long the pages are and however many rows have one time
\* (search, contacts-query.service.ts:106; list, audit-log.controller.ts:87).
THEOREM RowsListedOnce == ASSUME L!ListingsAssumption PROVE L!Spec => []EachRowIsListedOnce
<1>1. ListInv => EachRowIsListedOnce
  BY DEF ListInv
<1> QED BY <1>1, InitList, NextList, PTL DEF L!Spec

\* The search of contacts never appends a page to another search, however its answers arrive
\* (contacts-screen.tsx:59): unless more was asked for before the first page was there, or it failed.
THEOREM SearchesKeptApart == ASSUME L!ListingsAssumption PROVE L!Spec => []SearchesAreNotMixed
<1>1. ListInv => SearchesAreNotMixed
  BY DEF ListInv
<1> QED BY <1>1, InitList, NextList, PTL DEF L!Spec

-----------------------------------------------------------------------------
(* Editors: ConsoleEdits, whose operators are E!... *)

Row == (SUBSET (Parts \cup {"off"})) \cup {None, Gone}

\* Row i of rows was X once, and every part that is different by now was written after write m.
FreshIn(rows, last, count, X, i, m) ==
    /\ m \in Nat /\ m <= count /\ rows[i] # None
    /\ rows[i] # Gone => \A p \in Parts : (p \in X <=> p \in rows[i]) \/ last[i][p] \notin 1..m

Fresh(X, i, m) == FreshIn(server, changed, writes, X, i, m)

IsRow(X) == X # None /\ X # Gone

\* Screens whose editors start from the row they replace.
Replaces == screen \notin {"tables", "credentials"}

EditsTyped ==
    /\ screen \in E!AllScreens
    /\ server \in [Items -> Row] /\ table \in [Items -> Row]
    /\ \A i \in Items : table[i] # None => server[i] # None
    /\ writes \in Nat /\ changed \in [Items -> [Parts -> Nat]]
    /\ mine \in [Items -> Nat] /\ \A i \in Items : mine[i] <= writes
    /\ sent \in Nat /\ missed \in BOOLEAN

Editors == [id : Items \cup {New}, from : SUBSET Parts, draft : SUBSET Parts, since : Nat, mine : Nat]

\* An editor, opened or changed after the request number n.
EditorFits(e, n) ==
    /\ e \in Editors /\ n <= e.since /\ e.since <= sent
    /\ e.id \in Items /\ Replaces => Fresh(e.from, e.id, e.mine)

PanelsInv ==
    /\ editor # None => EditorFits(editor, 0)
    /\ target # None => target.id \in Items /\ target.to \subseteq {"off"}

\* The editor is still the one e that request number n was sent with, or none that is older.
Kept(e, n) == editor # None /\ editor.since < n => editor = e

AskFits(a) ==
    /\ a.op \in {"load", "create", "save", "status", "remove"}
    /\ a.n \in Nat /\ a.n <= sent /\ a.by \in Nat /\ a.by <= sent
    /\ a.op \in {"create", "save"} => a.draft \subseteq Parts /\ Kept(a.edit, a.n)
    /\ a.op = "status" => a.draft \subseteq {"off"} /\ (screen = "tenants" => Kept(a.edit, a.n))
    /\ a.op \in {"save", "status", "remove"} => a.id \in Items
    /\ a.op = "create" => a.id = New
    /\ a.op = "save" => /\ screen # "credentials" /\ a.edit.id = a.id
                        /\ Replaces => Fresh(a.edit.from, a.edit.id, a.edit.mine)
    /\ a.op = "remove" => screen # "tenants"
    /\ a.op = "load" /\ a.then = "editor" => Kept(a.edit, a.by)

\* What was written or read was the row then.
AnswerFits(w) ==
    /\ AskFits(w.ask) /\ w.writes \in Nat /\ w.writes <= writes
    /\ w.ask.op # "load" /\ w.id \in Items =>
         /\ w.row \in Row /\ w.row # None /\ server[w.id] # None
         /\ IsRow(w.row) => Fresh(w.row, w.id, w.writes)
    /\ w.ask.op = "load" =>
         /\ w.loaded \in [Items -> Row]
         /\ \A i \in Items : /\ w.loaded[i] # None => server[i] # None
                             /\ IsRow(w.loaded[i]) => Fresh(w.loaded[i], i, w.writes)

WireInv == (\A a \in asks : AskFits(a)) /\ (\A w \in answers : AnswerFits(w))

\* Rows are loading, or those that are shown are not the last that were loaded.
Loading == (\E a \in asks : a.op = "load") \/ \E w \in answers : w.ask.op = "load"
NotThere == Loading \/ missed

\* The rows that are shown are the last that were loaded.
Current ==
    /\ ~missed
    /\ \A a \in asks : a.op = "load" => a.n # latest
    /\ \A w \in answers : w.ask.op = "load" => w.ask.n # latest

\* The rows that were loaded last are no older than what this screen knows was done.
TableInv ==
    Replaces /\ Current =>
        \A i \in Items : IsRow(table[i]) => Fresh(table[i], i, mine[i])

LatestInv ==
    screen \notin {"tenants", "credentials"} =>
        \A w \in answers : w.ask.op = "load" /\ w.ask.n = latest => \A i \in Items : mine[i] <= w.writes

\* One screen sends one write at a time; while its rows are not there, only to create one.
OneWrite ==
    screen = "tenants" =>
        /\ \A a \in asks : a.op # "load" => Form \in busy
        /\ \A w \in answers : w.ask.op # "load" => Form \in busy
        /\ \A a \in asks, b \in asks : a.op # "load" /\ b.op # "load" => a = b
        /\ \A a \in asks, w \in answers : a.op = "load" \/ w.ask.op = "load"
        /\ \A v \in answers, w \in answers : v.ask.op # "load" /\ w.ask.op # "load" => v = w

DialogInv ==
    screen = "tenants" =>
        /\ editor = None \/ target = None
        /\ NotThere => /\ target = None /\ (editor # None => editor.id = New)
                       /\ \A a \in asks : a.op \in {"load", "create"}
                       /\ \A w \in answers : w.ask.op \in {"load", "create"}

AnswersInv ==
    screen = "tenants" =>
        \A w \in answers :
            /\ w.ask.op # "load" => \A i \in Items : mine[i] <= w.writes
            /\ w.ask.op = "load" =>
                 /\ \A i \in Items : w.loaded[i] # None => mine[i] <= w.writes
                 /\ \A v \in answers : v.ask.op = "create" /\ v.id \in Items /\ w.loaded[v.id] # None => v.writes <= w.writes

EditsInv ==
    /\ EditsTyped /\ PanelsInv /\ WireInv /\ TableInv /\ LatestInv
    /\ OneWrite /\ DialogInv /\ AnswersInv /\ OwnChangesStay /\ DraftsSurvive

LEMMA FreshLess ==
    ASSUME NEW s, NEW c, NEW n, NEW X, NEW i \in Items, NEW m, NEW k \in Nat, k <= m,
           c \in [Items -> [Parts -> Nat]], n \in Nat, FreshIn(s, c, n, X, i, m)
    PROVE  FreshIn(s, c, n, X, i, k)
<1>1. k <= n /\ m \in Nat
  BY DEF FreshIn
<1>2. \A p \in Parts : c[i][p] \notin 1..m => c[i][p] \notin 1..k
  <2> SUFFICES ASSUME NEW p \in Parts, c[i][p] \in 1..k PROVE c[i][p] \in 1..m
    OBVIOUS
  <2> QED BY <1>1
<1> QED BY <1>1, <1>2 DEF FreshIn

\* A write keeps what was known of the parts it leaves alone, and the number of the others is new.
LEMMA FreshWrite ==
    ASSUME EditsTyped, NEW i \in Items, NEW r \in Row, r # None, server[i] # Gone, E!Write(i, r)
    PROVE  /\ server' = [server EXCEPT ![i] = r] /\ server' \in [Items -> Row]
           /\ writes' \in Nat /\ writes <= writes' /\ changed' \in [Items -> [Parts -> Nat]]
           /\ \A j \in Items : server[j] # None => server'[j] # None
           /\ FreshIn(server', changed', writes', r, i, writes')
           /\ \A X, m : \A j \in Items : FreshIn(server, changed, writes, X, j, m) =>
                                         FreshIn(server', changed', writes', X, j, m)
<1> DEFINE other == IF r = Gone \/ server[i] = None THEN {} ELSE {p \in Parts : (p \in r) # (p \in server[i])}
<1>1. /\ server' = [server EXCEPT ![i] = r]
      /\ writes' = IF other = {} THEN writes ELSE writes + 1
      /\ changed' = [changed EXCEPT ![i] = [p \in Parts |-> IF p \in other THEN writes + 1 ELSE changed[i][p]]]
  BY DEF E!Write
<1>2. writes' \in Nat /\ writes <= writes'
  BY <1>1 DEF EditsTyped
<1>3. server' \in [Items -> Row] /\ changed' \in [Items -> [Parts -> Nat]]
  BY <1>1 DEF EditsTyped
<1>4. \A j \in Items : j # i => server'[j] = server[j] /\ changed'[j] = changed[j]
  BY <1>1 DEF EditsTyped
<1>5. server'[i] = r /\ \A p \in Parts : changed'[i][p] = IF p \in other THEN writes + 1 ELSE changed[i][p]
  BY <1>1 DEF EditsTyped
<1>6. FreshIn(server', changed', writes', r, i, writes')
  BY <1>2, <1>5 DEF FreshIn
<1>7. ASSUME NEW j \in Items, NEW X, NEW m, FreshIn(server, changed, writes, X, j, m)
      PROVE  FreshIn(server', changed', writes', X, j, m)
  <2>1. m \in Nat /\ m <= writes /\ m <= writes' /\ writes \in Nat
    BY <1>2, <1>7 DEF FreshIn, EditsTyped
  <2>2. CASE j # i
    BY <1>4, <1>7, <2>1, <2>2 DEF FreshIn
  <2>3. CASE j = i
    <3>1. server[i] # None
      BY <1>7, <2>3 DEF FreshIn
    <3>2. ASSUME r # Gone, NEW p \in Parts PROVE (p \in X <=> p \in r) \/ changed'[i][p] \notin 1..m
      <4>1. CASE p \in other
        <5>1. changed'[i][p] = writes + 1
          BY <1>5, <4>1
        <5> QED BY <2>1, <5>1
      <4>2. CASE p \notin other
        <5>1. p \in r <=> p \in server[i]
          BY <3>1, <3>2, <4>2
        <5>2. changed'[i][p] = changed[i][p]
          BY <1>5, <4>2
        <5> QED BY <1>7, <2>3, <5>1, <5>2 DEF FreshIn
      <4> QED BY <4>1, <4>2
    <3> QED BY <1>5, <2>1, <2>3, <3>2 DEF FreshIn
  <2> QED BY <2>2, <2>3
<1>8. \A j \in Items : server[j] # None => server'[j] # None
  BY <1>4, <1>5
<1> QED BY <1>1, <1>2, <1>3, <1>6, <1>7, <1>8

LEMMA LoadsAre == (E!Loads = {} <=> ~Loading) /\ (E!Hidden <=> NotThere)
BY DEF E!Loads, E!Asked, E!Hidden, Loading, NotThere

LEMMA InitEdits == ASSUME E!ConsoleEditsAssumption PROVE E!Init => EditsInv
<1> SUFFICES ASSUME E!Init PROVE EditsInv
  OBVIOUS
<1>0. /\ editor = None /\ target = None /\ answers = {} /\ missed = FALSE /\ dropped = FALSE /\ undone = FALSE
      /\ sent = 1 /\ latest = 1
      /\ \A a \in asks : a.n = 1 /\ a.op = "load" /\ a.by = 1 /\ a.then = "nothing"
      /\ \E a \in asks : a.n = 1 /\ a.op = "load"
  BY DEF E!Init, E!LoadOf
<1>1. EditsTyped
  <2>1. screen \in E!AllScreens
    BY DEF E!Init, E!ConsoleEditsAssumption
  <2>2. server \in [Items -> Row] /\ table \in [Items -> Row] /\ \A i \in Items : table[i] = None
    BY DEF E!Init, Row
  <2>3. writes = 0 /\ changed = [i \in Items |-> [p \in Parts |-> 0]] /\ mine = [i \in Items |-> 0]
    BY DEF E!Init
  <2>4. changed \in [Items -> [Parts -> Nat]] /\ mine \in [Items -> Nat] /\ \A i \in Items : mine[i] <= writes
    BY <2>3
  <2>5. missed \in BOOLEAN /\ sent \in Nat /\ writes \in Nat
    BY <1>0, <2>3
  <2> QED BY <2>1, <2>2, <2>4, <2>5 DEF EditsTyped
<1>2. PanelsInv
  BY <1>0 DEF PanelsInv
<1>3. WireInv
  BY <1>0 DEF WireInv, AskFits
<1>4. TableInv /\ LatestInv
  BY <1>0 DEF TableInv, Current, LatestInv
<1>5. OneWrite /\ DialogInv /\ AnswersInv
  BY <1>0 DEF OneWrite, DialogInv, AnswersInv
<1>6. OwnChangesStay /\ DraftsSurvive
  BY <1>0 DEF OwnChangesStay, DraftsSurvive, E!OwnChangesStay, E!DraftsSurvive
<1> QED BY <1>1, <1>2, <1>3, <1>4, <1>5, <1>6 DEF EditsInv

\* Only an editor or a target changes.
LEMMA PanelsStep ==
    ASSUME E!ConsoleEditsAssumption, EditsInv,
           UNCHANGED <<screen, server, table, busy, sent, asks, answers, writes, changed, mine, latest, missed, dropped, undone>>,
           editor' # None => editor' = editor \/ EditorFits(editor', sent),
           target' # None => target'.id \in Items /\ target'.to \subseteq {"off"},
           screen = "tenants" => /\ editor' = None \/ target' = None
                                 /\ NotThere => target' = None /\ (editor' # None => editor'.id = New)
    PROVE  EditsInv'
<1>0. EditsTyped /\ PanelsInv /\ WireInv /\ TableInv /\ LatestInv /\ OneWrite /\ DialogInv /\ AnswersInv
  BY DEF EditsInv
<1>1. EditsTyped'
  BY <1>0 DEF EditsTyped
<1>2. PanelsInv'
  <2>1. editor' # None => EditorFits(editor', 0)
    BY <1>0 DEF PanelsInv, EditorFits, Editors, EditsTyped
  <2> QED BY <2>1 DEF PanelsInv, EditorFits, Editors, Fresh, Replaces
<1>3. ASSUME NEW e, NEW n \in Nat, n <= sent, Kept(e, n) PROVE Kept(e, n)'
  BY <1>0, <1>3 DEF Kept, EditorFits, Editors, EditsTyped
<1>4. ASSUME NEW a, AskFits(a) PROVE AskFits(a)'
  BY <1>3, <1>4 DEF AskFits, Fresh, Replaces
<1>5. ASSUME NEW w, AnswerFits(w) PROVE AnswerFits(w)'
  BY <1>4, <1>5 DEF AnswerFits, Fresh
<1>6. WireInv'
  BY <1>0, <1>4, <1>5 DEF WireInv
<1>7. TableInv' /\ LatestInv' /\ OneWrite' /\ AnswersInv'
  BY <1>0 DEF TableInv, Current, LatestInv, OneWrite, AnswersInv, Replaces, Fresh
<1>8. DialogInv'
  BY <1>0 DEF DialogInv, NotThere, Loading
<1>9. OwnChangesStay' /\ DraftsSurvive'
  BY DEF EditsInv, OwnChangesStay, DraftsSurvive, E!OwnChangesStay, E!DraftsSurvive
<1> QED BY <1>1, <1>2, <1>6, <1>7, <1>8, <1>9 DEF EditsInv

\* A request is sent.
LEMMA SendStep ==
    ASSUME E!ConsoleEditsAssumption, EditsInv, NEW op \in {"create", "save", "status", "remove"}, NEW i, NEW draft, NEW keys,
           E!Send(op, i, draft, keys),
           op \in {"create", "save"} => draft \subseteq Parts,
           op = "status" => draft \subseteq {"off"},
           op \in {"save", "status", "remove"} => i \in Items,
           op = "create" => i = New,
           op = "save" => editor # None /\ editor.id = i /\ screen # "credentials",
           screen = "tenants" => /\ keys = {Form} /\ op # "remove" /\ (op = "status" => editor = None)
                                 /\ NotThere => op = "create"
    PROVE  EditsInv'
<1>0. EditsTyped /\ PanelsInv /\ WireInv /\ TableInv /\ LatestInv /\ OneWrite /\ DialogInv /\ AnswersInv
  BY DEF EditsInv
<1>1. PICK b : b = [n |-> sent + 1, op |-> op, id |-> i, draft |-> draft,
                    edit |-> IF op \in {"save", "create"} THEN editor ELSE None, by |-> sent + 1, then |-> "nothing"]
  OBVIOUS
<1>2. /\ b.n = sent + 1 /\ b.op = op /\ b.id = i /\ b.draft = draft /\ b.by = sent + 1 /\ b.then = "nothing"
      /\ op \in {"save", "create"} => b.edit = editor
  BY <1>1
<1>3. /\ sent' = sent + 1 /\ sent \in Nat /\ busy' = busy \cup keys /\ busy \cap keys = {} /\ asks' = asks \cup {b}
      /\ UNCHANGED <<screen, server, table, editor, target, answers, writes, changed, mine, latest, missed, dropped, undone>>
  BY <1>0, <1>1 DEF E!Send, EditsTyped, E!rows, E!panels, E!history, E!seen
<1>4. EditsTyped'
  BY <1>0, <1>3 DEF EditsTyped
<1>5. PanelsInv'
  BY <1>0, <1>3 DEF PanelsInv, EditorFits, Editors, Fresh, Replaces
<1>6. ASSUME NEW a, AskFits(a) PROVE AskFits(a)'
  BY <1>3, <1>6 DEF AskFits, Fresh, Replaces, Kept
<1>7. ASSUME NEW w, AnswerFits(w) PROVE AnswerFits(w)'
  BY <1>3, <1>6, <1>7 DEF AnswerFits, Fresh
<1>8. AskFits(b)'
  <2>1. b.op \in {"create", "save"} => Kept(b.edit, b.n)'
    BY <1>2, <1>3 DEF Kept
  <2>3. b.op = "status" /\ screen = "tenants" => Kept(b.edit, b.n)'
    BY <1>2, <1>3 DEF Kept
  <2>2. op = "save" => b.edit.id = b.id /\ (Replaces => Fresh(b.edit.from, b.edit.id, b.edit.mine))
    BY <1>0, <1>2 DEF PanelsInv, EditorFits, Editors
  <2> QED BY <1>2, <1>3, <2>1, <2>2, <2>3 DEF AskFits, Fresh, Replaces
<1>9. WireInv'
  BY <1>0, <1>3, <1>6, <1>7, <1>8 DEF WireInv
<1>10. TableInv' /\ LatestInv' /\ AnswersInv'
  BY <1>0, <1>2, <1>3 DEF TableInv, Current, LatestInv, AnswersInv, Replaces, Fresh
<1>11. OneWrite'
  BY <1>0, <1>2, <1>3 DEF OneWrite
<1>12. DialogInv'
  BY <1>0, <1>2, <1>3 DEF DialogInv, NotThere, Loading
<1>13. OwnChangesStay' /\ DraftsSurvive'
  BY <1>3 DEF EditsInv, OwnChangesStay, DraftsSurvive, E!OwnChangesStay, E!DraftsSurvive
<1> QED BY <1>4, <1>5, <1>9, <1>10, <1>11, <1>12, <1>13 DEF EditsInv

\* The rows are loaded again after that failed.
LEMMA LoadStep == ASSUME E!ConsoleEditsAssumption, EditsInv, E!LoadFirstPage PROVE EditsInv'
<1>0. EditsTyped /\ PanelsInv /\ WireInv /\ TableInv /\ LatestInv /\ OneWrite /\ DialogInv /\ AnswersInv
  BY DEF EditsInv
<1>1. PICK b : b = [n |-> sent + 1, op |-> "load", id |-> None, draft |-> {}, edit |-> None, by |-> sent + 1, then |-> "nothing"]
  OBVIOUS
<1>2. b.n = sent + 1 /\ b.op = "load" /\ b.by = sent + 1 /\ b.then = "nothing"
  BY <1>1
<1>3. /\ sent' = sent + 1 /\ sent \in Nat /\ asks' = asks \cup {b} /\ latest' = sent + 1 /\ screen = "tenants" /\ missed
      /\ UNCHANGED <<screen, server, table, editor, target, answers, busy, writes, changed, mine, missed, dropped, undone>>
  BY <1>0, <1>1 DEF E!LoadFirstPage, E!LoadOf, EditsTyped, E!rows, E!panels, E!history
<1>4. EditsTyped'
  BY <1>0, <1>3 DEF EditsTyped
<1>5. PanelsInv'
  BY <1>0, <1>3 DEF PanelsInv, EditorFits, Editors, Fresh, Replaces
<1>6. ASSUME NEW a, AskFits(a) PROVE AskFits(a)'
  BY <1>3, <1>6 DEF AskFits, Fresh, Replaces, Kept
<1>7. ASSUME NEW w, AnswerFits(w) PROVE AnswerFits(w)'
  BY <1>3, <1>6, <1>7 DEF AnswerFits, Fresh
<1>8. AskFits(b)'
  BY <1>2, <1>3 DEF AskFits
<1>9. WireInv'
  BY <1>0, <1>3, <1>6, <1>7, <1>8 DEF WireInv
<1>10. TableInv' /\ LatestInv' /\ AnswersInv'
  BY <1>0, <1>2, <1>3 DEF TableInv, Current, LatestInv, AnswersInv
<1>11. OneWrite' /\ DialogInv'
  BY <1>0, <1>2, <1>3 DEF OneWrite, DialogInv, NotThere
<1>12. OwnChangesStay' /\ DraftsSurvive'
  BY <1>3 DEF EditsInv, OwnChangesStay, DraftsSurvive, E!OwnChangesStay, E!DraftsSurvive
<1> QED BY <1>4, <1>5, <1>9, <1>10, <1>11, <1>12 DEF EditsInv

\* What is known stays known after a write.
LEMMA WireWrite ==
    ASSUME EditsTyped, UNCHANGED <<screen, editor, sent>>, writes <= writes', writes' \in Nat,
           \A j \in Items : server[j] # None => server'[j] # None,
           \A X, m : \A j \in Items : FreshIn(server, changed, writes, X, j, m) =>
                                        FreshIn(server', changed', writes', X, j, m)
    PROVE  /\ \A a : AskFits(a) => AskFits(a)'
           /\ \A w : AnswerFits(w) => AnswerFits(w)'
<1>1. ASSUME NEW a, AskFits(a) PROVE AskFits(a)'
  BY <1>1 DEF AskFits, Fresh, Replaces, Kept
<1>2. ASSUME NEW w, AnswerFits(w) PROVE AnswerFits(w)'
  <2>1. AskFits(w.ask)'
    BY <1>1, <1>2 DEF AnswerFits
  <2>2. w.writes \in Nat /\ w.writes <= writes'
    BY <1>2 DEF AnswerFits, EditsTyped
  <2>3. w.ask.op # "load" /\ w.id \in Items =>
         /\ w.row \in Row /\ w.row # None /\ server'[w.id] # None
         /\ IsRow(w.row) => FreshIn(server', changed', writes', w.row, w.id, w.writes)
    BY <1>2 DEF AnswerFits, Fresh
  <2>4. w.ask.op = "load" =>
         /\ w.loaded \in [Items -> Row]
         /\ \A i \in Items : /\ w.loaded[i] # None => server'[i] # None
                             /\ IsRow(w.loaded[i]) => FreshIn(server', changed', writes', w.loaded[i], i, w.writes)
    BY <1>2 DEF AnswerFits, Fresh
  <2> QED BY <2>1, <2>2, <2>3, <2>4 DEF AnswerFits, Fresh
<1> QED BY <1>1, <1>2

LEMMA OtherStep == ASSUME E!ConsoleEditsAssumption, EditsInv, NEW i \in Items, E!Other(i) PROVE EditsInv'
<1>0. EditsTyped /\ PanelsInv /\ WireInv /\ TableInv /\ LatestInv /\ OneWrite /\ DialogInv /\ AnswersInv
  BY DEF EditsInv
<1>1. /\ server[i] \notin {None, Gone}
      /\ UNCHANGED <<screen, table, editor, target, busy, sent, asks, answers, mine, latest, missed, dropped, undone>>
  BY DEF E!Other, E!panels, E!wire, E!seen
<1>2. \E r \in Row : r # None /\ E!Write(i, r)
  <2>1. CASE \E p \in Parts \cup {"off"} : E!Write(i, IF p \in server[i] THEN server[i] \ {p} ELSE server[i] \cup {p})
    <3>1. PICK p \in Parts \cup {"off"} : E!Write(i, IF p \in server[i] THEN server[i] \ {p} ELSE server[i] \cup {p})
      BY <2>1
    <3> DEFINE r == IF p \in server[i] THEN server[i] \ {p} ELSE server[i] \cup {p}
    <3>2. server[i] \in SUBSET (Parts \cup {"off"})
      BY <1>0, <1>1 DEF EditsTyped, Row
    <3>3. r \in SUBSET (Parts \cup {"off"})
      BY <3>2
    <3>4. r \in Row /\ r # None
      BY <3>3 DEF Row, E!ConsoleEditsAssumption, E!Off
    <3> QED BY <3>1, <3>4
  <2>2. CASE E!Write(i, Gone)
    BY <2>2 DEF Row, E!ConsoleEditsAssumption
  <2> QED BY <2>1, <2>2 DEF E!Other, E!Off
<1>3. PICK r \in Row : r # None /\ E!Write(i, r)
  BY <1>2
<1>4. /\ server' \in [Items -> Row]
      /\ writes' \in Nat /\ writes <= writes' /\ changed' \in [Items -> [Parts -> Nat]]
      /\ \A j \in Items : server[j] # None => server'[j] # None
      /\ \A X, m : \A j \in Items : FreshIn(server, changed, writes, X, j, m) =>
                                      FreshIn(server', changed', writes', X, j, m)
  BY <1>0, <1>1, <1>3, FreshWrite
<1>5. EditsTyped'
  BY <1>0, <1>1, <1>4 DEF EditsTyped
<1>6. PanelsInv'
  BY <1>0, <1>1, <1>4 DEF PanelsInv, EditorFits, Editors, Fresh, Replaces
<1>7. WireInv'
  BY <1>0, <1>1, <1>4, WireWrite DEF WireInv
<1>8. TableInv'
  BY <1>0, <1>1, <1>4 DEF TableInv, Current, Fresh, Replaces
<1>9. LatestInv' /\ OneWrite' /\ DialogInv' /\ AnswersInv'
  BY <1>0, <1>1 DEF LatestInv, OneWrite, DialogInv, NotThere, Loading, AnswersInv
<1>10. OwnChangesStay' /\ DraftsSurvive'
  BY <1>1 DEF EditsInv, OwnChangesStay, DraftsSurvive, E!OwnChangesStay, E!DraftsSurvive
<1> QED BY <1>5, <1>6, <1>7, <1>8, <1>9, <1>10 DEF EditsInv

\* A request that writes becomes its answer.
LEMMA AnsweredStep ==
    ASSUME E!ConsoleEditsAssumption, EditsInv, NEW a \in asks, a.op # "load", NEW w, w.ask = a, w.writes = writes', AnswerFits(w)',
           asks' = asks \ {a}, answers' = answers \cup {w},
           UNCHANGED <<screen, table, editor, target, busy, sent, mine, latest, missed, dropped>>,
           server' \in [Items -> Row], writes' \in Nat, writes <= writes', changed' \in [Items -> [Parts -> Nat]],
           \A j \in Items : server[j] # None => server'[j] # None,
           \A X, m : \A j \in Items : FreshIn(server, changed, writes, X, j, m) =>
                                        FreshIn(server', changed', writes', X, j, m),
           a.op = "create" /\ w.id \in Items => server[w.id] = None,
           undone' = FALSE
    PROVE  EditsInv'
<1>0. EditsTyped /\ PanelsInv /\ WireInv /\ TableInv /\ LatestInv /\ OneWrite /\ DialogInv /\ AnswersInv
  BY DEF EditsInv
<1>1. EditsTyped'
  BY <1>0 DEF EditsTyped
<1>2. PanelsInv'
  BY <1>0 DEF PanelsInv, EditorFits, Editors, Fresh, Replaces
<1>3. WireInv'
  BY <1>0, WireWrite DEF WireInv
<1>4. TableInv'
  BY <1>0 DEF TableInv, Current, Fresh, Replaces
<1>5. LatestInv' /\ OneWrite' /\ DialogInv'
  BY <1>0 DEF LatestInv, OneWrite, DialogInv, NotThere, Loading
<1>6. AnswersInv'
  <2> SUFFICES ASSUME screen = "tenants", NEW v \in answers'
               PROVE /\ v.ask.op # "load" => \A i \in Items : mine[i] <= v.writes
                     /\ v.ask.op = "load" =>
                          /\ \A i \in Items : v.loaded[i] # None => mine[i] <= v.writes
                          /\ \A u \in answers' : u.ask.op = "create" /\ u.id \in Items /\ v.loaded[u.id] # None => u.writes <= v.writes
    BY DEF AnswersInv
  <2>1. CASE v = w
    BY <1>0, <2>1 DEF EditsTyped
  <2>2. CASE v \in answers
    <3>1. v.ask.op = "load" /\ a.op = "create" /\ w.id \in Items => v.loaded[w.id] = None
      BY <1>0, <2>2 DEF WireInv, AnswerFits
    <3> QED BY <1>0, <2>2, <3>1 DEF AnswersInv
  <2> QED BY <2>1, <2>2
<1>7. OwnChangesStay' /\ DraftsSurvive'
  BY DEF EditsInv, OwnChangesStay, DraftsSurvive, E!OwnChangesStay, E!DraftsSurvive
<1> QED BY <1>1, <1>2, <1>3, <1>4, <1>5, <1>6, <1>7 DEF EditsInv

LEMMA CommitStep == ASSUME E!ConsoleEditsAssumption, EditsInv, NEW a \in asks, E!Commit(a) PROVE EditsInv'
<1>0. EditsTyped /\ PanelsInv /\ WireInv /\ ~undone
  BY DEF EditsInv, OwnChangesStay, E!OwnChangesStay
<1>1. AskFits(a) /\ a.op \in {"create", "save", "status", "remove"}
  BY <1>0 DEF E!Commit, WireInv, AskFits
<1>2. PICK i \in E!Subjects(a), res \in {"ok", "lost"} :
        LET row1 == IF a.op = "create" THEN a.draft ELSE E!Result(a) IN
          E!Write(i, row1) /\ E!Answered(a, res, i, row1, None)
  BY DEF E!Commit
<1> DEFINE r == IF a.op = "create" THEN a.draft ELSE E!Result(a)
<1>3. E!Write(i, r) /\ E!Answered(a, res, i, r, None)
  BY <1>2
<1>4. /\ i \in Items /\ server[i] # Gone
      /\ a.op = "create" => server[i] = None
      /\ a.op # "create" => i = a.id /\ server[i] # None
  BY <1>1 DEF E!Subjects, E!ConsoleEditsAssumption, AskFits
<1>5. r \in Row /\ r # None
  <2>1. server[i] \in Row
    BY <1>0, <1>4 DEF EditsTyped
  <2>2. CASE a.op = "remove"
    BY <2>2 DEF E!Result, Row, E!ConsoleEditsAssumption
  <2>3. CASE a.op # "remove"
    <3>1. a.op = "create" => r \subseteq Parts
      BY <1>1 DEF AskFits
    <3>2. a.op = "save" \/ a.op = "status" => r \subseteq Parts \cup {"off"}
      <4>1. server[i] \subseteq Parts \cup {"off"} \/ a.op = "create"
        BY <1>4, <2>1 DEF Row
      <4>2. CASE a.op = "save"
        BY <1>1, <1>4, <4>1, <4>2 DEF E!Result, E!Off, AskFits
      <4>3. CASE a.op = "status"
        BY <1>1, <1>4, <4>1, <4>3 DEF E!Result, E!Off, AskFits
      <4> QED BY <4>2, <4>3
    <3>3. r \in SUBSET (Parts \cup {"off"})
      BY <1>1, <2>3, <3>1, <3>2
    <3> HIDE DEF r
    <3> QED BY <3>3 DEF Row, E!ConsoleEditsAssumption, E!Off
  <2> QED BY <2>2, <2>3
<1>6. PICK w : w = [ask |-> a, res |-> res, id |-> i, row |-> r, loaded |-> None, writes |-> writes']
  OBVIOUS
<1>7. /\ w.ask = a /\ w.id = i /\ w.row = r /\ w.writes = writes'
      /\ asks' = asks \ {a} /\ answers' = answers \cup {w}
  BY <1>3, <1>6 DEF E!Answered
<1> HIDE DEF r
<1>8. /\ server' = [server EXCEPT ![i] = r] /\ server' \in [Items -> Row]
      /\ writes' \in Nat /\ writes <= writes' /\ changed' \in [Items -> [Parts -> Nat]]
      /\ \A j \in Items : server[j] # None => server'[j] # None
      /\ FreshIn(server', changed', writes', r, i, writes')
      /\ \A X, m : \A j \in Items : FreshIn(server, changed, writes, X, j, m) =>
                                      FreshIn(server', changed', writes', X, j, m)
  BY <1>0, <1>3, <1>4, <1>5, FreshWrite
<1>9. UNCHANGED <<screen, table, editor, target, busy, sent, mine, latest, missed, dropped>>
  BY DEF E!Commit, E!panels, E!seen
<1>10. AnswerFits(w)'
  <2>1. AskFits(a)'
    BY <1>0, <1>1, <1>8, <1>9, WireWrite
  <2>2. server'[i] # None
    BY <1>0, <1>4, <1>5, <1>8 DEF EditsTyped
  <2> QED BY <1>1, <1>5, <1>7, <1>8, <2>1, <2>2 DEF AnswerFits, Fresh
<1>11. undone' = FALSE
  <2>1. undone' = (\/ undone
                   \/ /\ a.op = "save" /\ screen # "tables"
                      /\ \E p \in E!Reverted(a) : changed[a.id][p] \in 1..a.edit.mine)
    BY DEF E!Commit
  <2>2. SUFFICES ASSUME a.op = "save", screen # "tables", NEW p \in E!Reverted(a), changed[a.id][p] \in 1..a.edit.mine PROVE FALSE
    BY <1>0, <2>1
  <2>3. Fresh(a.edit.from, a.id, a.edit.mine)
    BY <1>1, <2>2 DEF AskFits, Replaces
  <2>4. p \in Parts /\ ~(p \in a.edit.from <=> p \in server[a.id])
    BY <2>2 DEF E!Reverted
  <2>5. server[a.id] # Gone
    BY <1>4, <2>2
  <2> QED BY <2>2, <2>3, <2>4, <2>5 DEF Fresh, FreshIn
<1> QED BY <1>1, <1>4, <1>7, <1>8, <1>9, <1>10, <1>11, AnsweredStep

LEMMA ConsentStep == ASSUME E!ConsoleEditsAssumption, EditsInv, NEW a \in asks, E!CommitConsent(a) PROVE EditsInv'
<1>0. EditsTyped /\ WireInv /\ ~undone
  BY DEF EditsInv, OwnChangesStay, E!OwnChangesStay
<1>1. PICK res \in {"ok", "lost"} : E!Answered(a, res, New, {}, None)
  BY DEF E!CommitConsent
<1>2. PICK w : w = [ask |-> a, res |-> res, id |-> New, row |-> {}, loaded |-> None, writes |-> writes']
  OBVIOUS
<1>3. /\ w.ask = a /\ w.id = New /\ w.writes = writes' /\ writes' = writes /\ a.op = "create"
      /\ asks' = asks \ {a} /\ answers' = answers \cup {w}
      /\ UNCHANGED <<screen, server, changed, table, editor, target, busy, sent, mine, latest, missed, dropped, undone>>
  BY <1>1, <1>2 DEF E!CommitConsent, E!Answered, E!rows, E!panels, E!seen
<1>4. AnswerFits(w)'
  <2>1. AskFits(a)'
    BY <1>0, <1>3 DEF WireInv, AskFits, Fresh, Replaces, Kept
  <2> QED BY <1>0, <1>3, <2>1 DEF AnswerFits, EditsTyped, E!ConsoleEditsAssumption
<1>5. w.id \notin Items
  BY <1>3 DEF E!ConsoleEditsAssumption
<1>6. undone' = FALSE /\ server' \in [Items -> Row] /\ writes' \in Nat /\ writes <= writes' /\ changed' \in [Items -> [Parts -> Nat]]
  BY <1>0, <1>3 DEF EditsTyped, EditsInv, OwnChangesStay, E!OwnChangesStay, E!CommitConsent
<1>7. \A X, m : \A j \in Items : FreshIn(server, changed, writes, X, j, m) => FreshIn(server', changed', writes', X, j, m)
  BY <1>3
<1>8. \A j \in Items : server[j] # None => server'[j] # None
  BY <1>3
<1>9. a.op # "load"
  BY <1>3
<1> QED BY <1>3, <1>4, <1>5, <1>6, <1>7, <1>8, <1>9, AnsweredStep

LEMMA ReadStep == ASSUME E!ConsoleEditsAssumption, EditsInv, NEW a \in asks, E!Read(a) PROVE EditsInv'
<1>0. EditsTyped /\ PanelsInv /\ WireInv /\ TableInv /\ LatestInv /\ OneWrite /\ DialogInv /\ AnswersInv
  BY DEF EditsInv
<1>1. PICK w : w = [ask |-> a, res |-> "ok", id |-> New, row |-> None, loaded |-> server, writes |-> writes]
  OBVIOUS
<1>2. /\ w.ask = a /\ w.loaded = server /\ w.writes = writes /\ a.op = "load"
      /\ asks' = asks \ {a} /\ answers' = answers \cup {w}
      /\ UNCHANGED <<screen, server, table, editor, target, busy, sent, writes, changed, mine, latest, missed, dropped, undone>>
  BY <1>1 DEF E!Read, E!Answered, E!rows, E!panels, E!seen
<1>3. EditsTyped' /\ PanelsInv'
  BY <1>0, <1>2 DEF EditsTyped, PanelsInv, EditorFits, Editors, Fresh, Replaces
<1>4. ASSUME NEW b, AskFits(b) PROVE AskFits(b)'
  BY <1>2, <1>4 DEF AskFits, Fresh, Replaces, Kept
<1>5. ASSUME NEW v, AnswerFits(v) PROVE AnswerFits(v)'
  BY <1>2, <1>4, <1>5 DEF AnswerFits, Fresh
<1>6. AnswerFits(w)'
  <2>1. AskFits(a)'
    BY <1>0, <1>4 DEF WireInv
  <2>2. \A i \in Items : IsRow(server[i]) => FreshIn(server, changed, writes, server[i], i, writes)
    BY <1>0 DEF FreshIn, IsRow, EditsTyped
  <2> QED BY <1>0, <1>2, <2>1, <2>2 DEF AnswerFits, Fresh, EditsTyped
<1>7. WireInv'
  BY <1>0, <1>2, <1>4, <1>5, <1>6 DEF WireInv
<1>8. TableInv' /\ LatestInv' /\ OneWrite' /\ DialogInv'
  BY <1>0, <1>2 DEF TableInv, Current, Fresh, Replaces, LatestInv, OneWrite, DialogInv, NotThere, Loading, EditsTyped
<1>9. AnswersInv'
  <2> SUFFICES ASSUME screen = "tenants", NEW v \in answers'
               PROVE /\ v.ask.op # "load" => \A i \in Items : mine[i] <= v.writes
                     /\ v.ask.op = "load" =>
                          /\ \A i \in Items : v.loaded[i] # None => mine[i] <= v.writes
                          /\ \A u \in answers' : u.ask.op = "create" /\ u.id \in Items /\ v.loaded[u.id] # None => u.writes <= v.writes
    BY <1>2 DEF AnswersInv
  <2>1. CASE v = w
    BY <1>0, <1>2, <2>1 DEF EditsTyped, WireInv, AnswerFits
  <2>2. CASE v \in answers
    BY <1>0, <1>2, <2>2 DEF AnswersInv
  <2> QED BY <1>2, <2>1, <2>2
<1>10. OwnChangesStay' /\ DraftsSurvive'
  BY <1>2 DEF EditsInv, OwnChangesStay, DraftsSurvive, E!OwnChangesStay, E!DraftsSurvive
<1> QED BY <1>3, <1>7, <1>8, <1>9, <1>10 DEF EditsInv

\* A request that writes was not done, or nobody knows: its control may be enabled again.
LEMMA LostStep ==
    ASSUME E!ConsoleEditsAssumption, EditsInv, NEW a, NEW res, E!NotDone(a, res),
           \/ a \in asks /\ asks' = asks \ {a} /\ UNCHANGED answers
           \/ \E w \in answers : w.ask = a /\ answers' = answers \ {w} /\ UNCHANGED asks
    PROVE  EditsInv'
<1>0. EditsTyped /\ PanelsInv /\ WireInv /\ TableInv /\ LatestInv /\ OneWrite /\ DialogInv /\ AnswersInv
  BY DEF EditsInv
<1>1. /\ a.op # "load" /\ asks' \subseteq asks /\ answers' \subseteq answers
      /\ \A b \in asks : b.op = "load" => b \in asks'
      /\ \A v \in answers : v.ask.op = "load" => v \in answers'
      /\ UNCHANGED <<screen, server, table, editor, target, sent, writes, changed, mine, latest, missed, dropped, undone>>
  BY DEF E!NotDone, E!rows, E!panels, E!history
<1>2. EditsTyped' /\ PanelsInv'
  BY <1>0, <1>1 DEF EditsTyped, PanelsInv, EditorFits, Editors, Fresh, Replaces
<1>3. ASSUME NEW b, AskFits(b) PROVE AskFits(b)'
  BY <1>1, <1>3 DEF AskFits, Fresh, Replaces, Kept
<1>4. ASSUME NEW v, AnswerFits(v) PROVE AnswerFits(v)'
  BY <1>1, <1>3, <1>4 DEF AnswerFits, Fresh
<1>5. WireInv'
  BY <1>0, <1>1, <1>3, <1>4 DEF WireInv
<1>6. TableInv' /\ LatestInv' /\ DialogInv' /\ AnswersInv'
  BY <1>0, <1>1 DEF TableInv, Current, Fresh, Replaces, LatestInv, DialogInv, NotThere, Loading, AnswersInv
<1>7. OneWrite'
  <2> SUFFICES ASSUME screen = "tenants"
               PROVE (\A b \in asks' : b.op = "load") /\ (\A v \in answers' : v.ask.op = "load")
    BY <1>1 DEF OneWrite
  <2> QED BY <1>0, <1>1 DEF OneWrite
<1>8. OwnChangesStay' /\ DraftsSurvive'
  BY <1>1 DEF EditsInv, OwnChangesStay, DraftsSurvive, E!OwnChangesStay, E!DraftsSurvive
<1> QED BY <1>2, <1>5, <1>6, <1>7, <1>8 DEF EditsInv

\* An answer closes the editor it was sent with, or none.
LEMMA CloseStep ==
    ASSUME NEW what, NEW by, NEW edit, ~dropped, E!Close(what, by, edit, TRUE), "editor" \in what => Kept(edit, by)
    PROVE  dropped' = FALSE /\ (editor' = editor \/ editor' = None) /\ (target' = target \/ target' = None)
BY DEF E!Close, Kept

LEMMA LoadedStep == ASSUME E!ConsoleEditsAssumption, EditsInv, NEW w \in answers, E!Loaded(w) PROVE EditsInv'
<1>0. EditsTyped /\ PanelsInv /\ WireInv /\ TableInv /\ LatestInv /\ OneWrite /\ DialogInv /\ AnswersInv /\ AnswerFits(w)
  BY DEF EditsInv, WireInv
<1>1. /\ w.ask.op = "load" /\ answers' = answers \ {w} /\ table' = w.loaded /\ missed' = (w.ask.n # latest)
      /\ UNCHANGED <<screen, server, busy, sent, asks, writes, changed, mine, latest, undone>>
  BY DEF E!Loaded, E!rows, E!history
<1>2. dropped' = FALSE /\ (editor' = editor \/ editor' = None) /\ (target' = target \/ target' = None)
  <2>1. w.ask.then = "editor" => Kept(w.ask.edit, w.ask.by)
    BY <1>0, <1>1 DEF AnswerFits, AskFits
  <2>2. ~dropped
    BY DEF EditsInv, DraftsSurvive, E!DraftsSurvive
  <2> QED BY <2>1, <2>2, CloseStep DEF E!Loaded
<1>3. EditsTyped'
  <2>1. missed' \in BOOLEAN
    BY <1>1
  <2> QED BY <1>0, <1>1, <2>1 DEF EditsTyped, AnswerFits
<1>4. PanelsInv'
  BY <1>0, <1>1, <1>2 DEF PanelsInv, EditorFits, Editors, Fresh, Replaces
<1>5. ASSUME NEW b, AskFits(b) PROVE AskFits(b)'
  BY <1>1, <1>2, <1>5 DEF AskFits, Fresh, Replaces, Kept
<1>6. ASSUME NEW v, AnswerFits(v) PROVE AnswerFits(v)'
  BY <1>1, <1>5, <1>6 DEF AnswerFits, Fresh
<1>7. WireInv'
  BY <1>0, <1>1, <1>5, <1>6 DEF WireInv
<1>8. TableInv'
  <2> SUFFICES ASSUME Replaces, w.ask.n = latest, NEW i \in Items, IsRow(w.loaded[i])
               PROVE  FreshIn(server, changed, writes, w.loaded[i], i, mine[i])
    BY <1>1 DEF TableInv, Current, Fresh, Replaces
  <2>1. mine[i] <= w.writes
    BY <1>0, <1>1 DEF LatestInv, AnswersInv, Replaces, IsRow
  <2>2. FreshIn(server, changed, writes, w.loaded[i], i, w.writes)
    BY <1>0, <1>1 DEF AnswerFits, Fresh
  <2> QED BY <1>0, <2>1, <2>2, FreshLess DEF EditsTyped
<1>9. LatestInv' /\ OneWrite' /\ AnswersInv'
  BY <1>0, <1>1 DEF LatestInv, OneWrite, AnswersInv
<1>10. DialogInv'
  BY <1>0, <1>1, <1>2 DEF DialogInv, NotThere, Loading
<1>11. OwnChangesStay' /\ DraftsSurvive'
  BY <1>1, <1>2 DEF EditsInv, OwnChangesStay, DraftsSurvive, E!OwnChangesStay, E!DraftsSurvive
<1> QED BY <1>3, <1>4, <1>7, <1>8, <1>9, <1>10, <1>11 DEF EditsInv

LEMMA NotLoadedStep == ASSUME E!ConsoleEditsAssumption, EditsInv, NEW a \in asks, E!NotLoaded(a) PROVE EditsInv'
<1>0. EditsTyped /\ PanelsInv /\ WireInv /\ TableInv /\ LatestInv /\ OneWrite /\ DialogInv /\ AnswersInv /\ AskFits(a)
  BY DEF EditsInv, WireInv
<1>1. /\ a.op = "load" /\ asks' = asks \ {a} /\ missed' = (missed \/ a.n = latest)
      /\ UNCHANGED <<screen, server, table, busy, sent, answers, writes, changed, mine, latest, undone>>
  BY DEF E!NotLoaded, E!rows, E!history
<1>2. dropped' = FALSE /\ (editor' = editor \/ editor' = None) /\ (target' = target \/ target' = None)
  <2>1. a.then = "editor" => Kept(a.edit, a.by)
    BY <1>0, <1>1 DEF AskFits
  <2>2. ~dropped
    BY DEF EditsInv, DraftsSurvive, E!DraftsSurvive
  <2>3. PICK what \in {{a.then}, {}} : E!Close(what, a.by, a.edit, TRUE)
    BY DEF E!NotLoaded
  <2>4. "editor" \in what => Kept(a.edit, a.by)
    BY <2>1, <2>3
  <2> QED BY <2>2, <2>3, <2>4, CloseStep
<1>3. EditsTyped'
  <2>1. missed' \in BOOLEAN
    BY <1>1
  <2> QED BY <1>0, <1>1, <2>1 DEF EditsTyped
<1>4. PanelsInv'
  BY <1>0, <1>1, <1>2 DEF PanelsInv, EditorFits, Editors, Fresh, Replaces
<1>5. ASSUME NEW b, AskFits(b) PROVE AskFits(b)'
  BY <1>1, <1>2, <1>5 DEF AskFits, Fresh, Replaces, Kept
<1>6. ASSUME NEW v, AnswerFits(v) PROVE AnswerFits(v)'
  BY <1>1, <1>5, <1>6 DEF AnswerFits, Fresh
<1>7. WireInv'
  BY <1>0, <1>1, <1>5, <1>6 DEF WireInv
<1>8. TableInv'
  BY <1>0, <1>1 DEF TableInv, Current, Fresh, Replaces
<1>9. LatestInv' /\ OneWrite' /\ AnswersInv'
  BY <1>0, <1>1 DEF LatestInv, OneWrite, AnswersInv
<1>10. DialogInv'
  BY <1>0, <1>1, <1>2 DEF DialogInv, NotThere, Loading
<1>11. OwnChangesStay' /\ DraftsSurvive'
  BY <1>1, <1>2 DEF EditsInv, OwnChangesStay, DraftsSurvive, E!OwnChangesStay, E!DraftsSurvive
<1> QED BY <1>3, <1>4, <1>7, <1>8, <1>9, <1>10, <1>11 DEF EditsInv

\* What an answer tells that a write was done.
LEMMA DoneFacts ==
    ASSUME E!ConsoleEditsAssumption, EditsInv, NEW w \in answers, E!Done(w)
    PROVE  /\ AnswerFits(w) /\ w.ask.op # "load" /\ answers' = answers \ {w} /\ busy' = busy \ E!Keys(w.ask)
           /\ UNCHANGED <<screen, server, writes, changed, missed, undone>>
           /\ dropped' = FALSE /\ (editor' = editor \/ editor' = None) /\ (target' = target \/ target' = None)
           /\ screen = "tenants" => editor' = None /\ target' = None
           /\ mine' \in [Items -> Nat]
           /\ \A i \in Items : mine'[i] <= writes /\ (i # w.id => mine'[i] = mine[i])
           /\ w.id \in Items => mine'[w.id] = IF w.writes > mine[w.id] THEN w.writes ELSE mine[w.id]
<1>0. EditsTyped /\ AnswerFits(w) /\ AskFits(w.ask) /\ ~dropped
  BY DEF EditsInv, WireInv, AnswerFits, DraftsSurvive, E!DraftsSurvive
<1>1. /\ w.ask.op # "load" /\ w.res = "ok" /\ answers' = answers \ {w}
      /\ UNCHANGED <<screen, server, writes, changed, missed, undone>>
  BY DEF E!Done, E!rows, E!history
<1>2. busy' = busy \ E!Keys(w.ask)
  BY <1>1 DEF E!Done, E!Unlock
<1>3. E!Close(E!Closes(w.ask), w.ask.n, w.ask.edit, TRUE)
  BY DEF E!Done
<1>4. "editor" \in E!Closes(w.ask) => Kept(w.ask.edit, w.ask.n)
  BY <1>0, <1>1 DEF E!Closes, AskFits
<1>5. dropped' = FALSE /\ (editor' = editor \/ editor' = None) /\ (target' = target \/ target' = None)
  BY <1>0, <1>3, <1>4, CloseStep
<1>6. screen = "tenants" => editor' = None /\ target' = None
  BY <1>3 DEF E!Closes, E!Close
<1>7. mine' = IF w.id \in Items /\ w.writes > mine[w.id] THEN [mine EXCEPT ![w.id] = w.writes] ELSE mine
  BY DEF E!Done, E!Learn
<1>8. w.writes \in Nat /\ w.writes <= writes
  BY <1>0 DEF AnswerFits
<1>9. /\ mine' \in [Items -> Nat]
      /\ \A i \in Items : mine'[i] <= writes /\ (i # w.id => mine'[i] = mine[i])
      /\ w.id \in Items => mine'[w.id] = IF w.writes > mine[w.id] THEN w.writes ELSE mine[w.id]
  BY <1>0, <1>7, <1>8 DEF EditsTyped
<1> QED BY <1>0, <1>1, <1>2, <1>5, <1>6, <1>9

\* Most screens load their rows again.
LEMMA DoneLoads ==
    ASSUME E!ConsoleEditsAssumption, EditsInv, NEW w \in answers, E!Done(w), screen \notin {"tenants", "credentials"}
    PROVE  EditsInv'
<1>0. EditsTyped /\ PanelsInv /\ WireInv /\ LatestInv
  BY DEF EditsInv
<1>1. /\ AnswerFits(w) /\ AskFits(w.ask) /\ w.ask.op # "load" /\ answers' = answers \ {w}
      /\ UNCHANGED <<screen, server, writes, changed, missed, undone>>
      /\ dropped' = FALSE /\ (editor' = editor \/ editor' = None) /\ (target' = target \/ target' = None)
      /\ mine' \in [Items -> Nat] /\ \A i \in Items : mine'[i] <= writes
  BY DoneFacts DEF AnswerFits
<1>2. PICK b : b = [n |-> sent + 1, op |-> "load", id |-> None, draft |-> {}, edit |-> w.ask.edit, by |-> w.ask.n,
                    then |-> E!ClosesThen(w.ask)]
  OBVIOUS
<1>3. /\ b.n = sent + 1 /\ b.op = "load" /\ b.by = w.ask.n /\ b.edit = w.ask.edit /\ b.then = E!ClosesThen(w.ask)
      /\ sent \in Nat /\ sent' = sent + 1 /\ latest' = sent + 1 /\ UNCHANGED table /\ asks' = asks \cup {b}
  BY <1>0, <1>2 DEF E!Done, E!Refresh, E!LoadOf, EditsTyped
<1>4. EditsTyped'
  BY <1>0, <1>1, <1>3 DEF EditsTyped
<1>5. PanelsInv'
  BY <1>0, <1>1, <1>3 DEF PanelsInv, EditorFits, Editors, Fresh, Replaces
<1>6. ASSUME NEW a, AskFits(a) PROVE AskFits(a)'
  BY <1>1, <1>3, <1>6 DEF AskFits, Fresh, Replaces, Kept
<1>7. ASSUME NEW v, AnswerFits(v) PROVE AnswerFits(v)'
  BY <1>1, <1>6, <1>7 DEF AnswerFits, Fresh
<1>8. AskFits(b)'
  <2>1. b.then = "editor" => w.ask.op \in {"save", "create"}
    BY <1>3 DEF E!ClosesThen
  <2>2. b.then = "editor" => Kept(b.edit, b.by)'
    BY <1>1, <1>3, <2>1 DEF AskFits, Kept
  <2>3. b.n \in Nat /\ b.n <= sent' /\ b.by \in Nat /\ b.by <= sent'
    BY <1>1, <1>3 DEF AskFits
  <2> QED BY <1>3, <2>2, <2>3 DEF AskFits
<1>9. WireInv'
  BY <1>0, <1>1, <1>3, <1>6, <1>7, <1>8 DEF WireInv
<1>10. TableInv'
  BY <1>3 DEF TableInv, Current
<1>11. LatestInv'
  BY <1>0, <1>1, <1>3 DEF LatestInv, WireInv, AnswerFits, AskFits
<1>12. OneWrite' /\ DialogInv' /\ AnswersInv'
  BY <1>1 DEF OneWrite, DialogInv, AnswersInv
<1>13. OwnChangesStay' /\ DraftsSurvive'
  BY <1>1 DEF EditsInv, OwnChangesStay, DraftsSurvive, E!OwnChangesStay, E!DraftsSurvive
<1> QED BY <1>4, <1>5, <1>9, <1>10, <1>11, <1>12, <1>13 DEF EditsInv

\* Two screens put the answer in the place of the row.
LEMMA DoneReplaces ==
    ASSUME E!ConsoleEditsAssumption, EditsInv, NEW w \in answers, E!Done(w), screen \in {"tenants", "credentials"}
    PROVE  EditsInv'
<1>0. EditsTyped /\ PanelsInv /\ WireInv /\ TableInv /\ OneWrite /\ DialogInv /\ AnswersInv
  BY DEF EditsInv
<1>1. /\ AnswerFits(w) /\ w.ask.op # "load" /\ answers' = answers \ {w} /\ busy' = busy \ E!Keys(w.ask)
      /\ UNCHANGED <<screen, server, writes, changed, missed, undone>>
      /\ dropped' = FALSE /\ (editor' = editor \/ editor' = None) /\ (target' = target \/ target' = None)
      /\ screen = "tenants" => editor' = None /\ target' = None
      /\ mine' \in [Items -> Nat]
      /\ \A i \in Items : mine'[i] <= writes /\ (i # w.id => mine'[i] = mine[i])
      /\ w.id \in Items => mine'[w.id] = IF w.writes > mine[w.id] THEN w.writes ELSE mine[w.id]
  BY DoneFacts
<1>2. /\ table' = IF w.ask.op = "create" \/ E!Shown(w.id) THEN [table EXCEPT ![w.id] = w.row] ELSE table
      /\ UNCHANGED <<sent, asks, latest>>
  BY DEF E!Done, E!Refresh
<1>3. w.id \in Items => w.row \in Row /\ server[w.id] # None /\ (IsRow(w.row) => Fresh(w.row, w.id, w.writes))
  BY <1>1 DEF AnswerFits
<1>4. /\ table' \in [Items -> Row]
      /\ \A i \in Items : i # w.id => table'[i] = table[i]
      /\ w.id \in Items => table'[w.id] = w.row \/ (table'[w.id] = table[w.id] /\ ~IsRow(table[w.id]))
  BY <1>0, <1>2, <1>3 DEF EditsTyped, E!Shown, IsRow
<1>5. EditsTyped'
  BY <1>0, <1>1, <1>2, <1>3, <1>4 DEF EditsTyped
<1>6. PanelsInv'
  BY <1>0, <1>1, <1>2 DEF PanelsInv, EditorFits, Fresh, Replaces
<1>7. ASSUME NEW a, AskFits(a) PROVE AskFits(a)'
  BY <1>1, <1>2, <1>7 DEF AskFits, Fresh, Replaces, Kept
<1>8. ASSUME NEW v, AnswerFits(v) PROVE AnswerFits(v)'
  BY <1>1, <1>7, <1>8 DEF AnswerFits, Fresh
<1>9. WireInv'
  BY <1>0, <1>1, <1>2, <1>7, <1>8 DEF WireInv
<1>10. TableInv'
  <2> SUFFICES ASSUME screen = "tenants", Current, NEW i \in Items, IsRow(table'[i])
               PROVE  FreshIn(server, changed, writes, table'[i], i, mine'[i])
    BY <1>1, <1>2 DEF TableInv, Current, Fresh, Replaces
  <2>1. CASE i # w.id
    BY <1>0, <1>1, <1>4, <2>1 DEF TableInv, Fresh, Replaces
  <2>2. CASE i = w.id
    <3>1. table'[i] = w.row
      BY <1>4, <2>2
    <3>2. mine[i] <= w.writes /\ w.writes \in Nat /\ mine[i] \in Nat
      BY <1>0, <1>1 DEF AnswersInv, EditsTyped, AnswerFits
    <3>3. mine'[i] = w.writes
      BY <1>1, <2>2, <3>2
    <3> QED BY <1>3, <2>2, <3>1, <3>3 DEF Fresh
  <2> QED BY <2>1, <2>2
<1>11. LatestInv'
  BY <1>1 DEF LatestInv
<1>12. OneWrite'
  BY <1>0, <1>1, <1>2 DEF OneWrite
<1>13. DialogInv'
  BY <1>0, <1>1, <1>2 DEF DialogInv, NotThere, Loading
<1>14. AnswersInv'
  <2> SUFFICES ASSUME screen = "tenants", NEW v \in answers'
               PROVE /\ v.ask.op # "load" => \A i \in Items : mine'[i] <= v.writes
                     /\ v.ask.op = "load" =>
                          /\ \A i \in Items : v.loaded[i] # None => mine'[i] <= v.writes
                          /\ \A u \in answers' : u.ask.op = "create" /\ u.id \in Items /\ v.loaded[u.id] # None => u.writes <= v.writes
    BY <1>1 DEF AnswersInv
  <2>1. v.ask.op = "load"
    BY <1>0, <1>1 DEF OneWrite
  <2>2. w.ask.op = "create"
    BY <1>0, <1>1, <2>1 DEF DialogInv, NotThere, Loading
  <2>3. ASSUME NEW i \in Items, v.loaded[i] # None PROVE mine'[i] <= v.writes
    <3>1. mine[i] <= v.writes
      BY <1>0, <1>1, <2>1, <2>3 DEF AnswersInv
    <3>2. i = w.id => w.writes <= v.writes
      BY <1>0, <1>1, <2>1, <2>2, <2>3 DEF AnswersInv
    <3> QED BY <1>1, <3>1, <3>2
  <2> QED BY <1>0, <1>1, <2>1, <2>3 DEF AnswersInv
<1>15. OwnChangesStay' /\ DraftsSurvive'
  BY <1>1 DEF EditsInv, OwnChangesStay, DraftsSurvive, E!OwnChangesStay, E!DraftsSurvive
<1> QED BY <1>5, <1>6, <1>9, <1>10, <1>11, <1>12, <1>13, <1>14, <1>15 DEF EditsInv

-----------------------------------------------------------------------------
(* The controls of the screens *)

\* A step that sets the editor to e.
LEMMA EditStep ==
    ASSUME E!ConsoleEditsAssumption, EditsInv, NEW e, E!Edit(e), e # None => EditorFits(e, sent),
           screen = "tenants" /\ e # None => target = None /\ (NotThere => e.id = New)
    PROVE  EditsInv'
<1>1. DialogInv /\ PanelsInv
  BY DEF EditsInv
<1>2. /\ editor' = e
      /\ UNCHANGED <<screen, server, table, target, busy, sent, asks, answers, writes, changed, mine, latest, missed, dropped, undone>>
  BY DEF E!Edit, E!rows, E!wire, E!history, E!seen
<1>3. target' # None => target'.id \in Items /\ target'.to \subseteq {"off"}
  BY <1>1, <1>2 DEF PanelsInv
<1>4. screen = "tenants" => /\ editor' = None \/ target' = None
                            /\ NotThere => target' = None /\ (editor' # None => editor'.id = New)
  BY <1>1, <1>2 DEF DialogInv
<1> QED BY <1>2, <1>3, <1>4, PanelsStep

\* A step that sets the target to t.
LEMMA ChooseStep ==
    ASSUME E!ConsoleEditsAssumption, EditsInv, NEW t, E!Choose(t), t # None => t.id \in Items /\ t.to \subseteq {"off"},
           screen = "tenants" /\ t # None => editor = None /\ ~NotThere
    PROVE  EditsInv'
<1>1. DialogInv
  BY DEF EditsInv
<1>2. /\ target' = t
      /\ UNCHANGED <<screen, server, table, editor, busy, sent, asks, answers, writes, changed, mine, latest, missed, dropped, undone>>
  BY DEF E!Choose, E!rows, E!wire, E!history, E!seen
<1>3. screen = "tenants" => /\ editor' = None \/ target' = None
                            /\ NotThere => target' = None /\ (editor' # None => editor'.id = New)
  BY <1>1, <1>2 DEF DialogInv
<1> QED BY <1>2, <1>3, PanelsStep

LEMMA ClosedFits == ASSUME E!ConsoleEditsAssumption, EditsInv, E!Edit(None) PROVE EditsInv'
BY EditStep

\* An editor of a row starts from what is shown of it.
LEMMA OpenStep ==
    ASSUME E!ConsoleEditsAssumption, EditsInv, NEW i \in Items, E!Open(i), screen = "tenants" => target = None /\ ~NotThere
    PROVE  EditsInv'
<1>0. EditsTyped /\ TableInv
  BY DEF EditsInv
<1> DEFINE e == E!Opened(i, table[i] \cap Parts)
<1>1. /\ e.id = i /\ e.from = table[i] \cap Parts /\ e.draft = table[i] \cap Parts /\ e.since = sent
      /\ e.mine = IF i = New \/ E!Loads # {} \/ missed THEN 0 ELSE mine[i]
  BY DEF E!Opened
<1>2. E!Edit(e) /\ IsRow(table[i])
  BY DEF E!Open, E!Shown, IsRow
<1>3. i # New
  BY DEF E!ConsoleEditsAssumption
<1>6. e \in Editors
  BY <1>0 DEF e, E!Opened, Editors, EditsTyped
<1> HIDE DEF e
<1>4. ASSUME Replaces PROVE Fresh(e.from, i, e.mine)
  <2>1. CASE NotThere
    <3>1. e.mine = 0
      BY <1>1, <1>3, <2>1, LoadsAre DEF NotThere
    <3>2. 1..0 = {}
      OBVIOUS
    <3> QED BY <1>0, <1>2, <3>1, <3>2 DEF Fresh, FreshIn, EditsTyped, IsRow
  <2>2. CASE ~NotThere
    <3>1. e.mine = mine[i]
      BY <1>1, <1>3, <2>2, LoadsAre DEF NotThere
    <3>2. Current
      BY <2>2 DEF Current, NotThere, Loading
    <3>3. Fresh(table[i], i, mine[i])
      BY <1>0, <1>2, <1>4, <3>2 DEF TableInv
    <3> QED BY <1>1, <3>1, <3>3 DEF Fresh, FreshIn
  <2> QED BY <2>1, <2>2
<1>5. EditorFits(e, sent)
  BY <1>0, <1>1, <1>4, <1>6 DEF EditorFits, EditsTyped
<1> QED BY <1>2, <1>5, EditStep

\* An editor of a new row, or of columns to add, starts from nothing.
LEMMA OpenNewStep ==
    ASSUME E!ConsoleEditsAssumption, EditsInv, NEW i \in Items \cup {New}, E!Edit(E!Opened(i, {})),
           i = New \/ screen = "tables", screen = "tenants" => target = None
    PROVE  EditsInv'
<1>0. EditsTyped
  BY DEF EditsInv
<1> DEFINE e == E!Opened(i, {})
<1>1. e.id = i /\ e.from = {} /\ e.draft = {} /\ e.since = sent
  BY DEF E!Opened
<1>5. e \in Editors
  BY <1>0 DEF e, E!Opened, Editors, EditsTyped, E!ConsoleEditsAssumption
<1> HIDE DEF e
<1>2. i \in Items => ~Replaces
  BY DEF Replaces, E!ConsoleEditsAssumption
<1>3. EditorFits(e, sent)
  BY <1>0, <1>1, <1>2, <1>5 DEF EditorFits, EditsTyped
<1>4. E!Edit(e) /\ (screen = "tenants" => i = New)
  BY DEF e
<1> QED BY <1>1, <1>3, <1>4, EditStep

LEMMA ToggleStep == ASSUME E!ConsoleEditsAssumption, EditsInv, NEW p \in Parts, E!Toggle(p) PROVE EditsInv'
<1>0. EditsTyped /\ PanelsInv /\ DialogInv
  BY DEF EditsInv
<1> DEFINE e == [editor EXCEPT !.since = sent, !.draft = IF p \in @ THEN @ \ {p} ELSE @ \cup {p}]
<1>1. editor # None /\ E!Edit(e)
  BY DEF E!Toggle
<1>2. EditorFits(editor, 0)
  BY <1>0, <1>1 DEF PanelsInv
<1> DEFINE d == [editor EXCEPT !.since = sent]
<1>3. d \in Editors /\ d.id = editor.id /\ d.from = editor.from /\ d.mine = editor.mine /\ d.since = sent /\ d.draft = editor.draft
  BY <1>0, <1>2 DEF EditorFits, Editors, EditsTyped
<1>6. e = [d EXCEPT !.draft = IF p \in d.draft THEN d.draft \ {p} ELSE d.draft \cup {p}]
  BY <1>2 DEF EditorFits, Editors
<1> HIDE DEF d, e
<1>7. e \in Editors /\ e.id = d.id /\ e.from = d.from /\ e.mine = d.mine /\ e.since = d.since
  BY <1>3, <1>6 DEF Editors
<1>4. e # None => EditorFits(e, sent)
  BY <1>0, <1>2, <1>3, <1>7 DEF EditorFits, EditsTyped
<1>5. screen = "tenants" /\ e # None => target = None /\ (NotThere => e.id = New)
  BY <1>0, <1>1, <1>3, <1>7 DEF DialogInv
<1> QED BY <1>1, <1>4, <1>5, EditStep

\* The draft of an editor is sent.
LEMMA DraftStep ==
    ASSUME E!ConsoleEditsAssumption, EditsInv, NEW op \in {"create", "save"}, NEW i, NEW keys,
           editor # None, editor.id = i, E!Send(op, i, editor.draft, keys),
           op = "save" => i \in Items /\ screen # "credentials", op = "create" => i = New,
           screen = "tenants" => keys = {Form}
    PROVE  EditsInv'
<1>1. PanelsInv /\ DialogInv
  BY DEF EditsInv
<1>2. editor.draft \subseteq Parts
  BY <1>1 DEF PanelsInv, EditorFits, Editors
<1>3. screen = "tenants" /\ NotThere => op = "create"
  BY <1>1 DEF DialogInv, E!ConsoleEditsAssumption
<1> QED BY <1>2, <1>3, SendStep

\* A status or a removal that is to be confirmed is sent.
LEMMA TargetStep ==
    ASSUME E!ConsoleEditsAssumption, EditsInv, NEW op \in {"status", "remove"}, NEW draft, NEW keys,
           target # None, E!Send(op, target.id, draft, keys), op = "status" => draft = target.to,
           screen = "tenants" => keys = {Form} /\ op = "status"
    PROVE  EditsInv'
<1>1. PanelsInv /\ DialogInv
  BY DEF EditsInv
<1>2. target.id \in Items /\ target.to \subseteq {"off"}
  BY <1>1 DEF PanelsInv
<1>3. screen = "tenants" => editor = None /\ ~NotThere
  BY <1>1 DEF DialogInv
<1> QED BY <1>2, <1>3, SendStep

LEMMA FlippedFits == \A i : E!Flipped(i) \subseteq {"off"}
BY DEF E!Flipped, E!Off

LEMMA NextUsers == ASSUME E!ConsoleEditsAssumption, EditsInv, E!Users PROVE EditsInv'
<1>1. CASE E!HandleInvite
  BY <1>1, SendStep DEF E!HandleInvite
<1>2. ASSUME NEW i \in Items, E!StartEditRoles(i) PROVE EditsInv'
  BY <1>2, OpenStep DEF E!StartEditRoles
<1>3. ASSUME NEW i \in Items, E!SaveRoles(i) PROVE EditsInv'
  BY <1>3, DraftStep DEF E!SaveRoles, E!Editing
<1>4. ASSUME NEW i \in Items, E!CancelRoles(i) PROVE EditsInv'
  BY <1>4, ClosedFits DEF E!CancelRoles
<1>5. ASSUME NEW i \in Items, E!ToggleStatus(i) PROVE EditsInv'
  BY <1>5, SendStep, FlippedFits DEF E!ToggleStatus
<1>6. ASSUME NEW i \in Items, E!DeleteUser(i) PROVE EditsInv'
  BY <1>6, SendStep DEF E!DeleteUser
<1>7. ASSUME NEW p \in Parts, E!ToggleEditingRole(p) PROVE EditsInv'
  BY <1>7, ToggleStep DEF E!ToggleEditingRole
<1> QED BY <1>1, <1>2, <1>3, <1>4, <1>5, <1>6, <1>7 DEF E!Users

LEMMA NextRoles == ASSUME E!ConsoleEditsAssumption, EditsInv, E!Roles PROVE EditsInv'
<1>1. ASSUME NEW i \in Items, E!StartEdit(i) PROVE EditsInv'
  BY <1>1, OpenStep, ClosedFits DEF E!StartEdit
<1>2. ASSUME NEW i \in Items, E!SaveRole(i) PROVE EditsInv'
  BY <1>2, DraftStep DEF E!SaveRole, E!Editing
<1>3. ASSUME NEW i \in Items, E!DeleteRole(i) PROVE EditsInv'
  BY <1>3, SendStep DEF E!DeleteRole
<1>4. ASSUME NEW p \in Parts, E!ToggleCell(p) PROVE EditsInv'
  BY <1>4, ToggleStep DEF E!ToggleCell
<1> QED BY <1>1, <1>2, <1>3, <1>4 DEF E!Roles

LEMMA NextTenants == ASSUME E!ConsoleEditsAssumption, EditsInv, E!Tenants PROVE EditsInv'
<1>0. DialogInv
  BY DEF EditsInv
<1>1. CASE E!CreateTenant
  BY <1>1, OpenNewStep DEF E!CreateTenant, E!NoDialog
<1>2. CASE E!HandleCreate
  BY <1>2, DraftStep DEF E!HandleCreate, E!Editing
<1>3. CASE E!HandleConfirmStatus
  BY <1>3, TargetStep DEF E!HandleConfirmStatus
<1>4. CASE E!CloseDialog
  BY <1>4, PanelsStep DEF E!CloseDialog, E!rows, E!wire, E!history, E!seen
<1>5. CASE E!LoadFirstPage
  BY <1>5, LoadStep
<1>6. ASSUME NEW i \in Items, E!EditTenant(i) PROVE EditsInv'
  BY <1>6, OpenStep, LoadsAre DEF E!EditTenant, E!NoDialog
<1>7. ASSUME NEW i \in Items, E!SuspendTenant(i) PROVE EditsInv'
  <2>1. E!Choose([id |-> i, to |-> E!Flipped(i)]) /\ editor = None /\ ~NotThere
    BY <1>7, LoadsAre DEF E!SuspendTenant, E!NoDialog
  <2> QED BY <2>1, ChooseStep, FlippedFits
<1>8. ASSUME NEW i \in Items, E!HandleEdit(i) PROVE EditsInv'
  BY <1>8, DraftStep DEF E!HandleEdit, E!Editing
<1>9. ASSUME NEW p \in Parts, E!TenantForm(p) PROVE EditsInv'
  BY <1>9, ToggleStep DEF E!TenantForm
<1> QED BY <1>1, <1>2, <1>3, <1>4, <1>5, <1>6, <1>7, <1>8, <1>9 DEF E!Tenants

LEMMA NextCredentials == ASSUME E!ConsoleEditsAssumption, EditsInv, E!Credentials PROVE EditsInv'
<1>1. CASE E!NewClient
  BY <1>1, OpenNewStep DEF E!NewClient
<1>2. CASE E!SubmitCreate
  BY <1>2, DraftStep DEF E!SubmitCreate, E!Editing
<1>3. CASE E!ConfirmRevoke
  BY <1>3, TargetStep DEF E!ConfirmRevoke
<1>4. ASSUME NEW i \in Items, E!AskRevoke(i) PROVE EditsInv'
  <2>1. E!Choose([id |-> i, to |-> {"off"}]) /\ screen = "credentials"
    BY <1>4 DEF E!AskRevoke, E!Off
  <2> QED BY <2>1, ChooseStep
<1>5. ASSUME NEW p \in Parts, E!ToggleScope(p) PROVE EditsInv'
  BY <1>5, ToggleStep DEF E!ToggleScope
<1> QED BY <1>1, <1>2, <1>3, <1>4, <1>5 DEF E!Credentials

LEMMA NextTables == ASSUME E!ConsoleEditsAssumption, EditsInv, E!Tables PROVE EditsInv'
<1>1. CASE E!CreateTable
  BY <1>1, SendStep DEF E!CreateTable
<1>2. CASE E!RemoveTable
  BY <1>2, TargetStep DEF E!RemoveTable
<1>3. ASSUME NEW i \in Items, E!ChooseColumns(i) PROVE EditsInv'
  BY <1>3, OpenNewStep DEF E!ChooseColumns
<1>4. ASSUME NEW i \in Items, E!AddColumns(i) PROVE EditsInv'
  BY <1>4, DraftStep DEF E!AddColumns, E!Editing
<1>5. ASSUME NEW p \in Parts, E!ColumnInputs(p) PROVE EditsInv'
  BY <1>5, ToggleStep DEF E!ColumnInputs
<1> QED BY <1>1, <1>2, <1>3, <1>4, <1>5 DEF E!Tables

LEMMA NextFields == ASSUME E!ConsoleEditsAssumption, EditsInv, E!Fields PROVE EditsInv'
<1>1. CASE E!OpenForm
  BY <1>1, OpenNewStep DEF E!OpenForm
<1>2. CASE E!SaveDefinition
  <2>1. editor # None /\ editor.id \in Items \cup {New} /\ screen = "fields"
    BY <1>2 DEF E!SaveDefinition, EditsInv, PanelsInv, EditorFits, Editors
  <2>2. CASE editor.id = New
    BY <1>2, <2>1, <2>2, DraftStep DEF E!SaveDefinition
  <2>3. CASE editor.id # New
    BY <1>2, <2>1, <2>3, DraftStep DEF E!SaveDefinition
  <2> QED BY <2>2, <2>3
<1>3. CASE E!DeleteDefinition
  BY <1>3, TargetStep DEF E!DeleteDefinition
<1>4. ASSUME NEW i \in Items, E!EditField(i) PROVE EditsInv'
  BY <1>4, OpenStep DEF E!EditField
<1>5. ASSUME NEW p \in Parts, E!FieldForm(p) PROVE EditsInv'
  BY <1>5, ToggleStep DEF E!FieldForm
<1> QED BY <1>1, <1>2, <1>3, <1>4, <1>5 DEF E!Fields

LEMMA NextLists == ASSUME E!ConsoleEditsAssumption, EditsInv, E!Lists PROVE EditsInv'
<1>1. CASE E!CreateList
  BY <1>1, SendStep DEF E!CreateList
<1>2. CASE E!DeleteList
  BY <1>2, TargetStep DEF E!DeleteList
<1>3. ASSUME NEW i \in Items, E!StartRename(i) PROVE EditsInv'
  BY <1>3, OpenStep DEF E!StartRename
<1>4. ASSUME NEW i \in Items, E!Rename(i) PROVE EditsInv'
  BY <1>4, DraftStep DEF E!Rename, E!Editing
<1>5. ASSUME NEW p \in Parts, E!Renaming(p) PROVE EditsInv'
  BY <1>5, ToggleStep DEF E!Renaming
<1> QED BY <1>1, <1>2, <1>3, <1>4, <1>5 DEF E!Lists

LEMMA NextContact == ASSUME E!ConsoleEditsAssumption, EditsInv, E!Contact PROVE EditsInv'
<1>1. CASE E!RecordConsent
  BY <1>1, SendStep DEF E!RecordConsent
<1>2. ASSUME NEW i \in Items, E!StartField(i) PROVE EditsInv'
  BY <1>2, OpenStep DEF E!StartField
<1>3. ASSUME NEW i \in Items, E!SaveField(i) PROVE EditsInv'
  BY <1>3, DraftStep DEF E!SaveField, E!Editing
<1>4. ASSUME NEW p \in Parts, E!Editor(p) PROVE EditsInv'
  BY <1>4, ToggleStep DEF E!Editor
<1> QED BY <1>1, <1>2, <1>3, <1>4 DEF E!Contact

LEMMA NextEdits == ASSUME E!ConsoleEditsAssumption PROVE EditsInv /\ [E!Next]_E!vars => EditsInv'
<1> SUFFICES ASSUME EditsInv, [E!Next]_E!vars PROVE EditsInv'
  OBVIOUS
<1>0. PanelsInv /\ DialogInv
  BY DEF EditsInv
<1>1. CASE UNCHANGED E!vars
  <2>1. UNCHANGED <<screen, server, table, editor, target, busy, sent, asks, answers, writes, changed, mine, latest, missed, dropped, undone>>
    BY <1>1 DEF E!vars, E!rows, E!panels, E!wire, E!history, E!seen
  <2>2. target' # None => target'.id \in Items /\ target'.to \subseteq {"off"}
    BY <1>0, <2>1 DEF PanelsInv
  <2>3. screen = "tenants" => /\ editor' = None \/ target' = None
                              /\ NotThere => target' = None /\ (editor' # None => editor'.id = New)
    BY <1>0, <2>1 DEF DialogInv
  <2> QED BY <2>1, <2>2, <2>3, PanelsStep
<1>2. CASE E!CancelEditor
  BY <1>2, ClosedFits DEF E!CancelEditor
<1>3. CASE E!CancelRemoval
  BY <1>3, ChooseStep DEF E!CancelRemoval
<1>4. ASSUME NEW i \in Items, E!ChooseRemoval(i) PROVE EditsInv'
  BY <1>4, ChooseStep DEF E!ChooseRemoval
<1>5. ASSUME NEW a \in asks, E!Refuse(a) PROVE EditsInv'
  BY <1>5, LostStep DEF E!Refuse
<1>6. ASSUME NEW w \in answers, E!Throw(w) PROVE EditsInv'
  BY <1>6, LostStep DEF E!Throw
<1>7. ASSUME NEW w \in answers, E!Done(w) PROVE EditsInv'
  BY <1>7, DoneLoads, DoneReplaces
<1> QED
  BY <1>1, <1>2, <1>3, <1>4, <1>5, <1>6, <1>7, NextUsers, NextRoles, NextTenants, NextCredentials, NextTables, NextFields,
     NextLists, NextContact, OtherStep, CommitStep, ConsentStep, ReadStep, LoadedStep, NotLoadedStep DEF E!Next

\* A save never takes back what the administrator was told is saved, unless the editor was
\* opened before the rows were loaded again, after that failed, or after an older load came last
\* (saveRoles, users-screen.tsx:123; save, contact-detail.tsx:117).
THEOREM SavesStay == ASSUME E!ConsoleEditsAssumption PROVE E!Spec => []OwnChangesStay
<1>1. EditsInv => OwnChangesStay
  BY DEF EditsInv
<1> QED BY <1>1, InitEdits, NextEdits, PTL DEF E!Spec

\* An editor is closed by an answer only when the server has what it holds, or it was opened
\* or changed after that request was sent (saveRole, roles-screen.tsx:70).
THEOREM DraftsKept == ASSUME E!ConsoleEditsAssumption PROVE E!Spec => []DraftsSurvive
<1>1. EditsInv => DraftsSurvive
  BY DEF EditsInv
<1> QED BY <1>1, InitEdits, NextEdits, PTL DEF E!Spec
=============================================================================
