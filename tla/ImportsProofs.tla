---------------------------- MODULE ImportsProofs ---------------------------
(***************************************************************************)
(* Theorems about the imports: ImportDrafts, for any number of drafts,     *)
(* requests, screens and faults, and ImportRun (whose operators are        *)
(* R!..., as in MCImports), for any number of rows, senders and retries.   *)
(***************************************************************************)
EXTENDS MCImports, FiniteSetTheorems, TLAPS

\* A request names the upload it is for, and is where its kind can be.
ReqInv ==
    \A r \in Requests :
        /\ req[r].op = "none" <=> req[r].at = "idle"
        /\ req[r].op = "start" => req[r].file \in Drafts /\ req[r].from \in Wizards
        /\ req[r].op = "public" => req[r].file = r /\ req[r].from = None
        /\ req[r].op = "export" => req[r].file = None
        /\ req[r].at \in {"idle", "sent", "loaded"} => row[r] = None
        /\ req[r].at = "queued" => req[r].op = "start"
        /\ req[r].at = "discarding" => req[r].op = "public"
        /\ req[r].at \in {"queued", "accepted"} => row[r] # None

\* A draft that is started, or may be, was created and has its upload.
DraftsInv ==
    /\ \A d \in Drafts : mark[d] # "absent" => d \in objects
    /\ \A w \in Wizards : /\ step[w] # "upload" => importId[w] # None
                          /\ importId[w] # None => mark[importId[w]] # "absent"
    /\ \A r \in Requests : req[r].op = "start" => /\ mark[req[r].file] # "absent"
                                                  /\ importId[req[r].from] # None

\* A draft not excused has one start that may go on, and then no mark; its job is at the
\* mark or is the mark.
StartsInv ==
    \A d \in Drafts \ excused :
        /\ \A r, q \in Starting(d) : r = q
        /\ \A r \in Starting(d) : mark[d] = None
        /\ \A r \in JobsOf(d) : req[r].at # "queued" => mark[d] = r

\* A public import keeps its upload until its request fails.
FilesInv ==
    \A r \in Requests : req[r].op = "public" =>
        /\ req[r].at \in {"loaded", "accepted"} => r \in objects
        /\ row[r] # None /\ r \notin unknown => req[r].at = "accepted"

\* An answer that says how a job ended stays true.
ViewInv ==
    /\ \A s \in Screens : \A a \in answers[s] :
           /\ a = [job |-> a.job, status |-> a.status]
           /\ a.status \in Waiting \cup Ended \cup {None}
           /\ a.status \in Ended => Found(a.job) = a.status
    /\ StoppedShowsTheEnd

IInv == ReqInv /\ DraftsInv /\ StartsInv /\ FilesInv /\ ViewInv

LEMMA InitInv == Init => TypeOK /\ IInv
<1> SUFFICES ASSUME Init PROVE TypeOK /\ IInv
  OBVIOUS
<1> USE ImportDraftsAssumption DEF Init
<1>1. TypeOK
  BY DEF TypeOK, Idle, Waiting, Ended
<1>2. ReqInv /\ DraftsInv /\ FilesInv
  BY DEF ReqInv, DraftsInv, FilesInv, Idle
<1>3. StartsInv
  BY DEF StartsInv, Starting, JobsOf, Idle
<1>4. ViewInv
  BY DEF ViewInv, StoppedShowsTheEnd
<1> QED BY <1>1, <1>2, <1>3, <1>4 DEF IInv

\* Every request is at most at the place it goes to; nothing else of it changes.
LEMMA GoesTo ==
    ASSUME TypeOK, NEW r \in Requests, NEW at, Goes(r, at)
    PROVE  /\ \A q \in Requests : /\ req'[q].op = req[q].op /\ req'[q].file = req[q].file
                                  /\ req'[q].from = req[q].from
                                  /\ req'[q].at = IF q = r THEN at ELSE req[q].at
           /\ at \in {"idle", "sent", "loaded", "queued", "discarding", "accepted", "refused", "answered"} =>
                  req' \in [Requests -> [op : {"none", "start", "public", "export"},
                                         file : Drafts \cup Requests \cup {None}, from : Screens \cup {None},
                                         at : {"idle", "sent", "loaded", "queued", "discarding",
                                               "accepted", "refused", "answered"}]]
BY DEF TypeOK, Goes

LEMMA GoesOnce ==
    ASSUME TypeOK, NEW r \in Requests, NEW at, NEW to, Goes(r, at), Goes(r, to) PROVE at = to
BY DEF TypeOK, Goes

LEMMA NextType == TypeOK /\ IInv /\ [Next]_vars => TypeOK'
<1> SUFFICES ASSUME TypeOK, IInv, [Next]_vars PROVE TypeOK'
  OBVIOUS
<1> USE ImportDraftsAssumption DEF stores, wizard, view, ghosts, Waiting, Ended
<1>0. ReqInv /\ DraftsInv
  BY DEF IInv
<1>1. CASE UNCHANGED vars
  BY <1>1 DEF vars, TypeOK
<1>2. ASSUME NEW r \in Requests,
             PostImport(r) \/ (\E v \in Views : CreateExport(v, r)) \/ (\E w \in Wizards : ClickStart(w, r))
      PROVE  TypeOK'
  BY <1>2 DEF TypeOK, PostImport, CreateExport, ClickStart, Send, Idle, Screens
<1>3. ASSUME NEW r \in Requests,
             \/ LoadDraft(r) \/ StoreUpload(r) \/ Reject(r) \/ BodyMalformed(r) \/ Enqueue(r)
             \/ EnqueueFails(r) \/ Discard(r) \/ MarkDraft(r) \/ Dies(r) \/ AnswerLost(r)
      PROVE  TypeOK'
  <2>1. PICK at \in {"loaded", "refused", "discarding", "queued", "accepted", "answered"} : Goes(r, at)
    BY <1>3 DEF LoadDraft, StoreUpload, Reject, BodyMalformed, Enqueue, EnqueueFails, Discard, MarkDraft,
                Dies, AnswerLost, AfterError
  <2>2. req' \in [Requests -> [op : {"none", "start", "public", "export"},
                                file : Drafts \cup Requests \cup {None}, from : Screens \cup {None},
                                at : {"idle", "sent", "loaded", "queued", "discarding",
                                      "accepted", "refused", "answered"}]]
    BY <2>1, GoesTo
  <2>3. objects' \subseteq Drafts \cup Requests /\ faults' \in 0..MaxFaults /\ UNCHANGED <<wizard, view>>
    BY <1>3 DEF TypeOK, LoadDraft, StoreUpload, Reject, BodyMalformed, Enqueue, EnqueueFails, Discard,
                MarkDraft, Dies, AnswerLost, Fault
  <2>4. row' \in [Requests -> Waiting \cup Ended \cup {None}] /\ unknown' \subseteq Requests
    BY <1>3 DEF TypeOK, LoadDraft, StoreUpload, Reject, BodyMalformed, Enqueue, EnqueueFails, Discard,
                MarkDraft, Dies, AnswerLost
  <2>5. req[r].at = "queued" \/ req[r].op = "start" => req[r].file \in Drafts
    BY <1>0 DEF ReqInv
  <2>6. mark' \in [Drafts -> Requests \cup {None, "absent"}] /\ excused' \subseteq Drafts
    BY <1>3, <2>5 DEF TypeOK, LoadDraft, StoreUpload, Reject, BodyMalformed, Enqueue, EnqueueFails, Discard,
                      MarkDraft, Dies, AnswerLost, At
  <2> QED BY <2>2, <2>3, <2>4, <2>6 DEF TypeOK
<1>4. ASSUME NEW r \in Requests, AnswerTaken(r) PROVE TypeOK'
  <2>1. req' \in [Requests -> [op : {"none", "start", "public", "export"},
                                file : Drafts \cup Requests \cup {None}, from : Screens \cup {None},
                                at : {"idle", "sent", "loaded", "queued", "discarding",
                                      "accepted", "refused", "answered"}]]
    BY <1>4, GoesTo DEF AnswerTaken
  <2>2. CASE req[r].op = "start"
    <3>1. req[r].from \in Wizards
      BY <1>0, <2>2 DEF ReqInv
    <3>2. /\ step' = [step EXCEPT ![req[r].from] = "job"] /\ Watch(req[r].from, importId[req[r].from])
          /\ UNCHANGED <<stores, upload, importId, faults, ghosts>>
      BY <1>4, <2>2 DEF AnswerTaken
    <3> QED BY <2>1, <3>1, <3>2 DEF TypeOK, Watch, Screens
  <2>3. CASE req[r].op # "start"
    <3>1. Watch(req[r].from, r) /\ UNCHANGED <<stores, wizard, faults, ghosts>>
      BY <1>4, <2>3 DEF AnswerTaken
    <3> QED BY <2>1, <3>1 DEF TypeOK, Watch
  <2> QED BY <2>2, <2>3
<1>5. ASSUME NEW r \in Requests, Queue(r) PROVE TypeOK'
  BY <1>5 DEF TypeOK, Queue, Claim, Finish, LoseWorker, Cancel, Moves, Fault
<1>6. ASSUME NEW w \in Wizards, (\E d \in Drafts : PutFile(w, d)) \/ CreateDraft(w) \/ Preview(w) \/ UploadFails(w)
      PROVE  TypeOK'
  BY <1>6 DEF TypeOK, PutFile, CreateDraft, Preview, UploadFails, Fault
<1>7. ASSUME NEW w \in Wizards, NEW s \in {"settings", "mapping", "confirm"}, GoTo(w, s) PROVE TypeOK'
  BY <1>7 DEF TypeOK, GoTo
<1>8. ASSUME NEW s \in Screens, JobView(s) PROVE TypeOK'
  <2>1. UNCHANGED <<stores, req, wizard, watched, ghosts>> /\ faults' \in 0..MaxFaults
    BY <1>8 DEF JobView, Poll, TakePoll, PollFails, Fault, TypeOK
  <2>2. polling' \in [Screens -> BOOLEAN] /\ DOMAIN shown' = Screens /\ DOMAIN answers' = Screens
    <3>1. CASE Poll(s) \/ \E a \in answers[s] : PollFails(s, a)
      BY <3>1 DEF Poll, PollFails, TypeOK
    <3>2. ASSUME NEW a \in answers[s], TakePoll(s, a)
          PROVE  polling' \in [Screens -> BOOLEAN] /\ DOMAIN shown' = Screens /\ DOMAIN answers' = Screens
      <4>1. DOMAIN shown' = Screens /\ DOMAIN answers' = Screens
        BY <3>2 DEF TakePoll, TypeOK
      <4>2. \E b \in BOOLEAN : polling' = polling \/ polling' = [polling EXCEPT ![s] = b]
        <5> DEFINE b == a.status \in Waiting
        <5>1. b \in BOOLEAN /\ (polling' = polling \/ polling' = [polling EXCEPT ![s] = b])
          BY <3>2 DEF TakePoll
        <5> QED BY <5>1
      <4> QED BY <4>1, <4>2 DEF TypeOK
    <3> QED BY <1>8, <3>1, <3>2 DEF JobView
  <2> QED BY <2>1, <2>2 DEF TypeOK
<1> QED
  BY <1>1, <1>2, <1>3, <1>4, <1>5, <1>6, <1>7, <1>8 DEF Next, Route, Wizard

LEMMA NextReq == TypeOK /\ IInv /\ [Next]_vars => ReqInv'
<1> SUFFICES ASSUME TypeOK, IInv, [Next]_vars PROVE ReqInv'
  OBVIOUS
<1> USE ImportDraftsAssumption DEF stores, wizard, view, ghosts
<1>0. ReqInv /\ DraftsInv
  BY DEF IInv
<1>1. CASE UNCHANGED vars \/ (\E w \in Wizards : Wizard(w) /\ UNCHANGED req) \/ \E s \in Screens : JobView(s)
  <2>1. UNCHANGED <<row, req>>
    BY <1>1 DEF vars, Wizard, PutFile, CreateDraft, Preview, UploadFails, GoTo, ClickStart, Send,
                JobView, Poll, TakePoll, PollFails
  <2> QED BY <1>0, <2>1 DEF ReqInv
<1>2. ASSUME NEW r \in Requests, NEW op \in {"start", "public", "export"}, NEW file, NEW from,
             Send(r, op, file, from), op = "start" => file \in Drafts /\ from \in Wizards,
             op = "public" => file = r /\ from = None, op = "export" => file = None
      PROVE  ReqInv'
  <2>1. row[r] = None /\ row' = row
    BY <1>0, <1>2 DEF ReqInv, Send, Idle
  <2>2. \A q \in Requests : req'[q] = IF q = r THEN [op |-> op, file |-> file, from |-> from, at |-> "sent"]
                                              ELSE req[q]
    BY <1>2 DEF Send, TypeOK
  <2> QED BY <1>0, <1>2, <2>1, <2>2 DEF ReqInv
<1>3. ASSUME NEW w \in Wizards, NEW r \in Requests, ClickStart(w, r) PROVE ReqInv'
  <2>1. importId[w] \in Drafts /\ Send(r, "start", importId[w], w)
    BY <1>0, <1>3 DEF TypeOK, DraftsInv, ClickStart
  <2> QED BY <1>2, <2>1
<1>4. ASSUME NEW r \in Requests, PostImport(r) \/ \E v \in Views : CreateExport(v, r) PROVE ReqInv'
  BY <1>2, <1>4 DEF PostImport, CreateExport
<1>5. ASSUME NEW r \in Requests, Queue(r) PROVE ReqInv'
  <2>1. req' = req /\ row[r] # None /\ \A q \in Requests : row'[q] = None <=> row[q] = None
    BY <1>5 DEF Ended, Queue, Claim, Finish, LoseWorker, Cancel, Moves, Waiting, TypeOK
  <2> QED BY <1>0, <2>1 DEF ReqInv
<1>6. ASSUME NEW r \in Requests, Route(r) PROVE ReqInv'
  <2>1. PICK at \in {"loaded", "refused", "discarding", "queued", "accepted", "answered"} : Goes(r, at)
    BY <1>6 DEF Route, LoadDraft, StoreUpload, Reject, BodyMalformed, Enqueue, EnqueueFails, Discard, MarkDraft,
                Dies, AnswerTaken, AnswerLost, AfterError
  <2>2. \A q \in Requests : /\ req'[q].op = req[q].op /\ req'[q].file = req[q].file /\ req'[q].from = req[q].from
                            /\ req'[q].at = IF q = r THEN at ELSE req[q].at
    BY <2>1, GoesTo
  <2>3. \A q \in Requests \ {r} : row'[q] = row[q]
    BY <1>6 DEF Route, LoadDraft, StoreUpload, Reject, BodyMalformed, Enqueue, EnqueueFails, Discard, MarkDraft,
                Dies, AnswerTaken, AnswerLost, TypeOK
  <2>4. req[r].at # "idle"
    BY <1>6 DEF Route, LoadDraft, StoreUpload, Reject, BodyMalformed, Enqueue, EnqueueFails, Discard, MarkDraft,
                Dies, AnswerTaken, AnswerLost, Ready, At
  <2>5. /\ at = "loaded" => req[r].at = "sent" /\ row' = row
        /\ at = "queued" => req[r].op = "start"
        /\ at = "discarding" => req[r].op = "public"
        /\ at \in {"queued", "accepted"} => row'[r] # None
    <3>1. CASE LoadDraft(r) \/ StoreUpload(r)
      BY <1>0, <2>1, <3>1, GoesOnce DEF LoadDraft, StoreUpload, At, ReqInv
    <3>2. CASE Enqueue(r)
      <4>1. row'[r] = "queued" /\ Goes(r, IF req[r].op = "start" THEN "queued" ELSE "accepted")
        BY <3>2 DEF Enqueue, TypeOK
      <4>2. at = IF req[r].op = "start" THEN "queued" ELSE "accepted"
        BY <2>1, <4>1, GoesOnce
      <4> QED BY <4>1, <4>2 DEF Waiting
    <3>3. CASE MarkDraft(r)
      <4>1. at = "accepted" /\ row[r] # None /\ row' = row
        BY <1>0, <2>1, <3>3, GoesOnce DEF MarkDraft, At, ReqInv
      <4> QED BY <4>1
    <3>4. CASE Reject(r) \/ EnqueueFails(r)
      <4>1. Goes(r, AfterError(r))
        BY <3>4 DEF Reject, EnqueueFails
      <4>2. at = AfterError(r)
        BY <2>1, <4>1, GoesOnce
      <4> QED BY <4>2 DEF AfterError
    <3>5. CASE BodyMalformed(r) \/ Discard(r) \/ Dies(r) \/ AnswerTaken(r) \/ AnswerLost(r)
      <4>1. at \in {"refused", "answered"}
        BY <2>1, <3>5, GoesOnce DEF BodyMalformed, Discard, Dies, AnswerTaken, AnswerLost
      <4> QED BY <4>1
    <3> QED BY <1>6, <3>1, <3>2, <3>3, <3>4, <3>5 DEF Route
  <2> QED BY <1>0, <2>2, <2>3, <2>4, <2>5 DEF ReqInv
<1> QED
  BY <1>1, <1>3, <1>4, <1>5, <1>6 DEF Next, Wizard, PutFile, CreateDraft, Preview, UploadFails, GoTo

\* Wizards and routes create and never remove a draft, and no route removes its upload.
LEMMA NextDrafts == TypeOK /\ IInv /\ [Next]_vars => DraftsInv'
<1> SUFFICES ASSUME TypeOK, IInv, [Next]_vars PROVE DraftsInv'
  OBVIOUS
<1> USE ImportDraftsAssumption DEF stores, wizard, view, ghosts
<1>0. ReqInv /\ DraftsInv
  BY DEF IInv
<1>1. ASSUME UNCHANGED <<mark, wizard>>, Drafts \cap objects \subseteq objects',
             \A r \in Requests : req'[r].op = "start" => /\ req[r].op = "start"
                                                               /\ req'[r].file = req[r].file
                                                               /\ req'[r].from = req[r].from
      PROVE  DraftsInv'
  BY <1>0, <1>1 DEF DraftsInv
<1>2. CASE UNCHANGED vars \/ (\E r \in Requests : Queue(r)) \/ \E s \in Screens : JobView(s)
  <2>1. UNCHANGED <<objects, mark, req, wizard>>
    BY <1>2 DEF vars, Queue, Claim, Finish, LoseWorker, Cancel, Moves, JobView, Poll, TakePoll, PollFails
  <2> QED BY <1>1, <2>1
<1>3. ASSUME NEW r \in Requests, PostImport(r) \/ \E v \in Views : CreateExport(v, r) PROVE DraftsInv'
  BY <1>1, <1>3 DEF PostImport, CreateExport, Send, TypeOK
<1>4. ASSUME NEW w \in Wizards, NEW r \in Requests, ClickStart(w, r) PROVE DraftsInv'
  <2>1. /\ \A q \in Requests \ {r} : req'[q] = req[q]
        /\ req'[r].file = importId[w] /\ req'[r].from = w /\ importId[w] # None /\ UNCHANGED <<stores, wizard>>
    BY <1>0, <1>4 DEF ClickStart, Send, TypeOK, DraftsInv
  <2> QED BY <1>0, <2>1 DEF DraftsInv
<1>5. ASSUME NEW r \in Requests,
             \/ LoadDraft(r) \/ StoreUpload(r) \/ Reject(r) \/ BodyMalformed(r) \/ Enqueue(r)
             \/ EnqueueFails(r) \/ Discard(r) \/ Dies(r) \/ AnswerLost(r)
      PROVE  DraftsInv'
  <2>1. UNCHANGED <<mark, wizard>> /\ \E at : Goes(r, at)
    BY <1>5 DEF LoadDraft, StoreUpload, Reject, BodyMalformed, Enqueue, EnqueueFails, Discard, Dies, AnswerLost
  <2>2. \A q \in Requests : /\ req'[q].op = req[q].op /\ req'[q].file = req[q].file
                            /\ req'[q].from = req[q].from
    BY <2>1, GoesTo
  <2>3. Drafts \cap objects \subseteq objects'
    <3>1. CASE Discard(r)
      BY <1>0, <3>1 DEF Discard, ReqInv, At
    <3>2. CASE ~Discard(r)
      BY <1>5, <3>2 DEF LoadDraft, StoreUpload, Reject, BodyMalformed, Enqueue, EnqueueFails, Dies, AnswerLost
    <3> QED BY <3>1, <3>2
  <2> QED BY <1>1, <2>1, <2>2, <2>3
<1>6. ASSUME NEW r \in Requests, MarkDraft(r) PROVE DraftsInv'
  <2>1. req[r].file \in Drafts /\ mark[req[r].file] # "absent"
    BY <1>0, <1>6 DEF MarkDraft, At, ReqInv, DraftsInv
  <2>2. \A d \in Drafts : mark'[d] = "absent" <=> mark[d] = "absent"
    BY <1>6, <2>1 DEF MarkDraft, TypeOK
  <2>3. \A q \in Requests : /\ req'[q].op = req[q].op /\ req'[q].file = req[q].file
                            /\ req'[q].from = req[q].from
    BY <1>6, GoesTo DEF MarkDraft
  <2>4. UNCHANGED <<objects, wizard>>
    BY <1>6 DEF MarkDraft
  <2>5. /\ \A w \in Wizards : importId[w] \in Drafts \cup {None}
        /\ \A q \in Requests : req[q].op = "start" => req[q].file \in Drafts
    BY <1>0 DEF TypeOK, ReqInv
  <2> QED BY <1>0, <2>2, <2>3, <2>4, <2>5 DEF DraftsInv
<1>7. ASSUME NEW r \in Requests, AnswerTaken(r) PROVE DraftsInv'
  <2>1. \A q \in Requests : /\ req'[q].op = req[q].op /\ req'[q].file = req[q].file
                            /\ req'[q].from = req[q].from
    BY <1>7, GoesTo DEF AnswerTaken
  <2>2. UNCHANGED <<objects, mark, importId>>
    BY <1>7 DEF AnswerTaken
  <2>3. \A w \in Wizards : step'[w] # "upload" => importId[w] # None
    <3>1. CASE req[r].op = "start"
      <4>1. req[r].from \in Wizards /\ step' = [step EXCEPT ![req[r].from] = "job"]
        BY <1>0, <1>7, <3>1 DEF ReqInv, AnswerTaken
      <4>2. importId[req[r].from] # None
        BY <1>0, <3>1, <4>1 DEF DraftsInv
      <4> QED BY <1>0, <4>1, <4>2 DEF DraftsInv, TypeOK
    <3>2. CASE req[r].op # "start"
      BY <1>0, <1>7, <3>2 DEF DraftsInv, AnswerTaken
    <3> QED BY <3>1, <3>2
  <2> QED BY <1>0, <2>1, <2>2, <2>3 DEF DraftsInv
<1>8. ASSUME NEW w \in Wizards, NEW d \in Drafts, PutFile(w, d) PROVE DraftsInv'
  BY <1>0, <1>8 DEF PutFile, TypeOK, DraftsInv
<1>9. ASSUME NEW w \in Wizards, CreateDraft(w) PROVE DraftsInv'
  BY <1>0, <1>9 DEF CreateDraft, DraftsInv, TypeOK, ReqInv
<1>10. ASSUME NEW w \in Wizards, Preview(w) PROVE DraftsInv'
  BY <1>0, <1>10 DEF Preview, DraftsInv, TypeOK
<1>11. ASSUME NEW w \in Wizards, UploadFails(w) \/ \E s \in {"settings", "mapping", "confirm"} : GoTo(w, s)
       PROVE  DraftsInv'
  BY <1>0, <1>11 DEF UploadFails, GoTo, Neighbours, DraftsInv, TypeOK
<1> QED
  BY <1>2, <1>3, <1>4, <1>5, <1>6, <1>7, <1>8, <1>9, <1>10, <1>11 DEF Next, Wizard, Route

\* Where a request of r stays and nothing is queued or marked, starts do not change.
LEMMA StartsKept ==
    ASSUME TypeOK, StartsInv, excused \subseteq excused', UNCHANGED mark,
           \A r \in Requests : /\ req'[r].op = "start" => req[r].op = "start" /\ req'[r].file = req[r].file
                               /\ req'[r].op = "start" /\ req'[r].at \in {"loaded", "queued"} => req'[r].at = req[r].at
                               /\ row'[r] # None => row[r] # None
                               /\ \/ req[r].op # "start" \/ req[r].at # "queued"
                                  \/ req'[r].at = "queued" \/ req[r].file \in excused'
    PROVE  StartsInv'
<1> SUFFICES ASSUME NEW d \in Drafts \ excused'
             PROVE  /\ \A r, q \in Starting(d)' : r = q
                    /\ \A r \in Starting(d)' : mark'[d] = None
                    /\ \A r \in JobsOf(d)' : req'[r].at # "queued" => mark'[d] = r
  BY DEF StartsInv
<1>1. d \in Drafts \ excused
  OBVIOUS
<1>2. ASSUME NEW r \in Requests, r \in Starting(d)' PROVE r \in Starting(d)
  <2>1. req'[r].op = "start" /\ req'[r].file = d /\ req'[r].at \in {"loaded", "queued"}
    BY <1>2 DEF Starting
  <2>2. req[r].op = "start" /\ req[r].file = d /\ req'[r].at = req[r].at
    BY <2>1
  <2> QED BY <2>1, <2>2 DEF Starting
<1>3. ASSUME NEW r \in Requests, r \in JobsOf(d)'
      PROVE  r \in JobsOf(d) /\ (req'[r].at # "queued" => req[r].at # "queued")
  <2>1. req'[r].op = "start" /\ req'[r].file = d /\ row'[r] # None
    BY <1>3 DEF JobsOf
  <2>2. req[r].op = "start" /\ req[r].file = d /\ row[r] # None
    BY <2>1
  <2>3. req'[r].at # "queued" => req[r].at # "queued"
    BY <1>1, <2>2
  <2> QED BY <2>2, <2>3 DEF JobsOf
<1>4. Starting(d)' \subseteq Requests /\ JobsOf(d)' \subseteq Requests
  BY DEF Starting, JobsOf
<1> QED BY <1>1, <1>2, <1>3, <1>4 DEF StartsInv

LEMMA NextStarts == TypeOK /\ IInv /\ [Next]_vars => StartsInv'
<1> SUFFICES ASSUME TypeOK, IInv, [Next]_vars PROVE StartsInv'
  OBVIOUS
<1> USE ImportDraftsAssumption DEF stores, wizard, view, ghosts
<1>0. ReqInv /\ DraftsInv /\ StartsInv
  BY DEF IInv
<1>1. CASE UNCHANGED vars \/ \E s \in Screens : JobView(s)
  <2>1. UNCHANGED <<mark, row, req, excused>>
    BY <1>1 DEF vars, JobView, Poll, TakePoll, PollFails
  <2> QED BY <1>0, <2>1, StartsKept
<1>2. ASSUME NEW r \in Requests,
             PostImport(r) \/ (\E v \in Views : CreateExport(v, r)) \/ \E w \in Wizards : ClickStart(w, r)
      PROVE  StartsInv'
  <2>1. UNCHANGED <<mark, row, excused>> /\ req[r] = Idle /\ req'[r].at = "sent"
        /\ \A q \in Requests \ {r} : req'[q] = req[q]
    BY <1>2 DEF PostImport, CreateExport, ClickStart, Send, TypeOK
  <2>2. row[r] = None
    BY <1>0, <2>1 DEF ReqInv, Idle
  <2>3. \A d \in Drafts : Starting(d)' = Starting(d) /\ JobsOf(d)' = JobsOf(d) /\ r \notin JobsOf(d)
    BY <2>1, <2>2 DEF Starting, JobsOf, Idle
  <2>4. \A d \in Drafts : \A q \in JobsOf(d) : q \in Requests \ {r}
    BY <2>3 DEF JobsOf
  <2> QED BY <1>0, <2>1, <2>3, <2>4 DEF StartsInv
<1>3. ASSUME NEW r \in Requests, Queue(r) PROVE StartsInv'
  <2>1. UNCHANGED <<mark, req, excused>> /\ \A q \in Requests : row'[q] # None => row[q] # None
    BY <1>3 DEF Queue, Claim, Finish, LoseWorker, Cancel, Moves, Waiting, TypeOK
  <2> QED BY <1>0, <2>1, StartsKept
<1>4. ASSUME NEW w \in Wizards, Wizard(w) PROVE StartsInv'
  <2>1. CASE \E r \in Requests : ClickStart(w, r)
    BY <1>2, <2>1
  <2>2. CASE CreateDraft(w)
    <3>1. /\ UNCHANGED <<row, req, excused>> /\ upload[w] \in Drafts
          /\ mark[upload[w]] = "absent" /\ \A d \in Drafts \ {upload[w]} : mark'[d] = mark[d]
      BY <2>2 DEF CreateDraft, TypeOK
    <3>2. Starting(upload[w]) = {} /\ JobsOf(upload[w]) = {}
      BY <1>0, <3>1 DEF Starting, JobsOf, DraftsInv
    <3>3. \A d \in Drafts : Starting(d)' = Starting(d) /\ JobsOf(d)' = JobsOf(d)
      BY <3>1 DEF Starting, JobsOf
    <3> QED BY <1>0, <3>1, <3>2, <3>3 DEF StartsInv
  <2>3. CASE (\E d \in Drafts : PutFile(w, d)) \/ Preview(w) \/ UploadFails(w)
             \/ \E s \in {"settings", "mapping", "confirm"} : GoTo(w, s)
    <3>1. UNCHANGED <<mark, row, req, excused>>
      BY <2>3 DEF PutFile, Preview, UploadFails, GoTo
    <3> QED BY <1>0, <3>1, StartsKept
  <2> QED BY <1>4, <2>1, <2>2, <2>3 DEF Wizard
<1>5. ASSUME NEW r \in Requests,
             \/ StoreUpload(r) \/ Reject(r) \/ BodyMalformed(r) \/ Discard(r) \/ Dies(r)
             \/ AnswerTaken(r) \/ AnswerLost(r)
      PROVE  StartsInv'
  <2>1. /\ UNCHANGED <<mark, row>> /\ excused \subseteq excused'
        /\ req[r].at = "queued" => req[r].file \in excused'
    BY <1>5 DEF StoreUpload, Reject, BodyMalformed, Discard, Dies, AnswerTaken, AnswerLost, Ready, At
  <2>2. req[r].op = "start" => \E at \in {"refused", "answered"} : Goes(r, at)
    BY <1>0, <1>5 DEF ReqInv, StoreUpload, Reject, BodyMalformed, Discard, Dies, AnswerTaken, AnswerLost, AfterError, At
  <2>3. \E at : Goes(r, at)
    BY <1>5 DEF StoreUpload, Reject, BodyMalformed, Discard, Dies, AnswerTaken, AnswerLost
  <2>4. \A q \in Requests : req'[q].op = req[q].op /\ req'[q].file = req[q].file /\ (q # r => req'[q] = req[q])
    BY <2>3, GoesTo DEF Goes, TypeOK
  <2>5. req[r].op = "start" => req'[r].at \in {"refused", "answered"}
    BY <2>2, GoesTo
  <2> QED BY <1>0, <2>1, <2>4, <2>5, StartsKept
<1>6. ASSUME NEW r \in Requests, LoadDraft(r) PROVE StartsInv'
  <2> DEFINE f == req[r].file
  <2>1. f \in Drafts /\ row[r] = None /\ req[r].op = "start" /\ req[r].at = "sent"
    BY <1>0, <1>6 DEF LoadDraft, At, ReqInv
  <2>2. CASE mark[f] = None
    <3>1. Goes(r, "loaded") /\ UNCHANGED <<mark, row>>
          /\ excused' = IF Starting(f) = {} THEN excused ELSE excused \cup {f}
      BY <1>6, <2>2 DEF LoadDraft, Refused
    <3>2. \A q \in Requests : /\ req'[q].op = req[q].op /\ req'[q].file = req[q].file
                              /\ req'[q].at = IF q = r THEN "loaded" ELSE req[q].at
      BY <3>1, GoesTo
    <3>3. \A d \in Drafts : Starting(d)' = IF d = f THEN Starting(d) \cup {r} ELSE Starting(d)
      BY <2>1, <3>2 DEF Starting
    <3>4. \A d \in Drafts : JobsOf(d)' = JobsOf(d) /\ r \notin JobsOf(d) /\ JobsOf(d) \subseteq Requests
      BY <2>1, <3>1, <3>2 DEF JobsOf
    <3> QED BY <1>0, <2>2, <3>1, <3>2, <3>3, <3>4 DEF StartsInv
  <2>3. CASE mark[f] # None
    <3>1. Goes(r, "refused") /\ UNCHANGED <<mark, row, excused>>
      BY <1>6, <2>3 DEF LoadDraft, Refused
    <3>2. \A q \in Requests : /\ req'[q].op = req[q].op /\ req'[q].file = req[q].file
                              /\ req'[q].at = IF q = r THEN "refused" ELSE req[q].at
      BY <3>1, GoesTo
    <3> QED BY <1>0, <2>1, <3>1, <3>2, StartsKept
  <2> QED BY <2>2, <2>3
<1>7. ASSUME NEW r \in Requests, Enqueue(r) PROVE StartsInv'
  <2>1. /\ UNCHANGED <<mark, excused>> /\ \A q \in Requests \ {r} : row'[q] = row[q]
        /\ Goes(r, IF req[r].op = "start" THEN "queued" ELSE "accepted")
    BY <1>7 DEF Enqueue, TypeOK
  <2>2. \A q \in Requests : /\ req'[q].op = req[q].op /\ req'[q].file = req[q].file
                            /\ req'[q].at = IF q = r THEN IF req[r].op = "start" THEN "queued" ELSE "accepted"
                                            ELSE req[q].at
    BY <2>1, GoesTo
  <2>3. req[r].op = "start" => req[r].at = "loaded"
    BY <1>7 DEF Enqueue, Ready, At
  <2>4. \A d \in Drafts : Starting(d)' = Starting(d) /\ JobsOf(d)' \ {r} \subseteq JobsOf(d)
    BY <2>1, <2>2, <2>3 DEF Starting, JobsOf
  <2>5. \A d \in Drafts : \A q \in JobsOf(d)' : q = r => req'[q].at = "queued"
    BY <2>2 DEF JobsOf
  <2>6. \A d \in Drafts : \A q \in JobsOf(d)' \ {r} : req'[q].at = req[q].at
    BY <2>2 DEF JobsOf
  <2> QED BY <1>0, <2>1, <2>4, <2>5, <2>6 DEF StartsInv
<1>8. ASSUME NEW r \in Requests, EnqueueFails(r) PROVE StartsInv'
  <2>1. Goes(r, AfterError(r)) /\ UNCHANGED mark /\ Ready(r) /\ excused \subseteq excused'
        /\ (row' = row \/ (row' = [row EXCEPT ![r] = "queued"] /\ (req[r].op = "start" => req[r].file \in excused')))
    BY <1>8 DEF EnqueueFails
  <2>2. \A q \in Requests : /\ req'[q].op = req[q].op /\ req'[q].file = req[q].file
                            /\ req'[q].at = IF q = r THEN AfterError(r) ELSE req[q].at
    BY <2>1, GoesTo
  <2>3. AfterError(r) \in {"discarding", "refused"} /\ (req[r].op = "start" => req[r].at = "loaded")
    BY <2>1 DEF AfterError, Ready, At
  <2>4. \A d \in Drafts : Starting(d)' \subseteq Starting(d)
    BY <2>2, <2>3 DEF Starting
  <2>5. \A d \in Drafts \ excused' : \A q \in JobsOf(d)' :
            q \in JobsOf(d) /\ (req'[q].at # "queued" => req[q].at # "queued")
    BY <2>1, <2>2, <2>3 DEF JobsOf, TypeOK
  <2> QED BY <1>0, <2>1, <2>4, <2>5 DEF StartsInv
<1>9. ASSUME NEW r \in Requests, MarkDraft(r) PROVE StartsInv'
  <2>0. PICK f \in Drafts : f = req[r].file
    BY <1>0, <1>9 DEF MarkDraft, At, ReqInv
  <2>1. req[r].op = "start" /\ req[r].at = "queued" /\ row[r] # None /\ row' = row
    BY <1>0, <1>9 DEF MarkDraft, At, ReqInv
  <2>2. \A q \in Requests : /\ req'[q].op = req[q].op /\ req'[q].file = req[q].file
                            /\ req'[q].at = IF q = r THEN "accepted" ELSE req[q].at
    BY <1>9, GoesTo DEF MarkDraft
  <2>3. \A d \in Drafts : Starting(d)' = Starting(d) \ {r} /\ JobsOf(d)' = JobsOf(d) /\ JobsOf(d) \subseteq Requests
    BY <2>1, <2>2 DEF Starting, JobsOf
  <2>4. CASE mark' = [mark EXCEPT ![f] = r] /\ UNCHANGED excused
    <3>1. mark'[f] = r /\ \A d \in Drafts \ {f} : mark'[d] = mark[d]
      BY <2>4 DEF TypeOK
    <3>2. ASSUME NEW d \in Drafts \ excused, d # f
          PROVE  /\ \A q, t \in Starting(d)' : q = t
                 /\ \A q \in Starting(d)' : mark'[d] = None
                 /\ \A q \in JobsOf(d)' : req'[q].at # "queued" => mark'[d] = q
      <4>1. r \notin JobsOf(d)
        BY <2>0, <3>2 DEF JobsOf
      <4> QED BY <1>0, <2>2, <2>3, <3>1, <3>2, <4>1 DEF StartsInv
    <3>3. ASSUME f \notin excused
          PROVE  /\ Starting(f)' = {}
                 /\ \A q \in JobsOf(f)' : req'[q].at # "queued" => q = r
      <4>1. r \in Starting(f)
        BY <2>0, <2>1 DEF Starting
      <4>2. Starting(f) = {r} /\ mark[f] = None
        BY <1>0, <2>1, <3>3, <4>1 DEF StartsInv
      <4>3. \A q \in JobsOf(f) : q # r => req'[q].at = req[q].at /\ q # None
        BY <2>2, <2>3
      <4>4. \A q \in JobsOf(f) : req[q].at # "queued" => mark[f] = q
        BY <1>0, <2>1, <3>3 DEF StartsInv
      <4> QED BY <2>3, <4>2, <4>3, <4>4
    <3> SUFFICES ASSUME NEW d \in Drafts \ excused
                 PROVE  /\ \A q, t \in Starting(d)' : q = t
                        /\ \A q \in Starting(d)' : mark'[d] = None
                        /\ \A q \in JobsOf(d)' : req'[q].at # "queued" => mark'[d] = q
      BY <2>4 DEF StartsInv
    <3>4. CASE d = f
      BY <3>1, <3>3, <3>4
    <3> QED BY <3>2, <3>4
  <2>5. CASE excused' = excused \cup {f} /\ UNCHANGED mark
    BY <1>0, <2>0, <2>1, <2>2, <2>5, StartsKept
  <2> QED BY <1>9, <2>0, <2>4, <2>5 DEF MarkDraft
<1> QED
  BY <1>1, <1>2, <1>3, <1>4, <1>5, <1>6, <1>7, <1>8, <1>9 DEF Next, Route

LEMMA NextFiles == TypeOK /\ IInv /\ [Next]_vars => FilesInv'
<1> SUFFICES ASSUME TypeOK, IInv, [Next]_vars PROVE FilesInv'
  OBVIOUS
<1> USE ImportDraftsAssumption DEF stores, wizard, view, ghosts
<1>0. ReqInv /\ FilesInv
  BY DEF IInv
<1>1. CASE UNCHANGED vars \/ (\E r \in Requests : Queue(r)) \/ (\E s \in Screens : JobView(s))
           \/ \E w \in Wizards : Wizard(w) /\ UNCHANGED req
  <2>1. UNCHANGED <<req, unknown>> /\ objects \subseteq objects'
        /\ \A q \in Requests : row'[q] # None => row[q] # None
    BY <1>1 DEF vars, Queue, Claim, Finish, LoseWorker, Cancel, Moves, Waiting, JobView, Poll, TakePoll, PollFails,
                Wizard, PutFile, CreateDraft, Preview, UploadFails, GoTo, ClickStart, Send, TypeOK
  <2> QED BY <1>0, <2>1 DEF FilesInv
<1>2. ASSUME NEW r \in Requests,
             PostImport(r) \/ (\E v \in Views : CreateExport(v, r)) \/ \E w \in Wizards : ClickStart(w, r)
      PROVE  FilesInv'
  <2>1. UNCHANGED <<stores, ghosts>> /\ req[r] = Idle /\ req'[r].at = "sent"
        /\ \A q \in Requests \ {r} : req'[q] = req[q]
    BY <1>2 DEF PostImport, CreateExport, ClickStart, Send, TypeOK
  <2>2. row[r] = None
    BY <1>0, <2>1 DEF ReqInv, Idle
  <2> QED BY <1>0, <2>1, <2>2 DEF FilesInv
<1>3. ASSUME NEW r \in Requests, Route(r) PROVE FilesInv'
  <2>1. PICK at \in {"loaded", "refused", "discarding", "queued", "accepted", "answered"} : Goes(r, at)
    BY <1>3 DEF Route, LoadDraft, StoreUpload, Reject, BodyMalformed, Enqueue, EnqueueFails, Discard, MarkDraft,
                Dies, AnswerTaken, AnswerLost, AfterError
  <2>2. \A q \in Requests : /\ req'[q].op = req[q].op
                            /\ req'[q].at = IF q = r THEN at ELSE req[q].at
    BY <2>1, GoesTo
  <2>3. /\ \A q \in Requests \ {r} : row'[q] = row[q] /\ (q \in objects => q \in objects')
        /\ unknown \subseteq unknown'
    BY <1>0, <1>3 DEF Route, LoadDraft, StoreUpload, Reject, BodyMalformed, Enqueue, EnqueueFails, Discard, MarkDraft,
          Dies, AnswerTaken, AnswerLost, TypeOK, At, ReqInv
  <2>4. ASSUME req[r].op = "public"
        PROVE  /\ at \in {"loaded", "accepted"} => r \in objects'
               /\ row'[r] # None /\ r \notin unknown' => at = "accepted"
    <3>1. CASE StoreUpload(r)
      <4>1. r \in objects' /\ row'[r] = None
        BY <1>0, <3>1 DEF StoreUpload, At, ReqInv
      <4> QED BY <2>1, <3>1, <4>1, GoesOnce
    <3>2. CASE Enqueue(r)
      <4>1. Goes(r, "accepted") /\ objects' = objects /\ req[r].at = "loaded"
        BY <2>4, <3>2 DEF Enqueue, Ready, At
      <4> QED BY <1>0, <2>1, <2>4, <4>1, GoesOnce DEF FilesInv
    <3>3. CASE Reject(r) \/ EnqueueFails(r)
      <4>1. Goes(r, "discarding") /\ req[r].at = "loaded"
        BY <2>4, <3>3 DEF Reject, EnqueueFails, AfterError, Ready, At
      <4>2. row[r] = None
        BY <1>0, <4>1 DEF ReqInv
      <4>3. row' = row \/ r \in unknown'
        BY <3>3 DEF Reject, EnqueueFails
      <4> QED BY <2>1, <4>1, <4>2, <4>3, GoesOnce
    <3>4. CASE BodyMalformed(r) \/ Discard(r) \/ Dies(r)
      <4>1. Goes(r, "refused") /\ row' = row /\ unknown' = unknown /\ req[r].at # "accepted"
        BY <3>4 DEF BodyMalformed, Discard, Dies, At
      <4> QED BY <1>0, <2>1, <2>4, <4>1, GoesOnce DEF FilesInv
    <3>5. ~LoadDraft(r) /\ ~MarkDraft(r) /\ ~AnswerTaken(r) /\ ~AnswerLost(r)
      BY <1>0, <2>4 DEF LoadDraft, MarkDraft, AnswerTaken, AnswerLost, At, ReqInv
    <3> QED BY <1>3, <3>1, <3>2, <3>3, <3>4, <3>5 DEF Route
  <2> QED BY <1>0, <2>2, <2>3, <2>4 DEF FilesInv
<1> QED
  BY <1>1, <1>2, <1>3 DEF Next, Wizard, PutFile, CreateDraft, Preview, UploadFails, GoTo

LEMMA NextView == TypeOK /\ IInv /\ [Next]_vars => ViewInv'
<1> SUFFICES ASSUME TypeOK, IInv, [Next]_vars PROVE ViewInv'
  OBVIOUS
<1> USE ImportDraftsAssumption DEF stores, wizard, view, ghosts
<1>0. ReqInv /\ ViewInv
  BY DEF IInv
<1>1. ASSUME UNCHANGED view, \A q \in Requests : row[q] \in Ended => row'[q] = row[q] PROVE ViewInv'
  <2>1. \A id : Found(id) \in Ended => Found(id)' = Found(id)
    BY <1>1 DEF Found, Ended
  <2> QED BY <1>0, <1>1, <2>1 DEF ViewInv, StoppedShowsTheEnd
<1>2. CASE UNCHANGED vars \/ \E w \in Wizards : Wizard(w)
  <2>1. UNCHANGED <<row, view>>
    BY <1>2 DEF vars, Wizard, PutFile, CreateDraft, Preview, UploadFails, GoTo, ClickStart, Send
  <2> QED BY <1>1, <2>1
<1>3. ASSUME NEW r \in Requests, PostImport(r) \/ \E v \in Views : CreateExport(v, r) PROVE ViewInv'
  BY <1>1, <1>3 DEF PostImport, CreateExport, Send
<1>4. ASSUME NEW r \in Requests, Queue(r) PROVE ViewInv'
  BY <1>1, <1>4 DEF Queue, Claim, Finish, LoseWorker, Cancel, Moves, Waiting, Ended, TypeOK
<1>5. ASSUME NEW r \in Requests,
             \/ LoadDraft(r) \/ StoreUpload(r) \/ Reject(r) \/ BodyMalformed(r) \/ Enqueue(r)
             \/ EnqueueFails(r) \/ Discard(r) \/ MarkDraft(r) \/ Dies(r) \/ AnswerLost(r)
      PROVE  ViewInv'
  <2>1. UNCHANGED view /\ \A q \in Requests \ {r} : row'[q] = row[q]
    BY <1>5 DEF LoadDraft, StoreUpload, Reject, BodyMalformed, Enqueue, EnqueueFails, Discard, MarkDraft,
                Dies, AnswerLost, TypeOK
  <2>2. row'[r] = row[r] \/ (row[r] = None /\ None \notin Ended)
    BY <1>0, <1>5 DEF LoadDraft, StoreUpload, Reject, BodyMalformed, Enqueue, EnqueueFails, Discard, MarkDraft,
                      Dies, AnswerLost, Ready, At, ReqInv
  <2> QED BY <1>1, <2>1, <2>2
<1>6. ASSUME NEW s \in Screens, NEW id \in Drafts \cup Requests \cup {None}, Watch(s, id), row' = row PROVE ViewInv'
  <2>1. /\ answers' = answers /\ shown' = shown /\ \A i : Found(i)' = Found(i)
        /\ \A z \in Screens \ {s} : watched'[z] = watched[z] /\ polling'[z] = polling[z]
        /\ watched'[s] = id /\ (~polling'[s] => ~polling[s] /\ watched[s] = id)
    BY <1>6 DEF Watch, TypeOK, Found
  <2> QED BY <1>0, <2>1 DEF ViewInv, StoppedShowsTheEnd
<1>7. ASSUME NEW r \in Requests, AnswerTaken(r) PROVE ViewInv'
  <2>1. req[r].from \in Screens /\ (req[r].op = "start" => req[r].from \in Wizards)
    BY <1>0, <1>7 DEF AnswerTaken, ReqInv, TypeOK
  <2>2. row' = row /\ \E id \in {r} \cup {importId[w] : w \in Wizards} : Watch(req[r].from, id)
    BY <1>7, <2>1 DEF AnswerTaken
  <2>3. {importId[w] : w \in Wizards} \subseteq Drafts \cup {None}
    BY DEF TypeOK
  <2> QED BY <1>6, <2>1, <2>2, <2>3
<1>8. ASSUME NEW s \in Screens, Poll(s) PROVE ViewInv'
  <2>1. /\ UNCHANGED <<row, watched, polling, shown>>
        /\ \A z \in Screens : answers'[z] \subseteq answers[z] \cup {[job |-> watched[s], status |-> Found(watched[s])]}
    BY <1>8 DEF Poll, TypeOK
  <2>2. Found(watched[s]) \in Waiting \cup Ended \cup {None}
    BY DEF Found, TypeOK
  <2>3. \A id : Found(id)' = Found(id)
    BY <2>1 DEF Found
  <2> QED BY <1>0, <2>1, <2>2, <2>3 DEF ViewInv, StoppedShowsTheEnd
<1>9. ASSUME NEW s \in Screens, NEW a \in answers[s], PollFails(s, a) PROVE ViewInv'
  <2>1. /\ UNCHANGED <<row, watched, polling, shown>> /\ \A z \in Screens : answers'[z] \subseteq answers[z]
    BY <1>9 DEF PollFails, TypeOK
  <2> QED BY <1>0, <2>1 DEF ViewInv, StoppedShowsTheEnd, Found
<1>10. ASSUME NEW s \in Screens, NEW a \in answers[s], TakePoll(s, a) PROVE ViewInv'
  <2>1. /\ UNCHANGED <<row, watched>> /\ \A z \in Screens : answers'[z] \subseteq answers[z]
        /\ \A z \in Screens \ {s} : polling'[z] = polling[z] /\ shown'[z] = shown[z]
    BY <1>10 DEF TakePoll, TypeOK
  <2>2. watched[s] # None /\ ~polling'[s] =>
            /\ shown'[s] = [job |-> watched[s], status |-> Found(watched[s])] /\ Found(watched[s]) \in Ended
    <3>1. CASE a.job = watched[s] /\ a.status # None
      <4>1. shown'[s] = a /\ polling'[s] = (a.status \in Waiting)
        BY <1>10, <3>1 DEF TakePoll, Current, TypeOK
      <4>2. a.status \in Ended \/ a.status \in Waiting
        BY <1>0, <3>1 DEF ViewInv
      <4> QED BY <1>0, <3>1, <4>1, <4>2 DEF ViewInv
    <3>2. CASE ~(a.job = watched[s] /\ a.status # None)
      <4>1. shown' = shown /\ polling' = polling
        BY <1>10, <3>2 DEF TakePoll, Current
      <4> QED BY <1>0, <4>1 DEF ViewInv, StoppedShowsTheEnd
    <3> QED BY <3>1, <3>2
  <2>3. \A id : Found(id)' = Found(id)
    BY <2>1 DEF Found
  <2> QED BY <1>0, <2>1, <2>2, <2>3 DEF ViewInv, StoppedShowsTheEnd
<1> QED
  BY <1>2, <1>3, <1>4, <1>5, <1>7, <1>8, <1>9, <1>10 DEF Next, Route, JobView

LEMMA NextInv == TypeOK /\ IInv /\ [Next]_vars => IInv'
BY NextReq, NextDrafts, NextStarts, NextFiles, NextView DEF IInv

\* The type invariant of the import routes and of the screens that follow a job.
THEOREM TypeCorrect == Spec => []TypeOK
<1> QED BY InitInv, NextType, NextInv, PTL DEF Spec

\* A draft has a second job only when two starts read it at once or the first could not
\* mark it (routes.go:282 and 297).
THEOREM SecondStartExplained == Spec => []SecondStartIsExplained
<1>1. IInv => SecondStartIsExplained
  <2> SUFFICES ASSUME IInv, NEW d \in Drafts \ excused PROVE Cardinality(JobsOf(d)) <= 1
    BY DEF SecondStartIsExplained
  <2>1. ASSUME NEW r \in JobsOf(d), NEW q \in JobsOf(d) PROVE r = q
    <3>1. \A x \in JobsOf(d) : req[x].at = "queued" => x \in Starting(d)
      BY DEF JobsOf, Starting
    <3>2. \A x \in JobsOf(d) : x # None
      BY ImportDraftsAssumption DEF JobsOf
    <3> QED BY <3>1, <3>2 DEF IInv, StartsInv
  <2>2. CASE JobsOf(d) = {}
    BY <2>2, FS_EmptySet
  <2>3. ASSUME NEW r \in JobsOf(d) PROVE Cardinality(JobsOf(d)) <= 1
    <3>1. JobsOf(d) = {r}
      BY <2>1
    <3> QED BY <3>1, FS_Singleton
  <2> QED BY <2>2, <2>3
<1> QED BY <1>1, InitInv, NextType, NextInv, PTL DEF Spec

\* What is queued has its upload, unless the importer could not know that it was queued
\* (routes.go:397).
THEOREM FileKept == Spec => []QueuedHasItsFile
<1>1. TypeOK /\ IInv => QueuedHasItsFile
  <2> SUFFICES ASSUME TypeOK, IInv, NEW r \in Requests \ unknown, row[r] \in Waiting, req[r].op # "export"
               PROVE  req[r].file \in objects
    BY DEF QueuedHasItsFile
  <2>1. row[r] # None
    BY ImportDraftsAssumption
  <2>2. req[r].op \in {"start", "public"}
    BY <2>1 DEF TypeOK, IInv, ReqInv
  <2>3. CASE req[r].op = "start"
    BY <2>3 DEF IInv, ReqInv, DraftsInv
  <2>4. CASE req[r].op = "public"
    BY <2>1, <2>4 DEF IInv, ReqInv, FilesInv
  <2> QED BY <2>2, <2>3, <2>4
<1> QED BY <1>1, InitInv, NextType, NextInv, PTL DEF Spec

\* A view that stopped asking shows how the job it follows ended (job-view.tsx:24).
THEOREM EndIsShown == Spec => []StoppedShowsTheEnd
<1>1. IInv => StoppedShowsTheEnd
  BY DEF IInv, ViewInv
<1> QED BY <1>1, InitInv, NextType, NextInv, PTL DEF Spec

-----------------------------------------------------------------------------
(* Imports *)

\* Finite batches and groups of senders, for the counts of TypeOK.
RunTypes == R!TypeOK /\ IsFiniteSet(senders)

Counted(l) == ok[l] + failed[l]

\* A row that was read is in one place at most: in the batch, with one sender, or counted
\* once; a row that was not read is nowhere.
PlacesInv ==
    /\ batch \subseteq 1..pos /\ \A s \in senders : s.rows \subseteq 1..pos
    /\ \A s \in senders : s.rows \cap batch = {}
    /\ \A s, t \in senders : s # t => s.rows \cap t.rows = {}
    /\ \A l \in R!Lines : Counted(l) > 0 => /\ Counted(l) = 1 /\ l <= pos
                                            /\ l \notin batch /\ \A s \in senders : l \notin s.rows

\* A row that was read is in one place at least, until a sender fails or the cancellation
\* is noticed.
KeptInv ==
    failure \/ cancelled \/
        \A l \in 1..pos : l \in batch \/ (\E s \in senders : l \in s.rows) \/ Counted(l) = 1

\* The report has the rows that failed.
ReportInv == report = {l \in R!Lines : failed[l] > 0}

\* Where the handler is tells what is left: nothing to read when it waits for its senders,
\* nobody to wait for when it closes the report, and nothing at all after a success.
EndInv ==
    /\ phase # "returned" => outcome = "none"
    /\ phase = "draining" => failure \/ cancelled \/ shutdown \/ (pos = Rows /\ batch = {})
    /\ phase = "closing" \/ (outcome = "succeeded" /\ ~cancelled) =>
           ~failure /\ ~cancelled /\ pos = Rows /\ batch = {} /\ senders = {}
    /\ outcome = "succeeded" /\ ~cancelled => errorFile = IF report = {} THEN "removed" ELSE "stored"

RunInv == PlacesInv /\ KeptInv /\ ReportInv /\ EndInv

\* The two names of one operator.
LEMMA SameCardinality == \A S : R!Cardinality(S) = Cardinality(S)
BY DEF R!Cardinality, Cardinality

LEMMA LinesFinite == ASSUME R!ImportRunAssumption PROVE IsFiniteSet(R!Lines)
BY FS_Interval DEF R!ImportRunAssumption, R!Lines

\* A sender takes its slot, or tries again, with its rows.
LEMMA SenderSteps ==
    ASSUME R!ImportRunAssumption, NEW s \in R!Sender
    PROVE  /\ [s EXCEPT !.at = "posting"] \in R!Sender
           /\ [s EXCEPT !.at = "posting"].rows = s.rows
           /\ s.tries < Retries => [s EXCEPT !.tries = @ + 1] \in R!Sender
           /\ [s EXCEPT !.tries = @ + 1].rows = s.rows
           /\ s.rows \subseteq R!Lines
<1>1. /\ s = [rows |-> s.rows, at |-> s.at, tries |-> s.tries]
      /\ s.rows \subseteq R!Lines /\ s.at \in {"waiting", "posting"}
      /\ s.tries \in 0..Retries
    BY DEF R!Sender
<1>2. Retries \in Nat BY DEF R!ImportRunAssumption
<1>3. /\ [s EXCEPT !.at = "posting"] = [rows |-> s.rows, at |-> "posting", tries |-> s.tries]
      /\ [s EXCEPT !.tries = @ + 1] = [rows |-> s.rows, at |-> s.at, tries |-> s.tries + 1]
    BY <1>1
<1>4. s.tries < Retries => s.tries + 1 \in 0..Retries BY <1>1, <1>2
<1> QED BY <1>1, <1>3, <1>4 DEF R!Sender

\* A sender replaced by another, or removed, leaves a group that is no larger.
LEMMA GroupSteps ==
    ASSUME R!ImportRunAssumption, RunTypes, NEW s \in senders, NEW t
    PROVE  /\ IsFiniteSet(senders \ {s}) /\ Cardinality(senders \ {s}) <= Concurrency
           /\ IsFiniteSet((senders \ {s}) \cup {t})
           /\ Cardinality((senders \ {s}) \cup {t}) <= Concurrency
<1>1. IsFiniteSet(senders) BY DEF RunTypes
<1>2. /\ IsFiniteSet(senders \ {s})
      /\ Cardinality(senders \ {s}) = Cardinality(senders) - 1
    BY <1>1, FS_RemoveElement
<1>3. /\ Cardinality(senders) \in Nat /\ Cardinality(senders \ {s}) \in Nat
    BY <1>1, <1>2, FS_CardinalityType
<1>4. /\ IsFiniteSet((senders \ {s}) \cup {t})
      /\ \/ Cardinality((senders \ {s}) \cup {t}) = Cardinality(senders \ {s})
         \/ Cardinality((senders \ {s}) \cup {t}) = Cardinality(senders \ {s}) + 1
    BY <1>2, FS_AddElement
<1>5. Cardinality(senders) <= Concurrency /\ Concurrency \in Nat
    BY SameCardinality DEF RunTypes, R!TypeOK, R!ImportRunAssumption
<1> QED BY <1>2, <1>3, <1>4, <1>5

\* What the counts of rows become.
LEMMA CountSteps ==
    ASSUME RunTypes, NEW rows
    PROVE  /\ R!CountFailed(rows) =>
                  /\ failed' \in [R!Lines -> Nat] /\ report' = report \cup rows
                  /\ \A l \in R!Lines : failed'[l] = failed[l] + (IF l \in rows THEN 1 ELSE 0)
           /\ R!CountOk(rows) =>
                  /\ ok' \in [R!Lines -> Nat]
                  /\ \A l \in R!Lines : ok'[l] = ok[l] + (IF l \in rows THEN 1 ELSE 0)
BY DEF RunTypes, R!TypeOK, R!CountFailed, R!CountOk

LEMMA InitRunTypes == ASSUME R!ImportRunAssumption PROVE R!Init => RunTypes
<1> SUFFICES ASSUME R!Init PROVE RunTypes OBVIOUS
<1>1. /\ IsFiniteSet({}) /\ Cardinality({}) = 0 BY FS_EmptySet
<1>2. /\ batch = {} /\ senders = {} /\ pos = 0 /\ others = 0 BY DEF R!Init
<1>3. /\ Cardinality(batch) <= BatchSize /\ Cardinality(senders) <= Concurrency /\ IsFiniteSet(senders)
    BY <1>1, <1>2 DEF R!ImportRunAssumption
<1>4. pos \in 0..Rows /\ others \in 0..OtherJobs BY <1>2 DEF R!ImportRunAssumption
<1>5. ok \in [R!Lines -> Nat] /\ failed \in [R!Lines -> Nat] BY DEF R!Init
<1>6. /\ phase = "reading" /\ jobRow = "running" /\ errorFile = "streaming" /\ outcome = "none"
      /\ failure = FALSE /\ shutdown = FALSE /\ cancelled = FALSE
      /\ report = {} /\ core = {}
    BY DEF R!Init
<1> QED BY <1>2, <1>3, <1>4, <1>5, <1>6, SameCardinality DEF RunTypes, R!TypeOK

LEMMA NextRunTypes ==
    ASSUME R!ImportRunAssumption, RunTypes, [R!Next]_R!vars
    PROVE  RunTypes'
<1> USE SameCardinality
<1>t. /\ RunTypes /\ R!TypeOK /\ senders \subseteq R!Sender /\ IsFiniteSet(senders)
      /\ Cardinality(senders) \in Nat /\ Cardinality(senders) <= Concurrency
      /\ Concurrency \in Nat /\ BatchSize \in Nat /\ Rows \in Nat
    BY FS_CardinalityType DEF RunTypes, R!TypeOK, R!ImportRunAssumption
<1>n. \A S : S = {} => Cardinality(S) = 0 /\ IsFiniteSet(S) BY FS_EmptySet
<1>1. ASSUME R!ReadRow PROVE RunTypes'
  <2>1. pos + 1 \in R!Lines /\ pos + 1 \in 0..Rows BY <1>1, <1>t DEF R!ReadRow, R!TypeOK, R!Lines
  <2>2. IsFiniteSet(batch) BY LinesFinite, FS_Subset, <1>t DEF R!TypeOK
  <2>3. /\ Cardinality(batch) \in Nat /\ Cardinality(batch) <= BatchSize /\ Cardinality(batch) # BatchSize
      BY <1>1, <1>t, <2>2, FS_CardinalityType DEF R!ReadRow, R!Full, R!TypeOK
  <2>4. Cardinality(batch \cup {pos + 1}) <= BatchSize
    <3>1. \/ Cardinality(batch \cup {pos + 1}) = Cardinality(batch)
          \/ Cardinality(batch \cup {pos + 1}) = Cardinality(batch) + 1
        BY <2>2, FS_AddElement
    <3> QED BY <3>1, <2>3, <1>t
  <2>5. CASE pos + 1 \in Malformed
    <3>1. R!CountFailed({pos + 1}) /\ UNCHANGED <<ok, batch>> BY <1>1, <2>5 DEF R!ReadRow
    <3>2. failed' \in [R!Lines -> Nat] /\ report' \subseteq R!Lines
        BY <3>1, <1>t, <2>1, CountSteps DEF R!TypeOK
    <3> QED BY <1>1, <3>1, <3>2, <2>1, <1>t DEF R!ReadRow, R!TypeOK, RunTypes
  <2>6. CASE pos + 1 \notin Malformed
    <3>1. batch' = batch \cup {pos + 1} /\ UNCHANGED R!countVars BY <1>1, <2>6 DEF R!ReadRow
    <3> QED BY <1>1, <3>1, <2>1, <2>4, <1>t DEF R!ReadRow, R!TypeOK, RunTypes, R!countVars
  <2> QED BY <2>5, <2>6
<1>2. ASSUME R!Flush PROVE RunTypes'
  <2> DEFINE t == [rows |-> batch, at |-> "waiting", tries |-> 0]
  <2>1. t \in R!Sender BY <1>t DEF R!Sender, R!TypeOK, R!ImportRunAssumption
  <2> HIDE DEF t
  <2>2. senders' = senders \cup {t} /\ batch' = {} /\ Cardinality(senders) < Concurrency
      BY <1>2 DEF R!Flush, t
  <2>3. IsFiniteSet(senders \cup {t}) /\ Cardinality(senders \cup {t}) <= Concurrency
      BY <2>2, <1>t, FS_AddElement
  <2>4. senders' \subseteq R!Sender /\ batch' \subseteq R!Lines /\ Cardinality(batch') <= BatchSize
      BY <2>1, <2>2, <1>t, <1>n DEF R!TypeOK
  <2> QED BY <1>2, <2>2, <2>3, <2>4, <1>t DEF R!Flush, R!TypeOK, RunTypes, R!countVars
<1>3. ASSUME R!FlushCancelled PROVE RunTypes'
    BY <1>3, <1>t, <1>n DEF R!FlushCancelled, R!TypeOK, RunTypes, R!countVars
<1>4. ASSUME R!ReadFails \/ R!StopReading PROVE RunTypes'
    BY <1>4, <1>t DEF R!ReadFails, R!StopReading, R!AbortReport, R!TypeOK, RunTypes, R!countVars
<1>5. ASSUME R!Drained \/ R!CloseReport PROVE RunTypes'
    BY <1>5, <1>t DEF R!Drained, R!CloseReport, R!Return, R!AbortReport, R!TypeOK, RunTypes, R!countVars
<1>6. ASSUME NEW s \in senders, R!Send(s) PROVE RunTypes'
  <2>s. s \in R!Sender /\ s.rows \subseteq R!Lines BY <1>t, SenderSteps
  <2>g. IsFiniteSet(senders \ {s}) /\ Cardinality(senders \ {s}) <= Concurrency
      BY GroupSteps
  <2>r. \A t : IsFiniteSet((senders \ {s}) \cup {t}) /\ Cardinality((senders \ {s}) \cup {t}) <= Concurrency
      BY GroupSteps
  <2>c. R!CoreApplies(s.rows) \/ UNCHANGED core => core' \subseteq R!Lines
      BY <1>t, <2>s DEF R!CoreApplies, R!TypeOK
  <2>1. CASE R!Acquire(s)
    <3> DEFINE t == [s EXCEPT !.at = "posting"]
    <3>1. t \in R!Sender BY <2>s, SenderSteps
    <3> HIDE DEF t
    <3>2. senders' = (senders \ {s}) \cup {t} BY <2>1 DEF R!Acquire, t
    <3> QED BY <2>1, <3>1, <3>2, <2>r, <1>t DEF R!Acquire, R!TypeOK, RunTypes, R!countVars
  <2>2. CASE R!SendAborted(s)
      BY <2>2, <2>g, <2>c, <1>t DEF R!SendAborted, R!TypeOK, RunTypes, R!countVars
  <2>3. CASE R!Answered(s)
    <3>1. R!CoreErrors(s.rows) \subseteq R!Lines BY <2>s DEF R!CoreErrors
    <3>2. failed' \in [R!Lines -> Nat] /\ report' \subseteq R!Lines /\ ok' \in [R!Lines -> Nat]
        BY <2>3, <3>1, <1>t, CountSteps DEF R!Answered, R!TypeOK
    <3> QED BY <2>3, <3>2, <2>g, <2>c, <1>t DEF R!Answered, R!TypeOK, RunTypes
  <2>4. CASE R!Refused(s)
    <3>1. failed' \in [R!Lines -> Nat] /\ report' \subseteq R!Lines
        BY <2>4, <2>s, <1>t, CountSteps DEF R!Refused, R!TypeOK
    <3> QED BY <2>4, <3>1, <2>g, <1>t DEF R!Refused, R!TypeOK, RunTypes
  <2>5. CASE R!Unanswered(s)
    <3> DEFINE t == [s EXCEPT !.tries = @ + 1]
    <3>1. s.tries < Retries => t \in R!Sender BY <2>s, SenderSteps
    <3> HIDE DEF t
    <3>2. \/ s.tries < Retries /\ senders' = (senders \ {s}) \cup {t} /\ UNCHANGED failure
          \/ senders' = senders \ {s} /\ failure' = TRUE
        BY <2>5 DEF R!Unanswered, t
    <3>3. senders' \subseteq R!Sender /\ IsFiniteSet(senders') /\ Cardinality(senders') <= Concurrency
          /\ failure' \in BOOLEAN
        BY <3>1, <3>2, <2>g, <2>r, <1>t DEF R!TypeOK
    <3>4. core' \subseteq R!Lines BY <2>5, <2>c DEF R!Unanswered
    <3> QED BY <2>5, <3>3, <3>4, <1>t DEF R!Unanswered, R!TypeOK, RunTypes, R!countVars
  <2> QED BY <1>6, <2>1, <2>2, <2>3, <2>4, <2>5 DEF R!Send
<1>7. ASSUME R!Cancel \/ R!Shutdown \/ R!UploadDies PROVE RunTypes'
    BY <1>7, <1>t DEF R!Cancel, R!Shutdown, R!UploadDies, R!TypeOK, RunTypes, R!countVars
<1>8. ASSUME R!OtherAcquires \/ R!OtherReleases PROVE RunTypes'
  <2>1. others' \in 0..OtherJobs
      BY <1>8, <1>t DEF R!OtherAcquires, R!OtherReleases, R!TypeOK, R!ImportRunAssumption
  <2> QED BY <1>8, <2>1, <1>t DEF R!OtherAcquires, R!OtherReleases, R!TypeOK, RunTypes, R!countVars
<1>9. ASSUME UNCHANGED R!vars PROVE RunTypes'
    BY <1>9, <1>t DEF R!vars, R!countVars, R!TypeOK, RunTypes
<1> QED BY <1>1, <1>2, <1>3, <1>4, <1>5, <1>6, <1>7, <1>8, <1>9 DEF R!Next, R!Handler

\* A sender that moves on keeps its rows.
LEMMA MovedSender ==
    ASSUME PlacesInv, KeptInv, NEW s \in senders, NEW t, t.rows = s.rows,
           senders' = (senders \ {s}) \cup {t}, UNCHANGED <<pos, batch, failure, cancelled, ok, failed>>
    PROVE  PlacesInv' /\ KeptInv'
<1>1. \A l : Counted(l)' = Counted(l) BY DEF Counted
<1>2. /\ t \in senders' /\ \A u \in senders' : u = t \/ u \in senders \ {s}
      /\ \A u \in senders : u = s \/ u \in senders'
    OBVIOUS
<1>3. PlacesInv' BY <1>1, <1>2 DEF PlacesInv
<1>4. KeptInv' BY <1>1, <1>2 DEF KeptInv
<1> QED BY <1>3, <1>4

\* A sender that gives up leaves its rows uncounted, and fails the group.
LEMMA FailedSender ==
    ASSUME PlacesInv, NEW s \in senders, senders' = senders \ {s}, failure' = TRUE,
           UNCHANGED <<pos, batch, ok, failed>>
    PROVE  PlacesInv' /\ KeptInv'
<1>1. \A l : Counted(l)' = Counted(l) BY DEF Counted
<1>2. PlacesInv' BY <1>1 DEF PlacesInv
<1> QED BY <1>2 DEF KeptInv

\* A sender that was answered has its rows counted, once.
LEMMA AnsweredSender ==
    ASSUME R!ImportRunAssumption, RunTypes, PlacesInv, KeptInv, NEW s \in senders,
           senders' = senders \ {s}, UNCHANGED <<pos, batch, failure, cancelled>>,
           \A l \in R!Lines : Counted(l)' = Counted(l) + (IF l \in s.rows THEN 1 ELSE 0)
    PROVE  PlacesInv' /\ KeptInv'
<1>1. /\ \A l \in R!Lines : Counted(l) \in Nat
      /\ pos \in Nat /\ 1..pos \subseteq R!Lines
    BY DEF RunTypes, R!TypeOK, Counted, R!Lines, R!ImportRunAssumption
<1>2. \A l \in R!Lines : l \in s.rows => Counted(l) = 0
    BY <1>1 DEF PlacesInv
<1>3. \A l \in R!Lines : \/ l \in s.rows /\ Counted(l)' = 1
                         \/ l \notin s.rows /\ Counted(l)' = Counted(l)
    BY <1>1, <1>2
<1>4. PlacesInv'
  <2>1. batch' \subseteq 1..pos' /\ \A u \in senders' : u.rows \subseteq 1..pos' BY DEF PlacesInv
  <2>2. \A u \in senders' : u.rows \cap batch' = {} BY DEF PlacesInv
  <2>3. \A u, v \in senders' : u # v => u.rows \cap v.rows = {} BY DEF PlacesInv
  <2>4. ASSUME NEW l \in R!Lines, Counted(l)' > 0
        PROVE  Counted(l)' = 1 /\ l <= pos' /\ l \notin batch' /\ \A u \in senders' : l \notin u.rows
    <3>1. CASE l \in s.rows BY <3>1, <1>3, <1>1 DEF PlacesInv
    <3>2. CASE l \notin s.rows
      <4>1. Counted(l) > 0 BY <3>2, <1>3, <2>4
      <4> QED BY <4>1, <3>2, <1>3 DEF PlacesInv
    <3> QED BY <3>1, <3>2
  <2> QED BY <2>1, <2>2, <2>3, <2>4 DEF PlacesInv
<1>5. KeptInv'
  <2> SUFFICES ASSUME ~failure, ~cancelled, NEW l \in 1..pos
               PROVE  l \in batch' \/ (\E u \in senders' : l \in u.rows) \/ Counted(l)' = 1
      BY DEF KeptInv
  <2>1. l \in batch \/ (\E u \in senders : l \in u.rows) \/ Counted(l) = 1 BY DEF KeptInv
  <2>2. l \in R!Lines BY <1>1
  <2> QED BY <2>1, <2>2, <1>3
<1> QED BY <1>4, <1>5

LEMMA NextPlaces ==
    ASSUME R!ImportRunAssumption, RunTypes, RunTypes', PlacesInv, KeptInv, [R!Next]_R!vars
    PROVE  PlacesInv' /\ KeptInv'
<1>t. /\ senders \subseteq R!Sender /\ pos \in Nat /\ Rows \in Nat /\ pos <= Rows
      /\ ok \in [R!Lines -> Nat] /\ failed \in [R!Lines -> Nat]
      /\ \A l \in R!Lines : Counted(l) \in Nat
      /\ 1..pos \subseteq R!Lines
    BY DEF RunTypes, R!TypeOK, R!ImportRunAssumption, Counted, R!Lines
<1>1. ASSUME R!ReadRow PROVE PlacesInv' /\ KeptInv'
  <2> DEFINE n == pos + 1
  <2>r. pos < Rows /\ pos' = n /\ UNCHANGED <<senders, failure, cancelled>> BY <1>1 DEF R!ReadRow
  <2>1. /\ n \in R!Lines /\ pos' = n /\ n \notin 1..pos /\ 1..n = (1..pos) \cup {n}
        /\ UNCHANGED <<senders, failure, cancelled>>
      BY <2>r, <1>t DEF R!Lines
  <2> HIDE DEF n
  <2>2. n \notin batch /\ Counted(n) = 0 /\ \A s \in senders : n \notin s.rows
    <3>1. n \notin batch /\ \A s \in senders : n \notin s.rows BY <2>1 DEF PlacesInv
    <3>2. ~(n <= pos) BY <2>1, <1>t DEF R!Lines
    <3> QED BY <3>1, <3>2, <2>1, <1>t DEF PlacesInv
  <2>3. CASE n \in Malformed
    <3>1. R!CountFailed({n}) /\ UNCHANGED <<ok, batch>> BY <1>1, <2>3 DEF R!ReadRow, n
    <3>2. \A l \in R!Lines : failed'[l] = failed[l] + (IF l = n THEN 1 ELSE 0)
        BY <3>1, CountSteps
    <3>3. \A l \in R!Lines : Counted(l)' = IF l = n THEN 1 ELSE Counted(l)
        BY <3>1, <3>2, <2>1, <2>2, <1>t DEF Counted
    <3>4. PlacesInv'
      <4>1. /\ batch' \subseteq 1..pos' /\ \A s \in senders' : s.rows \subseteq 1..pos'
            /\ \A s \in senders' : s.rows \cap batch' = {}
            /\ \A s, t \in senders' : s # t => s.rows \cap t.rows = {}
          BY <2>1, <3>1 DEF PlacesInv
      <4>2. ASSUME NEW l \in R!Lines, Counted(l)' > 0
            PROVE  Counted(l)' = 1 /\ l <= pos' /\ l \notin batch' /\ \A s \in senders' : l \notin s.rows
        <5>1. CASE l = n BY <5>1, <3>1, <3>3, <2>1, <2>2, <1>t
        <5>2. CASE l # n
          <6>1. Counted(l)' = Counted(l) BY <5>2, <3>3
          <6>2. Counted(l) > 0 BY <6>1, <4>2
          <6>3. pos <= pos' BY <2>1, <1>t DEF n
          <6>4. l \in Int BY DEF R!Lines
          <6> QED BY <6>1, <6>2, <6>3, <6>4, <3>1, <2>1, <1>t DEF PlacesInv
        <5> QED BY <5>1, <5>2
      <4> QED BY <4>1, <4>2 DEF PlacesInv
    <3>5. KeptInv' BY <3>1, <3>3, <2>1, <1>t DEF KeptInv
    <3> QED BY <3>4, <3>5
  <2>4. CASE n \notin Malformed
    <3>1. batch' = batch \cup {n} /\ UNCHANGED <<ok, failed>>
        BY <1>1, <2>4 DEF R!ReadRow, n, R!countVars
    <3>2. \A l : Counted(l)' = Counted(l) BY <3>1 DEF Counted
    <3>3. PlacesInv'
      <4>1. /\ batch' \subseteq 1..pos' /\ \A s \in senders' : s.rows \subseteq 1..pos'
            /\ \A s \in senders' : s.rows \cap batch' = {}
            /\ \A s, t \in senders' : s # t => s.rows \cap t.rows = {}
          BY <2>1, <2>2, <3>1 DEF PlacesInv
      <4>2. ASSUME NEW l \in R!Lines, Counted(l)' > 0
            PROVE  Counted(l)' = 1 /\ l <= pos' /\ l \notin batch' /\ \A s \in senders' : l \notin s.rows
        <5>1. Counted(l) > 0 /\ l # n BY <4>2, <3>2, <2>2
        <5>2. pos <= pos' /\ l \in Int BY <2>1, <1>t DEF n, R!Lines
        <5> QED BY <5>1, <5>2, <3>1, <3>2, <2>1, <1>t DEF PlacesInv
      <4> QED BY <4>1, <4>2 DEF PlacesInv
    <3>4. KeptInv' BY <3>1, <3>2, <2>1, <1>t DEF KeptInv
    <3> QED BY <3>3, <3>4
  <2> QED BY <2>3, <2>4
<1>2. ASSUME R!Flush PROVE PlacesInv' /\ KeptInv'
  <2> DEFINE t == [rows |-> batch, at |-> "waiting", tries |-> 0]
  <2>1. t.rows = batch OBVIOUS
  <2>2. senders' = senders \cup {t} /\ batch' = {} /\ UNCHANGED <<pos, failure, cancelled, ok, failed>>
      BY <1>2 DEF R!Flush, R!countVars
  <2> HIDE DEF t
  <2>3. \A l : Counted(l)' = Counted(l) BY <2>2 DEF Counted
  <2>4. PlacesInv' BY <2>1, <2>2, <2>3 DEF PlacesInv
  <2>5. KeptInv' BY <2>1, <2>2, <2>3 DEF KeptInv
  <2> QED BY <2>4, <2>5
<1>3. ASSUME R!FlushCancelled PROVE PlacesInv' /\ KeptInv'
  <2>1. batch' = {} /\ cancelled' /\ UNCHANGED <<pos, senders, ok, failed>>
      BY <1>3 DEF R!FlushCancelled, R!countVars
  <2>2. \A l : Counted(l)' = Counted(l) BY <2>1 DEF Counted
  <2> QED BY <2>1, <2>2 DEF PlacesInv, KeptInv
<1>4. ASSUME NEW s \in senders, R!Send(s) PROVE PlacesInv' /\ KeptInv'
  <2>s. s \in R!Sender /\ s.rows \subseteq R!Lines BY <1>t, SenderSteps
  <2>1. CASE R!Acquire(s)
    <3> DEFINE t == [s EXCEPT !.at = "posting"]
    <3>1. t.rows = s.rows BY <2>s, SenderSteps
    <3>2. senders' = (senders \ {s}) \cup {t} /\ UNCHANGED <<pos, batch, failure, cancelled, ok, failed>>
        BY <2>1 DEF R!Acquire, R!countVars
    <3> QED BY <3>1, <3>2, MovedSender
  <2>2. CASE R!SendAborted(s)
      BY <2>2, FailedSender DEF R!SendAborted, R!countVars
  <2>3. CASE R!Answered(s)
    <3>1. R!CoreErrors(s.rows) \subseteq s.rows BY DEF R!CoreErrors
    <3>2. \A l \in R!Lines : /\ failed'[l] = failed[l] + (IF l \in R!CoreErrors(s.rows) THEN 1 ELSE 0)
                             /\ ok'[l] = ok[l] + (IF l \in s.rows \ R!CoreErrors(s.rows) THEN 1 ELSE 0)
        BY <2>3, CountSteps DEF R!Answered
    <3>3. \A l \in R!Lines : Counted(l)' = Counted(l) + (IF l \in s.rows THEN 1 ELSE 0)
        BY <3>1, <3>2, <1>t DEF Counted
    <3>4. senders' = senders \ {s} /\ UNCHANGED <<pos, batch, failure, cancelled>>
        BY <2>3 DEF R!Answered
    <3> QED BY <3>3, <3>4, AnsweredSender
  <2>4. CASE R!Refused(s)
    <3>1. \A l \in R!Lines : failed'[l] = failed[l] + (IF l \in s.rows THEN 1 ELSE 0)
        BY <2>4, CountSteps DEF R!Refused
    <3>2. senders' = senders \ {s} /\ UNCHANGED <<pos, batch, failure, cancelled, ok>>
        BY <2>4 DEF R!Refused
    <3>3. \A l \in R!Lines : Counted(l)' = Counted(l) + (IF l \in s.rows THEN 1 ELSE 0)
        BY <3>1, <3>2, <1>t DEF Counted
    <3> QED BY <3>2, <3>3, AnsweredSender
  <2>5. CASE R!Unanswered(s)
    <3> DEFINE t == [s EXCEPT !.tries = @ + 1]
    <3>1. t.rows = s.rows BY <2>s, SenderSteps
    <3>2. CASE s.tries < Retries
      <4>1. senders' = (senders \ {s}) \cup {t} /\ UNCHANGED <<pos, batch, failure, cancelled, ok, failed>>
          BY <2>5, <3>2 DEF R!Unanswered, R!countVars
      <4> QED BY <3>1, <4>1, MovedSender
    <3>3. CASE ~(s.tries < Retries)
      <4>1. senders' = senders \ {s} /\ failure' = TRUE /\ UNCHANGED <<pos, batch, ok, failed>>
          BY <2>5, <3>3 DEF R!Unanswered, R!countVars
      <4> QED BY <4>1, FailedSender
    <3> QED BY <3>2, <3>3
  <2> QED BY <1>4, <2>1, <2>2, <2>3, <2>4, <2>5 DEF R!Send
<1>5. ASSUME UNCHANGED <<pos, batch, senders, failure, cancelled, ok, failed>> PROVE PlacesInv' /\ KeptInv'
  <2>1. \A l : Counted(l)' = Counted(l) BY <1>5 DEF Counted
  <2> QED BY <2>1, <1>5 DEF PlacesInv, KeptInv
<1>6. ASSUME \/ R!ReadFails \/ R!StopReading \/ R!Drained \/ R!CloseReport \/ R!Cancel \/ R!Shutdown
             \/ R!UploadDies \/ R!OtherAcquires \/ R!OtherReleases \/ UNCHANGED R!vars
      PROVE  UNCHANGED <<pos, batch, senders, failure, cancelled, ok, failed>>
    BY <1>6 DEF R!ReadFails, R!StopReading, R!Drained, R!CloseReport, R!Cancel, R!Shutdown,
                R!UploadDies, R!OtherAcquires, R!OtherReleases, R!vars, R!countVars
<1> QED BY <1>1, <1>2, <1>3, <1>4, <1>5, <1>6 DEF R!Next, R!Handler

LEMMA NextReport ==
    ASSUME R!ImportRunAssumption, RunTypes, ReportInv, [R!Next]_R!vars
    PROVE  ReportInv'
<1>t. senders \subseteq R!Sender /\ failed \in [R!Lines -> Nat] /\ report \subseteq R!Lines
    BY DEF RunTypes, R!TypeOK
<1>1. ASSUME NEW rows, rows \subseteq R!Lines, R!CountFailed(rows) PROVE ReportInv'
  <2>1. /\ report' = report \cup rows
        /\ \A l \in R!Lines : failed'[l] = failed[l] + (IF l \in rows THEN 1 ELSE 0)
      BY <1>1, CountSteps
  <2>2. \A l \in R!Lines : failed[l] \in Nat BY <1>t
  <2>3. \A l \in R!Lines : failed'[l] > 0 <=> l \in rows \/ failed[l] > 0 BY <2>1, <2>2
  <2> QED BY <1>1, <2>1, <2>3, <1>t DEF ReportInv
<1>2. ASSUME UNCHANGED <<failed, report>> PROVE ReportInv' BY <1>2 DEF ReportInv
<1>3. ASSUME R!ReadRow PROVE ReportInv'
  <2>1. pos + 1 \in R!Lines BY <1>3 DEF R!ReadRow, RunTypes, R!TypeOK, R!Lines, R!ImportRunAssumption
  <2> QED BY <1>1, <1>2, <1>3, <2>1 DEF R!ReadRow, R!countVars
<1>4. ASSUME NEW s \in senders, R!Send(s) PROVE ReportInv'
  <2>1. s.rows \subseteq R!Lines BY <1>t, SenderSteps
  <2>2. R!CoreErrors(s.rows) \subseteq R!Lines BY <2>1 DEF R!CoreErrors
  <2>3. CASE R!Answered(s) BY <2>2, <2>3, <1>1 DEF R!Answered
  <2>4. CASE R!Refused(s) BY <2>1, <2>4, <1>1 DEF R!Refused
  <2>5. CASE R!Acquire(s) \/ R!SendAborted(s) \/ R!Unanswered(s)
      BY <2>5, <1>2 DEF R!Acquire, R!SendAborted, R!Unanswered, R!countVars
  <2> QED BY <1>4, <2>3, <2>4, <2>5 DEF R!Send
<1>5. ASSUME \/ R!Flush \/ R!FlushCancelled \/ R!ReadFails \/ R!StopReading \/ R!Drained \/ R!CloseReport
             \/ R!Cancel \/ R!Shutdown \/ R!UploadDies \/ R!OtherAcquires \/ R!OtherReleases \/ UNCHANGED R!vars
      PROVE  ReportInv'
    BY <1>2, <1>5 DEF R!Flush, R!FlushCancelled, R!ReadFails, R!StopReading, R!Drained, R!CloseReport,
        R!Cancel, R!Shutdown, R!UploadDies, R!OtherAcquires, R!OtherReleases, R!vars, R!countVars
<1> QED BY <1>3, <1>4, <1>5 DEF R!Next, R!Handler

LEMMA NextEnd ==
    ASSUME R!ImportRunAssumption, RunTypes, EndInv, [R!Next]_R!vars
    PROVE  EndInv'
<1>t. /\ failure \in BOOLEAN /\ shutdown \in BOOLEAN /\ cancelled \in BOOLEAN
      /\ phase \in {"reading", "draining", "closing", "returned"}
    BY DEF RunTypes, R!TypeOK
<1>1. ASSUME R!ReadRow \/ R!Flush \/ R!FlushCancelled \/ R!StopReading PROVE EndInv'
  <2>1. phase = "reading" /\ outcome = "none" /\ UNCHANGED outcome /\ phase' \in {"reading", "draining"}
      BY <1>1 DEF R!ReadRow, R!Reading, R!Flush, R!FlushCancelled, R!FlushDue, R!StopReading, EndInv
  <2>2. phase' = "draining" => R!StopReading
      BY <1>1, <2>1 DEF R!ReadRow, R!Flush, R!FlushCancelled
  <2>3. R!StopReading => failure' \/ cancelled' \/ shutdown' \/ (pos' = Rows /\ batch' = {})
      BY DEF R!StopReading, R!Aborted
  <2> QED BY <2>1, <2>2, <2>3 DEF EndInv
<1>2. ASSUME R!ReadFails PROVE EndInv' BY <1>2 DEF R!ReadFails, EndInv
<1>3. ASSUME R!Drained PROVE EndInv'
    BY <1>3, <1>t DEF R!Drained, R!Return, EndInv
<1>4. ASSUME R!CloseReport PROVE EndInv'
    BY <1>4, <1>t DEF R!CloseReport, R!Return, EndInv, R!countVars
<1>5. ASSUME NEW s \in senders, R!Send(s) PROVE EndInv'
  <2>1. /\ failure => failure'
        /\ UNCHANGED <<phase, outcome, cancelled, shutdown, pos, batch>>
      BY <1>5, <1>t DEF R!Send, R!Acquire, R!SendAborted, R!Answered, R!Refused, R!Unanswered, R!Aborted
  <2>2. phase # "closing" /\ ~(outcome = "succeeded" /\ ~cancelled) BY DEF EndInv
  <2> QED BY <2>1, <2>2 DEF EndInv
<1>6. ASSUME R!Cancel \/ R!Shutdown \/ R!UploadDies PROVE EndInv'
    BY <1>6 DEF R!Cancel, R!Shutdown, R!UploadDies, EndInv, R!countVars
<1>7. ASSUME R!OtherAcquires \/ R!OtherReleases \/ UNCHANGED R!vars PROVE EndInv'
    BY <1>7 DEF R!OtherAcquires, R!OtherReleases, R!vars, EndInv, R!countVars
<1> QED BY <1>1, <1>2, <1>3, <1>4, <1>5, <1>6, <1>7 DEF R!Next, R!Handler

-----------------------------------------------------------------------------

LEMMA InitRun == ASSUME R!ImportRunAssumption, R!Init PROVE RunInv
<1>1. \A l \in R!Lines : Counted(l) = 0 /\ failed[l] = 0 BY DEF R!Init, Counted
<1>2. 1..0 = {} OBVIOUS
<1>3. batch = {} /\ senders = {} /\ pos = 0 BY DEF R!Init
<1>4. PlacesInv BY <1>1, <1>3 DEF PlacesInv
<1>5. KeptInv BY <1>2, <1>3 DEF KeptInv
<1>6. ReportInv BY <1>1 DEF R!Init, ReportInv
<1>7. EndInv BY DEF R!Init, EndInv
<1> QED BY <1>4, <1>5, <1>6, <1>7 DEF RunInv

\* The types of ImportRun, with no more rows in a batch and no more senders than the
\* limits of process.go allow.
THEOREM RunTypeCorrect == ASSUME R!ImportRunAssumption PROVE R!Spec => []R!TypeOK
<1>1. R!Init => RunTypes BY InitRunTypes
<1>2. RunTypes /\ [R!Next]_R!vars => RunTypes' BY NextRunTypes
<1>3. RunTypes => R!TypeOK BY DEF RunTypes
<1> QED BY <1>1, <1>2, <1>3, PTL DEF R!Spec

LEMMA RunKept == ASSUME R!ImportRunAssumption PROVE R!Spec => [](RunTypes /\ RunInv)
<1>1. R!Init => RunTypes /\ RunInv BY InitRunTypes, InitRun
<1>2. RunTypes /\ RunInv /\ [R!Next]_R!vars => (RunTypes /\ RunInv)'
    BY NextRunTypes, NextPlaces, NextReport, NextEnd DEF RunInv
<1> QED BY <1>1, <1>2, PTL DEF R!Spec

\* A batch that is sent again, answered late or given up counts no row twice (the
\* counts of rep.Add and report.add).
THEOREM RowsOnce == ASSUME R!ImportRunAssumption PROVE R!Spec => []EachRowOnce
<1>1. ASSUME RunTypes, RunInv PROVE EachRowOnce
  <2>1. \A l \in R!Lines : Counted(l) \in Nat BY <1>1 DEF RunTypes, R!TypeOK, Counted
  <2> QED BY <1>1, <2>1 DEF RunInv, PlacesInv, EachRowOnce, R!EachRowOnce, Counted
<1> QED BY <1>1, RunKept, PTL

\* A run that answers success has counted every row of the file, and its errors.csv has the
\* rows that failed: nothing is left in a batch, with a sender or in the pipe (the end of run).
THEOREM SuccessAccounts == ASSUME R!ImportRunAssumption PROVE R!Spec => []SuccessAccountsForAll
<1>1. ASSUME RunTypes, RunInv PROVE SuccessAccountsForAll
  <2> SUFFICES ASSUME outcome = "succeeded", ~cancelled
               PROVE  /\ pos = Rows
                      /\ \A l \in R!Lines : Counted(l) = 1
                      /\ report = {l \in R!Lines : failed[l] = 1}
                      /\ errorFile = IF report = {} THEN "removed" ELSE "stored"
      BY DEF SuccessAccountsForAll, R!SuccessAccountsForAll, Counted
  <2>1. /\ ~failure /\ pos = Rows /\ batch = {} /\ senders = {}
        /\ errorFile = IF report = {} THEN "removed" ELSE "stored"
      BY <1>1 DEF RunInv, EndInv
  <2>2. \A l \in R!Lines : Counted(l) = 1 BY <1>1, <2>1 DEF RunInv, KeptInv, R!Lines
  <2>3. \A l \in R!Lines : ok[l] \in Nat /\ failed[l] \in Nat BY <1>1 DEF RunTypes, R!TypeOK
  <2>4. \A l \in R!Lines : failed[l] > 0 <=> failed[l] = 1 BY <2>2, <2>3 DEF Counted
  <2> QED BY <1>1, <2>1, <2>2, <2>4 DEF RunInv, ReportInv
<1> QED BY <1>1, RunKept, PTL
=============================================================================
