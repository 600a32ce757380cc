---------------------------- MODULE ImportDrafts ----------------------------
(***************************************************************************)
(* How jobs come about and are watched: the import routes of the importer  *)
(* (imports/routes.go) over two stores, uploads and drafts in the bucket   *)
(* and rows of importer.jobs; the wizard of the console that makes a draft *)
(* and starts it, the screen of exports, and the view both use to follow a *)
(* job (job-view.tsx).                                                     *)
(*                                                                         *)
(* A draft and its upload have one name, and so have a request and the job *)
(* it queues: both are UUIDs made for them.  What a job does is a change   *)
(* of its status, as JobLifecycle says; the bucket keeps what it is given. *)
(***************************************************************************)
EXTENDS Naturals, FiniteSets

CONSTANTS Drafts, Requests,
          Wizards,     \* tabs with the import wizard
          Views,       \* tabs with the screen of exports
          None,
          MaxFaults    \* bound: calls that fail and processes that die

Waiting == {"queued", "running"}
Ended == {"succeeded", "failed", "cancelled"}

ASSUME ImportDraftsAssumption ==
    /\ MaxFaults \in Nat
    /\ Drafts \cap Requests = {} /\ Wizards \cap Views = {}
    /\ None \notin Drafts \cup Requests \cup Wizards \cup Waiting \cup Ended \cup {"absent"}
    /\ "absent" \notin Requests

VARIABLES objects,   \* uploads in the bucket
          mark,      \* the job a draft was started as, "absent" before it is created
          row,       \* status of a job, None before it is queued
          req,       \* requests: what for, the upload it names, who waits, where it is
          step,      \* step of a wizard
          upload,    \* the draft its upload() is making
          importId,  \* the draft it starts
          watched,   \* the job a screen follows
          polling,   \* its timer is set or a poll is under way
          shown,     \* the last answer it took
          answers,   \* answers to polls that are not taken
          faults,
          excused,   \* ghost: drafts whose starts overlapped or whose mark failed
          unknown    \* ghost: jobs whose COMMIT was not answered

stores == <<objects, mark, row>>
wizard == <<step, upload, importId>>
view == <<watched, polling, shown, answers>>
ghosts == <<excused, unknown>>
vars == <<stores, req, wizard, view, faults, ghosts>>

Screens == Wizards \cup Views
Idle == [op |-> "none", file |-> None, from |-> None, at |-> "idle"]

TypeOK ==
    /\ objects \subseteq Drafts \cup Requests
    /\ mark \in [Drafts -> Requests \cup {None, "absent"}]
    /\ row \in [Requests -> Waiting \cup Ended \cup {None}]
    /\ req \in [Requests -> [op : {"none", "start", "public", "export"},
                             file : Drafts \cup Requests \cup {None}, from : Screens \cup {None},
                             at : {"idle", "sent", "loaded", "queued", "discarding",
                                   "accepted", "refused", "answered"}]]
    /\ step \in [Wizards -> {"upload", "settings", "mapping", "confirm", "job"}]
    /\ upload \in [Wizards -> Drafts \cup {None}]
    /\ importId \in [Wizards -> Drafts \cup {None}]
    /\ watched \in [Screens -> Drafts \cup Requests \cup {None}]
    /\ polling \in [Screens -> BOOLEAN]
    /\ DOMAIN shown = Screens /\ DOMAIN answers = Screens
    /\ faults \in 0..MaxFaults
    /\ excused \subseteq Drafts /\ unknown \subseteq Requests

Init ==
    /\ objects = {} /\ mark = [d \in Drafts |-> "absent"] /\ row = [r \in Requests |-> None]
    /\ req = [r \in Requests |-> Idle]
    /\ step = [w \in Wizards |-> "upload"]
    /\ upload = [w \in Wizards |-> None] /\ importId = [w \in Wizards |-> None]
    /\ watched = [s \in Screens |-> None] /\ polling = [s \in Screens |-> FALSE]
    /\ shown = [s \in Screens |-> None] /\ answers = [s \in Screens |-> {}]
    /\ faults = 0 /\ excused = {} /\ unknown = {}

Fault == faults < MaxFaults /\ faults' = faults + 1

-----------------------------------------------------------------------------
(* The wizard makes a draft *)

\* upload-url names a new object and the browser puts the file there.
PutFile(w, d) ==
    /\ step[w] = "upload" /\ upload[w] = None /\ d \notin objects
    /\ objects' = objects \cup {d} /\ upload' = [upload EXCEPT ![w] = d]
    /\ UNCHANGED <<mark, row, req, step, importId, view, faults, ghosts>>

CreateDraft(w) ==
    /\ upload[w] # None /\ upload[w] \in objects /\ mark[upload[w]] = "absent"
    /\ mark' = [mark EXCEPT ![upload[w]] = None]
    /\ UNCHANGED <<objects, row, req, wizard, view, faults, ghosts>>

Preview(w) ==
    /\ upload[w] # None /\ mark[upload[w]] = None
    /\ importId' = [importId EXCEPT ![w] = upload[w]]
    /\ step' = [step EXCEPT ![w] = "settings"] /\ upload' = [upload EXCEPT ![w] = None]
    /\ UNCHANGED <<stores, req, view, faults, ghosts>>

\* One of the four calls fails: the user uploads again.
UploadFails(w) ==
    /\ Fault /\ upload[w] # None
    /\ upload' = [upload EXCEPT ![w] = None]
    /\ UNCHANGED <<stores, req, step, importId, view, ghosts>>

Neighbours == {<<"settings", "mapping">>, <<"mapping", "settings">>,
               <<"mapping", "confirm">>, <<"confirm", "mapping">>}

GoTo(w, s) ==
    /\ <<step[w], s>> \in Neighbours
    /\ step' = [step EXCEPT ![w] = s]
    /\ UNCHANGED <<stores, req, upload, importId, view, faults, ghosts>>

-----------------------------------------------------------------------------
(* Requests that queue a job *)

Send(r, op, file, from) ==
    /\ req[r] = Idle
    /\ req' = [req EXCEPT ![r] = [op |-> op, file |-> file, from |-> from, at |-> "sent"]]
    /\ UNCHANGED <<stores, wizard, view, faults, ghosts>>

\* The button is not disabled while a start is under way.
ClickStart(w, r) == step[w] = "confirm" /\ Send(r, "start", importId[w], w)
CreateExport(v, r) == Send(r, "export", None, v)
PostImport(r) == Send(r, "public", r, None)

At(r, at) == req[r].at = at
Goes(r, at) == req' = [req EXCEPT ![r].at = at]

\* Starts of a draft between their look at the mark and their own mark.
Starting(d) == {r \in Requests : req[r].op = "start" /\ req[r].file = d /\ req[r].at \in {"loaded", "queued"}}

\* Faulty variant of Refused: a start does not look at the mark.
RefusedNever(d) == FALSE

\* A draft that was started.
Refused(d) == mark[d] # None

\* start reads the draft.
LoadDraft(r) ==
    /\ req[r].op = "start" /\ At(r, "sent")
    /\ \/ Refused(req[r].file) /\ Goes(r, "refused") /\ UNCHANGED excused
       \/ /\ ~Refused(req[r].file) /\ Goes(r, "loaded")
          /\ excused' = IF Starting(req[r].file) = {} THEN excused ELSE excused \cup {req[r].file}
    /\ UNCHANGED <<stores, wizard, view, faults, unknown>>

\* publicImport streams the file part into the bucket.
StoreUpload(r) ==
    /\ req[r].op = "public" /\ At(r, "sent")
    /\ objects' = objects \cup {r} /\ Goes(r, "loaded")
    /\ UNCHANGED <<mark, row, wizard, view, faults, ghosts>>

Ready(r) == At(r, IF req[r].op = "export" THEN "sent" ELSE "loaded")

\* Faulty variant of AfterError: a start removes the upload of its draft, too.
AfterErrorOfAny(r) == IF req[r].op # "export" THEN "discarding" ELSE "refused"

\* After an error publicImport removes what it stored; a draft keeps its upload.
AfterError(r) == IF req[r].op = "public" THEN "discarding" ELSE "refused"

Reject(r) ==
    /\ Ready(r) /\ Goes(r, AfterError(r))
    /\ UNCHANGED <<stores, wizard, view, faults, ghosts>>

\* A body that ends within a part: the error of NextPart removes nothing.
BodyMalformed(r) ==
    /\ req[r].op = "public" /\ At(r, "loaded") /\ Goes(r, "refused")
    /\ UNCHANGED <<stores, wizard, view, faults, ghosts>>

Enqueue(r) ==
    /\ Ready(r) /\ Goes(r, IF req[r].op = "start" THEN "queued" ELSE "accepted")
    /\ row' = [row EXCEPT ![r] = "queued"]
    /\ UNCHANGED <<objects, mark, wizard, view, faults, ghosts>>

\* The INSERT fails, or commits and the answer is lost.
EnqueueFails(r) ==
    /\ Fault /\ Ready(r) /\ Goes(r, AfterError(r))
    /\ \/ UNCHANGED <<row, ghosts>>
       \/ /\ row' = [row EXCEPT ![r] = "queued"] /\ unknown' = unknown \cup {r}
          /\ excused' = IF req[r].op = "start" THEN excused \cup {req[r].file} ELSE excused
    /\ UNCHANGED <<objects, mark, wizard, view>>

\* An error of RemoveObject is ignored.
Discard(r) ==
    /\ At(r, "discarding") /\ Goes(r, "refused")
    /\ \/ objects' = objects \ {req[r].file} /\ UNCHANGED faults
       \/ Fault /\ UNCHANGED objects
    /\ UNCHANGED <<mark, row, wizard, view, ghosts>>

\* start writes the draft with its job; an error is ignored.
MarkDraft(r) ==
    /\ At(r, "queued") /\ Goes(r, "accepted")
    /\ \/ mark' = [mark EXCEPT ![req[r].file] = r] /\ UNCHANGED <<faults, excused>>
       \/ Fault /\ excused' = excused \cup {req[r].file} /\ UNCHANGED mark
    /\ UNCHANGED <<objects, row, wizard, view, unknown>>

\* The process ends or the connection breaks before the request is through.
Dies(r) ==
    /\ Fault /\ req[r].at \in {"sent", "loaded", "queued", "discarding"} /\ Goes(r, "refused")
    /\ excused' = IF At(r, "queued") THEN excused \cup {req[r].file} ELSE excused
    /\ UNCHANGED <<stores, wizard, view, unknown>>

-----------------------------------------------------------------------------
(* The console follows a job *)

\* A job view follows another job: its effect runs again, unless the id is the same.
Watch(s, id) ==
    /\ watched' = [watched EXCEPT ![s] = id]
    /\ polling' = [polling EXCEPT ![s] = @ \/ watched[s] # id]
    /\ UNCHANGED <<shown, answers>>

\* The wizard follows the draft it started, the screen of exports the job it was told.
AnswerTaken(r) ==
    /\ At(r, "accepted") /\ req[r].from # None /\ Goes(r, "answered")
    /\ IF req[r].op = "start"
       THEN step' = [step EXCEPT ![req[r].from] = "job"] /\ Watch(req[r].from, importId[req[r].from])
       ELSE Watch(req[r].from, r) /\ UNCHANGED step
    /\ UNCHANGED <<stores, upload, importId, faults, ghosts>>

AnswerLost(r) ==
    /\ Fault /\ At(r, "accepted") /\ req[r].from # None /\ Goes(r, "answered")
    /\ UNCHANGED <<stores, wizard, view, ghosts>>

Found(id) == IF id \in Requests THEN row[id] ELSE None

\* Faulty variant of Asks: an answer does not set the timer again.
AsksOnce(s) == polling[s] /\ answers[s] = {} /\ shown[s] = None

\* One poll at a time for the job that is followed.
Asks(s) == polling[s] /\ \A a \in answers[s] : a.job # watched[s]

\* A tick asks for the job; the importer answers, or has no such job.
Poll(s) ==
    /\ Asks(s)
    /\ answers' = [answers EXCEPT ![s] = @ \cup {[job |-> watched[s], status |-> Found(watched[s])]}]
    /\ UNCHANGED <<stores, req, wizard, watched, polling, shown, faults, ghosts>>

\* Faulty variant of Current: the effect that was cleaned up takes its answer.
CurrentAlways(s, a) == TRUE

Current(s, a) == a.job = watched[s]

\* An answer for a job that is no longer followed is dropped; after a 404 it asks again.
TakePoll(s, a) ==
    /\ a \in answers[s] /\ answers' = [answers EXCEPT ![s] = @ \ {a}]
    /\ IF Current(s, a) /\ a.status # None
       THEN /\ shown' = [shown EXCEPT ![s] = a]
            /\ polling' = [polling EXCEPT ![s] = a.status \in Waiting]
       ELSE UNCHANGED <<shown, polling>>
    /\ UNCHANGED <<stores, req, wizard, watched, faults, ghosts>>

\* The timer is set after an error too.
PollFails(s, a) ==
    /\ Fault /\ a \in answers[s] /\ answers' = [answers EXCEPT ![s] = @ \ {a}]
    /\ UNCHANGED <<stores, req, wizard, watched, polling, shown, ghosts>>

-----------------------------------------------------------------------------
(* The queue *)

Moves(r, before, after) ==
    /\ row[r] = before /\ row' = [row EXCEPT ![r] = after]
    /\ UNCHANGED <<objects, mark, req, wizard, view, ghosts>>

Claim(r) == Moves(r, "queued", "running") /\ UNCHANGED faults

\* A handler that finds no file fails.
Finish(r) ==
    /\ \E result \in {"succeeded", "failed"} :
           /\ result = "succeeded" => req[r].file \in objects \cup {None}
           /\ Moves(r, "running", result)
    /\ UNCHANGED faults

LoseWorker(r) == Fault /\ Moves(r, "running", "queued")
Cancel(r) == (\E before \in Waiting : Moves(r, before, "cancelled")) /\ UNCHANGED faults

Queue(r) == Claim(r) \/ Finish(r) \/ LoseWorker(r) \/ Cancel(r)
Route(r) ==
    \/ LoadDraft(r) \/ StoreUpload(r) \/ Reject(r) \/ BodyMalformed(r) \/ Enqueue(r) \/ EnqueueFails(r)
    \/ Discard(r) \/ MarkDraft(r) \/ Dies(r) \/ AnswerTaken(r) \/ AnswerLost(r)
Wizard(w) ==
    \/ \E d \in Drafts : PutFile(w, d)
    \/ CreateDraft(w) \/ Preview(w) \/ UploadFails(w)
    \/ \E s \in {"settings", "mapping", "confirm"} : GoTo(w, s)
    \/ \E r \in Requests : ClickStart(w, r)
JobView(s) == Poll(s) \/ \E a \in answers[s] : TakePoll(s, a) \/ PollFails(s, a)

Next ==
    \/ \E r \in Requests : PostImport(r) \/ Route(r) \/ Queue(r) \/ \E v \in Views : CreateExport(v, r)
    \/ \E w \in Wizards : Wizard(w)
    \/ \E s \in Screens : JobView(s)

Spec == Init /\ [][Next]_vars

\* The browser's timers and callbacks run, and the queue works through its jobs (JobQueue).
Fairness ==
    /\ \A s \in Screens : WF_vars(Poll(s) \/ \E a \in answers[s] : TakePoll(s, a))
    /\ \A r \in Requests : WF_vars(Claim(r) \/ Finish(r))

FairSpec == Spec /\ Fairness

-----------------------------------------------------------------------------
JobsOf(d) == {r \in Requests : req[r].op = "start" /\ req[r].file = d /\ row[r] # None}

\* A draft is started a second time only when two starts read it at once, or when the first
\* could not mark it: a process that died, a failed write or an INSERT nobody saw commit
\* (routes.go:282 and 297).
SecondStartIsExplained == \A d \in Drafts \ excused : Cardinality(JobsOf(d)) <= 1

\* What is queued has its upload, whichever requests for it failed, unless the importer
\* could not know that its INSERT committed and removed the file (routes.go:397).
QueuedHasItsFile ==
    \A r \in Requests \ unknown :
        row[r] \in Waiting /\ req[r].op # "export" => req[r].file \in objects

\* A view that stopped asking shows how the job it follows ended, whichever job it
\* followed before and whatever answers were on their way (job-view.tsx:24).
StoppedShowsTheEnd ==
    \A s \in Screens :
        watched[s] # None /\ ~polling[s] =>
            shown[s] = [job |-> watched[s], status |-> Found(watched[s])] /\ Found(watched[s]) \in Ended

\* The screen of exports comes to the end of the job it follows (job-view.tsx:28, 32).
EveryExportIsShown == \A v \in Views : watched[v] # None ~> ~polling[v]

\* What job-view.tsx:10 says of every job view; the wizard's asks for the draft.
EveryImportIsShown == \A w \in Wizards : watched[w] # None ~> ~polling[w]
=============================================================================
