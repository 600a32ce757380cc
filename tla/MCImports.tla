------------------------------ MODULE MCImports -----------------------------
(***************************************************************************)
(* ImportDrafts and ImportRun for TLC: how an import job comes about and   *)
(* is watched, and one run of its handler.  They meet in the status of the *)
(* job only, which either sees change by itself; a behaviour is one of     *)
(* either, as part says, and leaves the variables of the other alone.      *)
(***************************************************************************)
EXTENDS ImportDrafts

CONSTANTS Rows, Malformed, Rejected, Mode, BatchSize, Concurrency, TenantLimit, OtherJobs, Retries

VARIABLES part, phase, pos, batch, senders, failure, shutdown, jobRow, cancelled, ok, failed, report,
          errorFile,  \* upload of ImportRun
          outcome, others, core

R == INSTANCE ImportRun WITH upload <- errorFile

ASSUME R!ImportRunAssumption

runVars == <<phase, pos, batch, senders, failure, shutdown, jobRow, cancelled, ok, failed, report,
             errorFile, outcome, others, core>>
allVars == <<part, vars, runVars>>

IsDrafts == part = "drafts" /\ UNCHANGED <<part, runVars>>
IsRun == part = "run" /\ UNCHANGED <<part, vars>>

ImportsInit == part \in {"drafts", "run"} /\ Init /\ R!Init

ImportsNext ==
    \/ \E r \in Requests : IsDrafts /\ PostImport(r)
    \/ \E r \in Requests : IsDrafts /\ Route(r)
    \/ \E r \in Requests : IsDrafts /\ Queue(r)
    \/ \E r \in Requests, v \in Views : IsDrafts /\ CreateExport(v, r)
    \/ \E w \in Wizards : IsDrafts /\ Wizard(w)
    \/ \E s \in Screens : IsDrafts /\ JobView(s)
    \/ IsRun /\ R!Handler
    \/ \E s \in senders : IsRun /\ R!Send(s)
    \/ IsRun /\ R!Cancel
    \/ IsRun /\ R!Shutdown
    \/ IsRun /\ R!UploadDies
    \/ IsRun /\ R!OtherAcquires
    \/ IsRun /\ R!OtherReleases

\* The fairness of the two modules, on the actions of the part that runs.
ImportsFairness ==
    /\ \A s \in Screens : WF_allVars(IsDrafts /\ (Poll(s) \/ \E a \in answers[s] : TakePoll(s, a)))
    /\ \A r \in Requests : WF_allVars(IsDrafts /\ (Claim(r) \/ Finish(r)))
    /\ WF_allVars(IsRun /\ R!Handler)
    /\ WF_allVars(\E s \in senders :
                      IsRun /\ (R!Answered(s) \/ R!Refused(s) \/ R!Unanswered(s) \/ R!SendAborted(s)))
    /\ SF_allVars(\E s \in senders : IsRun /\ R!Acquire(s))
    /\ WF_allVars(IsRun /\ R!OtherReleases)

ImportsSpec == ImportsInit /\ [][ImportsNext]_allVars /\ ImportsFairness

\* The properties of ImportRun, on its instance; the run of the handler is not in every behaviour.
EachRowOnce == R!EachRowOnce
SuccessAccountsForAll == R!SuccessAccountsForAll
RunEnds == part = "run" => R!RunEnds
=============================================================================
