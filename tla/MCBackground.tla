--------------------------- MODULE MCBackground -----------------------------
(***************************************************************************)
(* EventConsumer and GdprRequests for TLC, the work core does after its    *)
(* answer: what it consumes and records, and the requests it runs from its *)
(* own queues.  They share no state; a behaviour is one of either, as part *)
(* says, and leaves the variables of the other alone.                      *)
(***************************************************************************)
EXTENDS EventConsumer

CONSTANTS p1, p2, a1, o1, t1, None, MaxReqs,
          MaxGdprFaults  \* bound: MaxFaults of GdprRequests

VARIABLES part, req, contact, rows, objects, asked, queue, run, gdprUp, upsert, gdprFaults,
          orphans, stray, unmarked

G == INSTANCE GdprRequests WITH up <- gdprUp, faults <- gdprFaults, MaxFaults <- MaxGdprFaults

ASSUME G!GdprRequestsAssumption

gdprVars == <<req, contact, rows, objects, asked, queue, run, gdprUp, upsert, gdprFaults, orphans, stray, unmarked>>
allVars == <<part, vars, gdprVars>>

IsEvents == part = "events" /\ UNCHANGED <<part, gdprVars>>
IsGdpr == part = "gdpr" /\ UNCHANGED <<part, vars>>

AllInit == part \in {"events", "gdpr"} /\ Init /\ G!Init

AllNext ==
    \/ \E p \in Procs, e \in Events : IsEvents /\ Write(p, e)
    \/ \E p \in Procs, e \in Events : IsEvents /\ Publish(p, e)
    \/ \E p \in Procs, e \in Events : IsEvents /\ Record(p, e)
    \/ \E p \in Procs, e \in Events : IsEvents /\ AnnounceFails(p, e)
    \/ \E p \in Procs, e \in Events : IsEvents /\ Deliver(p, e)
    \/ \E e \in Events : IsEvents /\ Expire(e)
    \/ \E p \in Procs : \E d \in held[p] : IsEvents /\ Loop(p, d)
    \/ \E p \in Procs : \E d \in held[p] : IsEvents /\ HandleFails(p, d)
    \/ \E p \in Procs : \E d \in held[p] : IsEvents /\ BuryFails(p, d)
    \/ \E p \in Procs : IsEvents /\ Crash(p)
    \/ \E p \in Procs : IsEvents /\ Restart(p)
    \/ \E p \in Procs, kind \in {"export", "forget"} : IsGdpr /\ G!Ask(p, kind)
    \/ \E p \in Procs : IsGdpr /\ G!Create(p)
    \/ \E p \in Procs : IsGdpr /\ G!Start(p)
    \/ \E p \in Procs : IsGdpr /\ G!Claim(p)
    \/ \E p \in Procs : IsGdpr /\ G!Read(p)
    \/ \E p \in Procs : IsGdpr /\ G!Put(p)
    \/ \E p \in Procs : IsGdpr /\ G!Mark(p)
    \/ \E p \in Procs : IsGdpr /\ G!Erase(p)
    \/ \E p \in Procs : IsGdpr /\ G!Clean(p)
    \/ \E p \in Procs : IsGdpr /\ G!Fail(p)
    \/ \E p \in Procs : IsGdpr /\ G!Break(p)
    \/ \E p \in Procs : IsGdpr /\ G!Crash(p)
    \/ \E p \in Procs : IsGdpr /\ G!Restart(p)
    \/ IsGdpr /\ G!ResolveRows
    \/ IsGdpr /\ G!WriteRows

\* The fairness of the two modules, on the actions of the part that runs.
AllFairness ==
    /\ \A p \in Procs : /\ WF_allVars(\E d \in held[p] : IsEvents /\ Loop(p, d))
                        /\ WF_allVars(IsEvents /\ Restart(p))
                        /\ WF_allVars(\E e \in Events : IsEvents /\ (Publish(p, e) \/ Record(p, e)))
                        /\ WF_allVars(IsGdpr /\ G!Work(p))
                        /\ WF_allVars(IsGdpr /\ G!Restart(p))
    /\ \A e \in Events : /\ WF_allVars(\E p \in Procs : IsEvents /\ Deliver(p, e))
                         /\ WF_allVars(IsEvents /\ Expire(e))

AllFairSpec == AllInit /\ [][AllNext]_allVars /\ AllFairness

\* The properties of GdprRequests, on its instance.
ErasureIsComplete == G!ErasureIsComplete
EveryRequestSettles == G!EveryRequestSettles
=============================================================================
