--------------------------- MODULE EventHandling ----------------------------
(***************************************************************************)
(* What a consumer promises to those who write (NFR-11): an event is tried *)
(* MaxDeliver times at most, its row follows a try, it becomes a dead      *)
(* letter after the last one, and is answered, for good, only when its row *)
(* is there or the dead letter is.  EventConsumer is shown to implement    *)
(* this specification.                                                     *)
(***************************************************************************)
EXTENDS Naturals

CONSTANTS Events,
          Own,        \* events that are recorded without a delivery
          MaxDeliver

VARIABLES written,
          tries,      \* deliveries of each event
          kept,       \* events with their row
          dead,       \* events with a dead letter
          answered    \* events that are delivered no more

vars == <<written, tries, kept, dead, answered>>

Init == written = {} /\ tries = [e \in Events |-> 0] /\ kept = {} /\ dead = {} /\ answered = {}

Write(e) ==
    /\ e \notin written
    /\ written' = written \cup {e}
    /\ UNCHANGED <<tries, kept, dead, answered>>

Try(e) ==
    /\ e \in written \ (Own \cup answered) /\ tries[e] < MaxDeliver
    /\ tries' = [tries EXCEPT ![e] = @ + 1]
    /\ UNCHANGED <<written, kept, dead, answered>>

Keep(e) ==
    /\ e \in written /\ (e \in Own \/ tries[e] > 0)
    /\ kept' = kept \cup {e}
    /\ UNCHANGED <<written, tries, dead, answered>>

Bury(e) ==
    /\ tries[e] = MaxDeliver
    /\ dead' = dead \cup {e}
    /\ UNCHANGED <<written, tries, kept, answered>>

Answer(e) ==
    /\ e \in kept \cup dead
    /\ answered' = answered \cup {e}
    /\ UNCHANGED <<written, tries, kept, dead>>

Next == \E e \in Events : Write(e) \/ Try(e) \/ Keep(e) \/ Bury(e) \/ Answer(e)

Spec == Init /\ [][Next]_vars
=============================================================================
