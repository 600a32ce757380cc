--------------------------- MODULE EventDelivery ----------------------------
(***************************************************************************)
(* What the outbox promises the writers of core (NFR-11): an event exists  *)
(* once its transaction committed, it stays pending until the stream has   *)
(* it, and it is published only then.  OutboxRelay is shown to implement   *)
(* this specification.                                                     *)
(***************************************************************************)

CONSTANT Events   \* the events transactions of core may commit

VARIABLES pending,    \* committed events the outbox still holds
          delivered   \* events the stream has stored at least once

vars == <<pending, delivered>>

Init == pending = {} /\ delivered = {}

Accept(e) ==
    /\ e \notin pending \cup delivered
    /\ pending' = pending \cup {e}
    /\ UNCHANGED delivered

Deliver(e) ==
    /\ e \in pending
    /\ delivered' = delivered \cup {e}
    /\ UNCHANGED pending

Settle(batch) ==
    /\ batch \subseteq pending \cap delivered
    /\ pending' = pending \ batch
    /\ UNCHANGED delivered

Next ==
    \/ \E e \in Events : Accept(e) \/ Deliver(e)
    \/ \E batch \in SUBSET Events : Settle(batch)

Spec == Init /\ [][Next]_vars
=============================================================================
