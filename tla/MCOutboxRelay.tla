--------------------------- MODULE MCOutboxRelay ----------------------------
(* Instances of OutboxRelay for TLC. *)
EXTENDS OutboxRelay, TLC
CONSTANTS p1, p2
Symmetry == Permutations({p1, p2})
=============================================================================
