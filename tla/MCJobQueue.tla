----------------------------- MODULE MCJobQueue -----------------------------
(* Instances of JobQueue for TLC. *)
EXTENDS JobQueue, TLC

CONSTANTS j1, j2, ra, rb, s1, s2

\* Jobs, replicas and worker goroutines are interchangeable.
Symmetry == Permutations(Jobs) \cup Permutations(Replicas) \cup Permutations(Slots)
=============================================================================
