-------------------------- MODULE MCContactEvents ---------------------------
(* Instances of ContactEvents for TLC. *)
EXTENDS ContactEvents, TLC
CONSTANTS c1, c2, l1, l2, s1, s2, s3
Symmetry == Permutations({s1, s2, s3}) \cup Permutations({l1, l2}) \cup Permutations({c1, c2})
=============================================================================
