----------------------------- MODULE MCSessions -----------------------------
(* Instances of Sessions for TLC. *)
EXTENDS Sessions, TLC
CONSTANTS b1, r1, r2, t1, t2, t3, f1, f2, c1, c2, k1, k2
Symmetry == Permutations({r1, r2}) \cup Permutations({t1, t2, t3}) \cup Permutations({f1, f2})
            \cup Permutations({c1, c2}) \cup Permutations({k1, k2})
=============================================================================
