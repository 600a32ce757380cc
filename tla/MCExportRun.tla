---------------------------- MODULE MCExportRun -----------------------------
(* Instances of ExportRun for TLC. *)
EXTENDS ExportRun, TLC
CONSTANTS e1, e2
Symmetry == Permutations({e1, e2})
=============================================================================
