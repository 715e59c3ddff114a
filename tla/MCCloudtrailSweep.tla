------------------------- MODULE MCCloudtrailSweep -------------------------
(* Instances of CloudtrailSweep for TLC. *)
EXTENDS CloudtrailSweep, TLC

Symmetry == Permutations(Sweepers)
=============================================================================
