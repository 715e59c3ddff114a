-------------------------- MODULE MCWatermarkFold --------------------------
(* Instances of WatermarkFold for TLC. *)
EXTENDS WatermarkFold, TLC

Symmetry == Permutations(CloudtrailRows) \cup Permutations(Passes)
=============================================================================
