--------------------------- MODULE MCLeaderLease ---------------------------
(* Instances of LeaderLease for TLC. *)
EXTENDS LeaderLease, TLC

Symmetry == Permutations(Replicas)
=============================================================================
