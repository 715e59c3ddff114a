--------------------------- MODULE MCSourceSweeps ---------------------------
(* Instances of SourceSweeps for TLC. *)
EXTENDS SourceSweeps
=============================================================================
