----------------------------- MODULE MCBgWriter -----------------------------
(* Instances of BgWriter for TLC. *)
EXTENDS BgWriter
=============================================================================
