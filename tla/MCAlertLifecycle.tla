-------------------------- MODULE MCAlertLifecycle --------------------------
(***************************************************************************)
(* Instances of AlertLifecycle for TLC; the configurations give the spans  *)
(* small values that keep their order, auto-resolve < window <= retention. *)
(***************************************************************************)
EXTENDS AlertLifecycle
=============================================================================
