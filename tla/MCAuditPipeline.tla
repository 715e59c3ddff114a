--------------------------- MODULE MCAuditPipeline --------------------------
(* Instances of AuditPipeline for TLC. *)
EXTENDS AuditPipeline

FirstIsJunk == {m \in Messages : m.offset = 0}
=============================================================================
