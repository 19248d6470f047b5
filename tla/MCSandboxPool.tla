--------------------------- MODULE MCSandboxPool ---------------------------
(* Small instances of SandboxPool for TLC. *)
EXTENDS SandboxPool
=============================================================================
