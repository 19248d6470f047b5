-------------------------- MODULE MCSandboxManager --------------------------
(* Small instances of SandboxManager for TLC. *)
EXTENDS SandboxManager, TLC

RequestSymmetry == Permutations(Requests)
=============================================================================
