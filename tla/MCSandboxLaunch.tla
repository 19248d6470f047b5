-------------------------- MODULE MCSandboxLaunch ----------------------------
(* Launches of one contracts version for TLC. *)
EXTENDS SandboxLaunch

CONSTANT v1

SmallWanted == [l \in Launches |-> v1]
=============================================================================
