--------------------------- MODULE MCRunLifecycle ---------------------------
(* Small instances of RunLifecycle for TLC. *)
EXTENDS RunLifecycle, TLC

DefinitionSymmetry == Permutations(Definitions)

(* Bound: once an AI session has asked for a test, there are at most two   *)
(* rows and waiting commands of the sweep.                                 *)
AiBound == asked = 0 \/ Len(cmds["bulk"]) + Len(rows) <= 2
=============================================================================
