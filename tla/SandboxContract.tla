-------------------------- MODULE SandboxContract --------------------------
(***************************************************************************)
(* What the sandbox-manager promises to the readers of sandbox.events: the *)
(* order in which the lifecycle events of one sandbox may appear, and that *)
(* a sandbox announced as ready can be found in sandbox.sandboxes.         *)
(*                                                                         *)
(* SandboxManager implements this module.  Events stop when the process    *)
(* dies: nothing here is fair.                                             *)
(***************************************************************************)
EXTENDS SandboxStages

CONSTANT Requests     \* sandbox requests, one per run

VARIABLES
  stage,        \* the last lifecycle event published for the sandbox
  addressable   \* container_ids and ports are stored in the sandbox's row

contractVars == <<stage, addressable>>

ContractInit ==
  /\ stage = [r \in Requests |-> "none"]
  /\ addressable = [r \in Requests |-> FALSE]

(* The row of the sandbox gets its container ids: before it is ready. *)
Record(r) ==
  /\ stage[r] = "provisioning"
  /\ ~addressable[r]
  /\ addressable' = [addressable EXCEPT ![r] = TRUE]
  /\ UNCHANGED stage

(* The next event of the sandbox is published. *)
Publish(r) ==
  \E s \in Successors[stage[r]] :
    /\ s = "ready" => addressable[r]
    /\ stage' = [stage EXCEPT ![r] = s]
    /\ UNCHANGED addressable

ContractNext == \E r \in Requests : Record(r) \/ Publish(r)

ContractSpec == ContractInit /\ [][ContractNext]_contractVars
=============================================================================
