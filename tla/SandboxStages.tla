--------------------------- MODULE SandboxStages ---------------------------
(***************************************************************************)
(* The lifecycle events the sandbox-manager publishes on sandbox.events,   *)
(* and the order they may come in.  SandboxManager is shown to keep it     *)
(* (through SandboxContract); RunLifecycle relies on it.                   *)
(***************************************************************************)
Stage == {"none", "provisioning", "ready", "failed", "closed"}

(***************************************************************************)
(* The events that may follow a stage.  "failed" follows "ready" when the  *)
(* wait for the tests breaks, and "closed" follows "provisioning" when the *)
(* run was cancelled while its sandbox was provisioned.                    *)
(***************************************************************************)
Successors ==
  [s \in Stage |->
     CASE s = "none"         -> {"provisioning", "failed"}
       [] s = "provisioning" -> {"ready", "failed", "closed"}
       [] s = "ready"        -> {"failed", "closed"}
       [] s = "failed"       -> {"closed"}
       [] s = "closed"       -> {}]
=============================================================================
