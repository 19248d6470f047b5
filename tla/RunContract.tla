---------------------------- MODULE RunContract ----------------------------
(***************************************************************************)
(* What a reader of orchestrator.runs and of the notifications may rely on *)
(* for one run, whatever the interleaving, the crashes and the failed      *)
(* calls.  RunLifecycle implements it.                                     *)
(*                                                                         *)
(* A verdict is only ever given to a run that is running, and each start   *)
(* of the run has at most one verdict and one final notification.  The     *)
(* contract is weak where the code is: a start, a sandbox failure and a    *)
(* cancellation overwrite any status (see RunLifecycle's violations).      *)
(***************************************************************************)
EXTENDS Naturals

VARIABLES
  status,    \* orchestrator.runs.status
  owed,      \* a verdict is committed whose notification is not yet sent
  starts,    \* how often the run was set to running
  notices    \* verdicts announced

runContractVars == <<status, owed, starts, notices>>

Verdicts  == {"completed", "warning", "failed"}
RunStatus == {"none", "queued", "running", "cancelled"} \cup Verdicts

RunContractInit ==
  /\ status = "none"
  /\ owed = FALSE
  /\ starts = 0
  /\ notices = 0

Queued ==
  /\ status = "none"
  /\ status' = "queued"
  /\ UNCHANGED <<owed, starts, notices>>

Started ==
  /\ status # "none"
  /\ status' = "running"
  /\ starts' = starts + 1
  /\ UNCHANGED <<owed, notices>>

(* The sandbox failed, or the user cancelled the run. *)
Ended ==
  /\ status # "none"
  /\ status' \in {"failed", "cancelled"}
  /\ UNCHANGED <<owed, starts, notices>>

Judged ==
  /\ status = "running"
  /\ ~owed
  /\ status' \in Verdicts
  /\ owed' = TRUE
  /\ UNCHANGED <<starts, notices>>

Announced ==
  /\ owed
  /\ owed' = FALSE
  /\ notices' = notices + 1
  /\ UNCHANGED <<status, starts>>

(* The orchestrator died between the commit and the notification. *)
Forgotten ==
  /\ owed
  /\ owed' = FALSE
  /\ UNCHANGED <<status, starts, notices>>

RunContractNext ==
  Queued \/ Started \/ Ended \/ Judged \/ Announced \/ Forgotten

RunContractSpec == RunContractInit /\ [][RunContractNext]_runContractVars
=============================================================================
