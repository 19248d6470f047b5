--------------------------- MODULE SandboxManager ---------------------------
(***************************************************************************)
(* The life of a sandbox in the sandbox-manager: the asyncio task _handle  *)
(* of sandbox_queue.py, the provisioner's worker threads it waits for, the *)
(* startup sweep, the periodic garbage collector and the SIGTERM drain,    *)
(* all over the slot pool of SandboxPool.                                  *)
(*                                                                         *)
(* A sandbox is named by its request: SandboxPool shows that a request     *)
(* gets at most one task.  An action is the code between two suspension    *)
(* points of a task, or one visible effect of a worker thread.             *)
(*                                                                         *)
(* Abstracted: the provisioning steps between the first container and the  *)
(* last, step and log_batch events, ports, and the tests (the wait for     *)
(* them may end at any time: it has a timeout).                            *)
(***************************************************************************)
EXTENDS SandboxPool

CONSTANT MaxFailures   \* bound: failed calls of the DB and the broker, and
                       \* resources that Docker refuses to remove

ASSUME ManagerAssumption == MaxFailures \in Nat

VARIABLES
  mode,         \* what the process does: see Mode
  pc,           \* where the task _handle of each sandbox is suspended
  provisioned,  \* the task's local sandbox_provisioned
  job,          \* the worker thread that acts for the sandbox
  row,          \* sandbox.sandboxes.status
  recorded,     \* the row holds container_ids, network and volume
  res,          \* the sandbox's resources in Docker
  cancelled,    \* orchestrator.runs.status = 'cancelled'
  stage,        \* the last lifecycle event published for the sandbox
  orphans,      \* rows the startup sweep has still to tear down
  closing,      \* the row it has torn down and is about to close
  gc,           \* where the garbage collector is
  gcActive,     \* active_ids: the sandboxes it read from the database
  gcFound,      \* orphaned_ids: those it found a container of
  failures

taskVars    == <<pc, provisioned, stage>>
recordVars  == <<row, recorded>>
sweepVars   == <<orphans, closing>>
gcVars      == <<gc, gcActive, gcFound>>
managerVars == <<mode, taskVars, job, recordVars, res, cancelled,
                 sweepVars, gcVars, failures>>
vars        == <<poolVars, managerVars>>

Resources == {"volume", "network", "containers"}
Live      == {"provisioning", "ready"}

(* "cancelled": the drain timed out and cancelled the tasks that were left. *)
Mode == {"starting", "sweeping", "serving", "draining", "cancelled"}

(* Before sandbox_provisioned is set, after it, and in the finally block.  *)
Setup    == {"precheck", "mark", "announce", "provision", "fail_row", "tell_fail"}
Serve    == {"settle", "persist", "tell_ready", "wait"}
Failing  == {"error_row", "tell_error"}
Teardown == {"td_read", "td_docker", "td_row", "td_tell"}
Running  == Setup \cup Serve \cup Failing \cup Teardown \cup {"release"}
PC       == Running \cup {"idle", "ended", "interrupted", "dead"}

Job == {"none", "build", "network", "containers", "up", "failed", "down"}

ManagerTypeOK ==
  /\ PoolTypeOK
  /\ mode \in Mode
  /\ pc \in [Requests -> PC]
  /\ provisioned \in [Requests -> BOOLEAN]
  /\ job \in [Requests -> Job]
  /\ row \in [Requests -> Live \cup {"none", "failed", "closed"}]
  /\ recorded \in [Requests -> BOOLEAN]
  /\ res \in [Requests -> SUBSET Resources]
  /\ cancelled \in [Requests -> BOOLEAN]
  /\ stage \in [Requests -> Live \cup {"none", "failed", "closed"}]
  /\ orphans \subseteq Requests
  /\ closing \subseteq Requests
  /\ gc \in {"idle", "containers", "networks", "volumes"}
  /\ gcActive \subseteq Requests
  /\ gcFound \subseteq Requests
  /\ failures \in 0..MaxFailures

ManagerInit ==
  /\ PoolInit
  /\ mode = "starting"
  /\ pc = [r \in Requests |-> "idle"]
  /\ provisioned = [r \in Requests |-> FALSE]
  /\ job = [r \in Requests |-> "none"]
  /\ row = [r \in Requests |-> "none"]
  /\ recorded = [r \in Requests |-> FALSE]
  /\ res = [r \in Requests |-> {}]
  /\ cancelled = [r \in Requests |-> FALSE]
  /\ stage = [r \in Requests |-> "none"]
  /\ orphans = {}
  /\ closing = {}
  /\ gc = "idle"
  /\ gcActive = {}
  /\ gcFound = {}
  /\ failures = 0

-----------------------------------------------------------------------------
(* One more failed call, within the bound. *)
Fail == failures < MaxFailures /\ failures' = failures + 1

(* Failing has a price only when it happens. *)
FailIf(failed) == IF failed THEN Fail ELSE UNCHANGED failures

Goto(r, label) == pc' = [pc EXCEPT ![r] = label]

(* A task moves on; nothing but what its step names changes. *)
Step(r, from, to) ==
  /\ pc[r] = from
  /\ Goto(r, to)
  /\ UNCHANGED <<poolVars, mode, cancelled, sweepVars, gcVars>>

SetRow(r, status) == row' = [row EXCEPT ![r] = status]

Emit(r, event) == stage' = [stage EXCEPT ![r] = event]

Finally(r) == IF provisioned[r] THEN "td_read" ELSE "release"

LiveRows == {r \in Requests : row[r] \in Live}

(***************************************************************************)
(* Best-effort removal: every removal is in a try block of its own, so     *)
(* what Docker refuses to remove just stays.                               *)
(***************************************************************************)
RemoveAll(r, what) ==
  \E kept \in SUBSET (what \cap res[r]) :
    /\ res' = [res EXCEPT ![r] = (@ \ what) \cup kept]
    /\ FailIf(kept # {})

Collect(rs, kind) ==
  \E kept \in SUBSET rs :
    /\ res' = [r \in Requests |-> IF r \in rs \ kept THEN res[r] \ {kind} ELSE res[r]]
    /\ FailIf(kept # {})

-----------------------------------------------------------------------------
(* The consumer loop and its producers: no sandbox is touched. *)
Feed ==
  /\ \/ \E r \in Requests : Submit(r) \/ Expire(r)
     \/ /\ mode = "serving"
        /\ \/ \E r \in Requests : Prefetch(r) \/ Deliver(r)
           \/ WaitForSlot
           \/ Ack \/ Spawn
  /\ UNCHANGED managerVars

(* cancel_run: the only thing it does for the sandbox is to set the status. *)
CancelRun(r) ==
  /\ ~cancelled[r]
  /\ pc[r] \notin {"ended", "interrupted", "dead"}
  /\ cancelled' = [cancelled EXCEPT ![r] = TRUE]
  /\ UNCHANGED <<poolVars, mode, taskVars, job, recordVars, res, sweepVars,
                 gcVars, failures>>

(* The head of _handle: the task ends here when the pool refuses it a slot. *)
Begin(r) ==
  /\ mode \in {"serving", "draining"}
  /\ Acquire(r)
  /\ Goto(r, IF task'[r] = "holding" THEN "precheck" ELSE "ended")
  /\ UNCHANGED <<mode, provisioned, stage, job, recordVars, res, cancelled,
                 sweepVars, gcVars, failures>>

(* _is_run_cancelled answers False when its query fails. *)
IsRunCancelled(r, yes, no) ==
  \/ cancelled[r] /\ Goto(r, yes) /\ UNCHANGED failures
  \/ ~cancelled[r] /\ Goto(r, no) /\ UNCHANGED failures
  \/ cancelled[r] /\ Goto(r, no) /\ Fail

Precheck(r) ==
  /\ pc[r] = "precheck"
  /\ IsRunCancelled(r, "release", "mark")
  /\ UNCHANGED <<poolVars, mode, provisioned, stage, job, recordVars, res,
                 cancelled, sweepVars, gcVars>>

(* Mutant of MarkProvisioning: a status the other readers do not know. *)
MarkProvisioning_Typo(r) ==
  /\ Step(r, "mark", "announce")
  /\ SetRow(r, "starting")
  /\ UNCHANGED <<provisioned, stage, job, recorded, res, failures>>

(* Mutant of MarkProvisioning: the row is left to the update to 'ready'.   *)
MarkProvisioning_NoRow(r) ==
  /\ Step(r, "mark", "announce")
  /\ UNCHANGED <<provisioned, stage, job, recordVars, res, failures>>

(* The upsert with status='provisioning': from here on the row exists. *)
MarkProvisioning(r) ==
  /\ Step(r, "mark", "announce")
  /\ SetRow(r, "provisioning")
  /\ UNCHANGED <<provisioned, stage, job, recorded, res, failures>>

(* Publish 'provisioning', then hand the sandbox to a worker thread. *)
Announce(r) ==
  /\ Step(r, "announce", "provision")
  /\ Emit(r, "provisioning")
  /\ job' = [job EXCEPT ![r] = "build"]
  /\ UNCHANGED <<provisioned, recordVars, res, failures>>

(* The task resumes with the result of the worker, or with its exception. *)
AwaitProvision(r) ==
  /\ Step(r, "provision", IF job[r] = "up" THEN "settle" ELSE "fail_row")
  /\ job[r] \in {"up", "failed"}
  /\ provisioned' = [provisioned EXCEPT ![r] = (job[r] = "up")]
  /\ job' = [job EXCEPT ![r] = "none"]
  /\ UNCHANGED <<stage, recordVars, res, failures>>

(* The except clauses: the row first, then the event. *)
WriteFailure(r, from, to) ==
  /\ Step(r, from, to)
  /\ SetRow(r, "failed")
  /\ UNCHANGED <<provisioned, stage, job, recorded, res, failures>>

TellFailure(r, from, to) ==
  /\ Step(r, from, to)
  /\ Emit(r, "failed")
  /\ UNCHANGED <<provisioned, job, recordVars, res, failures>>

(* Mutant of ProvisionFailed: the early return before the event. *)
ProvisionFailed_NoEvent(r) == WriteFailure(r, "fail_row", "release")

(* provision raised: the sandbox is failed, and nothing is torn down.      *)
ProvisionFailed(r) ==
  WriteFailure(r, "fail_row", "tell_fail") \/ TellFailure(r, "tell_fail", "release")

Unhandled(r) ==
  \/ WriteFailure(r, "error_row", "tell_error")
  \/ TellFailure(r, "tell_error", Finally(r))

(* After NODE_READY_DELAY the run may turn out to be cancelled: teardown. *)
Settle(r) ==
  /\ pc[r] = "settle"
  /\ IsRunCancelled(r, "td_read", "persist")
  /\ UNCHANGED <<poolVars, mode, provisioned, stage, job, recordVars, res,
                 cancelled, sweepVars, gcVars>>

(* Mutant of PersistReady: the container ids are not part of the update. *)
PersistReady_NoIds(r) ==
  /\ Step(r, "persist", "tell_ready")
  /\ SetRow(r, "ready")
  /\ UNCHANGED <<provisioned, stage, job, recorded, res, failures>>

(* status='ready' and everything teardown needs, in one upsert. *)
PersistReady(r) ==
  /\ Step(r, "persist", "tell_ready")
  /\ SetRow(r, "ready")
  /\ recorded' = [recorded EXCEPT ![r] = TRUE]
  /\ UNCHANGED <<provisioned, stage, job, res, failures>>

TellReady(r) ==
  /\ Step(r, "tell_ready", "wait")
  /\ Emit(r, "ready")
  /\ UNCHANGED <<provisioned, job, recordVars, res, failures>>

(* _wait_for_tests returns: tests done, run cancelled, sessions over, or   *)
(* its timeout.  The finally block follows.                                *)
WaitForTests(r) ==
  /\ Step(r, "wait", "td_read")
  /\ UNCHANGED <<provisioned, stage, job, recordVars, res, failures>>

(* _teardown reads the row: without container ids Docker is left alone.    *)
TeardownRead(r) ==
  /\ pc[r] = "td_read"
  /\ IF recorded[r]
     THEN Goto(r, "td_docker") /\ job' = [job EXCEPT ![r] = "down"]
     ELSE Goto(r, "td_row") /\ UNCHANGED job
  /\ UNCHANGED <<poolVars, mode, provisioned, stage, recordVars, res,
                 cancelled, sweepVars, gcVars, failures>>

(* Mutant of TeardownDocker: the task does not wait for the worker. *)
TeardownDocker_NoWait(r) ==
  /\ Step(r, "td_docker", "td_row")
  /\ UNCHANGED <<provisioned, stage, job, recordVars, res, failures>>

(* await provisioner.teardown(...) *)
TeardownDocker(r) ==
  /\ Step(r, "td_docker", "td_row")
  /\ job[r] = "none"
  /\ UNCHANGED <<provisioned, stage, job, recordVars, res, failures>>

TeardownRow(r) ==
  /\ Step(r, "td_row", "td_tell")
  /\ SetRow(r, "closed")
  /\ UNCHANGED <<provisioned, stage, job, recorded, res, failures>>

TeardownTell(r) ==
  /\ Step(r, "td_tell", "release")
  /\ Emit(r, "closed")
  /\ UNCHANGED <<provisioned, job, recordVars, res, failures>>

(* The last statement of the finally block. *)
Finish(r) ==
  /\ pc[r] = "release"
  /\ Release(r)
  /\ Goto(r, "ended")
  /\ UNCHANGED <<mode, provisioned, stage, job, recordVars, res, cancelled,
                 sweepVars, gcVars, failures>>

(* A call to the database or the broker raises inside the try block. *)
CallFails(r) ==
  /\ pc[r] \in {"mark", "announce", "fail_row", "tell_fail",
                "persist", "tell_ready", "wait", "error_row", "tell_error"}
  /\ Goto(r, IF pc[r] \in Failing THEN Finally(r) ELSE "error_row")
  /\ Fail
  /\ UNCHANGED <<poolVars, mode, provisioned, stage, job, recordVars, res,
                 cancelled, sweepVars, gcVars>>

(* ... or in _teardown, inside the finally block: the slot is not released. *)
TeardownFails(r) ==
  /\ pc[r] \in {"td_read", "td_row", "td_tell"}
  /\ Leak(r)
  /\ Goto(r, "ended")
  /\ UNCHANGED <<mode, provisioned, stage, job, recordVars, res, cancelled,
                 sweepVars, gcVars, failures>>

-----------------------------------------------------------------------------
(* The worker threads.  They are not stopped when their task is cancelled. *)
(* Any step of provisioning may raise; it is no failed call of the bound.  *)
SetJob(r, j) == job' = [job EXCEPT ![r] = j]

WorkerUnchanged == UNCHANGED <<poolVars, mode, taskVars, recordVars, cancelled,
                               sweepVars, gcVars>>

(* Phase 0, before the try block of _provision_sync: an app is built into a *)
(* volume of its own, or there is none; a failed build may leave the volume. *)
BuildApp(r) ==
  /\ job[r] = "build"
  /\ \E made \in SUBSET {"volume"}, ok \in BOOLEAN :
       /\ res' = [res EXCEPT ![r] = @ \cup made]
       /\ SetJob(r, IF ok THEN "network" ELSE "failed")
  /\ UNCHANGED failures
  /\ WorkerUnchanged

CreateNetwork(r) ==
  /\ job[r] = "network"
  /\ res' = [res EXCEPT ![r] = @ \cup {"network"}]
  /\ SetJob(r, "containers")
  /\ UNCHANGED failures
  /\ WorkerUnchanged

StartContainers(r) ==
  /\ job[r] = "containers"
  /\ "network" \in res[r]
  /\ res' = [res EXCEPT ![r] = @ \cup {"containers"}]
  /\ SetJob(r, "up")
  /\ UNCHANGED failures
  /\ WorkerUnchanged

(* A step inside the try block raises, or the network has been removed.    *)
(* The cleanup is best-effort and does not know the containers of the step *)
(* that failed, because they were not appended to container_ids.           *)
ProvisionRaises(r) ==
  /\ job[r] \in {"network", "containers"}
  /\ \E left \in SUBSET (res[r] \cup {job[r]}) :
       /\ res' = [res EXCEPT ![r] = left]
       /\ FailIf(left \ {"containers"} # {})
  /\ SetJob(r, "failed")
  /\ WorkerUnchanged

(* Mutant of TeardownWorker: it waits for containers that are gone. *)
TeardownWorker_Waits(r) ==
  /\ job[r] = "down"
  /\ "containers" \in res[r]
  /\ RemoveAll(r, Resources)
  /\ SetJob(r, "none")
  /\ WorkerUnchanged

(* _teardown_sync with all that the row knows. *)
TeardownWorker(r) ==
  /\ job[r] = "down"
  /\ RemoveAll(r, Resources)
  /\ SetJob(r, "none")
  /\ WorkerUnchanged

-----------------------------------------------------------------------------
(* start(): the rows an earlier process left behind, or none if the query  *)
(* fails; the consumer starts after the sweep.                             *)
SweepUnchanged == UNCHANGED <<poolVars, taskVars, job, recorded, cancelled, gcVars>>

(* Mutant of SweepQuery: only sandboxes that were ready are looked for. *)
SweepQuery_ReadyOnly ==
  /\ mode = "starting"
  /\ \/ mode' = "sweeping" /\ orphans' = {r \in Requests : row[r] = "ready"}
        /\ UNCHANGED failures
     \/ mode' = "serving" /\ UNCHANGED orphans /\ Fail
  /\ UNCHANGED <<closing, row, res>>
  /\ SweepUnchanged

SweepQuery ==
  /\ mode = "starting"
  /\ \/ mode' = "sweeping" /\ orphans' = LiveRows /\ UNCHANGED failures
     \/ mode' = "serving" /\ UNCHANGED orphans /\ Fail
  /\ UNCHANGED <<closing, row, res>>
  /\ SweepUnchanged

SweepTeardown(r) ==
  /\ r \in orphans
  /\ closing = {}
  /\ RemoveAll(r, IF recorded[r] THEN Resources ELSE {"network"})
  /\ orphans' = orphans \ {r}
  /\ closing' = {r}
  /\ UNCHANGED <<mode, row>>
  /\ SweepUnchanged

SweepClose(r) ==
  /\ r \in closing
  /\ \/ SetRow(r, "closed") /\ UNCHANGED failures
     \/ Fail /\ UNCHANGED row
  /\ closing' = {}
  /\ UNCHANGED <<mode, orphans, res>>
  /\ SweepUnchanged

SweepDone ==
  /\ mode = "sweeping"
  /\ orphans = {} /\ closing = {}
  /\ mode' = "serving"
  /\ UNCHANGED <<sweepVars, row, res, failures>>
  /\ SweepUnchanged

-----------------------------------------------------------------------------
(* _run_gc reads the database; gc_orphaned_resources then works through    *)
(* containers, networks and volumes with the set it was given.             *)
GcUnchanged == UNCHANGED <<poolVars, mode, taskVars, job, recordVars, cancelled,
                           sweepVars>>

GcSnapshot ==
  /\ mode \in {"serving", "draining", "cancelled"}
  /\ gc = "idle"
  /\ gc' = "containers"
  /\ gcActive' = LiveRows
  /\ UNCHANGED <<gcFound, res, failures>>
  /\ GcUnchanged

GcContainers ==
  /\ gc = "containers"
  /\ gcFound' = {r \in Requests \ gcActive : "containers" \in res[r]}
  /\ Collect(gcFound', "containers")
  /\ gc' = "networks"
  /\ UNCHANGED gcActive
  /\ GcUnchanged

(* Mutant of GcNetworks: networks only of sandboxes with containers. *)
GcNetworks_FoundOnly ==
  /\ gc = "networks"
  /\ Collect({r \in gcFound : "network" \in res[r]}, "network")
  /\ gc' = "volumes"
  /\ UNCHANGED <<gcActive, gcFound>>
  /\ GcUnchanged

GcNetworks ==
  /\ gc = "networks"
  /\ Collect({r \in Requests \ gcActive : "network" \in res[r]}, "network")
  /\ gc' = "volumes"
  /\ UNCHANGED <<gcActive, gcFound>>
  /\ GcUnchanged

GcVolumes ==
  /\ gc = "volumes"
  /\ Collect({r \in gcFound : "volume" \in res[r]}, "volume")
  /\ gc' = "idle"
  /\ gcActive' = {}
  /\ gcFound' = {}
  /\ GcUnchanged

-----------------------------------------------------------------------------
(* SIGTERM: no more messages are taken; main waits for the running tasks.  *)
Stop ==
  /\ mode = "serving"
  /\ crashes < MaxCrashes
  /\ mode' = "draining"
  /\ UNCHANGED <<poolVars, taskVars, job, recordVars, res, cancelled,
                 sweepVars, gcVars, failures>>

(* After 120 s every task gets a CancelledError at its suspension point:   *)
(* only the finally block runs, and nothing of it if it had begun.         *)
DrainTimeout ==
  /\ mode = "draining"
  /\ mode' = "cancelled"
  /\ pc' = [r \in Requests |->
              IF pc[r] \in Setup \cup Serve \cup Failing THEN Finally(r)
              ELSE IF pc[r] \in Teardown THEN "interrupted" ELSE pc[r]]
  /\ UNCHANGED <<poolVars, provisioned, stage, job, recordVars, res, cancelled,
                 sweepVars, gcVars, failures>>

(* The process is killed, or exits after the drain, and is started again.  *)
Restart ==
  /\ PoolCrash
  /\ mode' = "starting"
  /\ pc' = [r \in Requests |-> IF pc[r] = "idle" THEN "idle" ELSE "dead"]
  /\ provisioned' = [r \in Requests |-> FALSE]
  /\ job' = [r \in Requests |-> "none"]
  /\ orphans' = {}
  /\ closing' = {}
  /\ gc' = "idle"
  /\ gcActive' = {}
  /\ gcFound' = {}
  /\ UNCHANGED <<recordVars, res, cancelled, stage, failures>>

TaskStep(r) ==
  \/ Begin(r) \/ Precheck(r) \/ MarkProvisioning(r) \/ Announce(r)
  \/ AwaitProvision(r) \/ ProvisionFailed(r) \/ Unhandled(r) \/ Settle(r)
  \/ PersistReady(r) \/ TellReady(r) \/ WaitForTests(r) \/ TeardownRead(r)
  \/ TeardownDocker(r) \/ TeardownRow(r) \/ TeardownTell(r) \/ Finish(r)

WorkerStep(r) ==
  BuildApp(r) \/ CreateNetwork(r) \/ StartContainers(r) \/ ProvisionRaises(r)
    \/ TeardownWorker(r)

SweepStep ==
  SweepQuery \/ SweepDone \/ \E r \in Requests : SweepTeardown(r) \/ SweepClose(r)

GcStep == GcSnapshot \/ GcContainers \/ GcNetworks \/ GcVolumes

ManagerNext ==
  \/ Feed
  \/ \E r \in Requests :
       \/ CancelRun(r) \/ TaskStep(r) \/ WorkerStep(r)
       \/ CallFails(r) \/ TeardownFails(r)
  \/ SweepStep
  \/ GcStep
  \/ Stop \/ DrainTimeout \/ Restart

ManagerSpec == ManagerInit /\ [][ManagerNext]_vars

(* A drained process exits; it is the restart that the drain allowed for. *)
ExitAfterDrain ==
  /\ mode \in {"draining", "cancelled"}
  /\ \A r \in Requests : pc[r] \notin Running
  /\ Restart

(***************************************************************************)
(* The event loop resumes every ready task, the executor runs every job,   *)
(* waits have timeouts, the garbage collector wakes up again and again.    *)
(***************************************************************************)
FairManagerSpec ==
  /\ ManagerSpec
  /\ \A r \in Requests : WF_vars(TaskStep(r)) /\ WF_vars(WorkerStep(r))
  /\ WF_vars(SweepStep)
  /\ WF_vars(GcStep)
  /\ WF_vars(ExitAfterDrain)

-----------------------------------------------------------------------------
(* Whatever is provisioned, used or announced has a row that the garbage   *)
(* collector and the startup sweep can see: with up-to-date information    *)
(* neither would touch a sandbox that is in use, nor overlook one.         *)
WorkIsVisible ==
  \A r \in Requests :
    \/ job[r] \in {"build", "network", "containers"}
    \/ pc[r] \in {"announce", "provision"} \cup Serve
    => row[r] \in Live

(* A process that serves has a task behind every sandbox that the database *)
(* calls provisioning or ready, if no call has failed: the sweep leaves no *)
(* row of an earlier process, and no task ends and leaves its row live.    *)
LiveRowsHaveTasks ==
  mode = "serving" /\ failures = 0 /\ leaks = 0 =>
    \A r \in LiveRows : pc[r] \in Running

(* A task that announced its sandbox does not end without having published *)
(* 'failed' or 'closed', unless it was cancelled by the drain: the         *)
(* orchestrator hears of the end of every sandbox it heard of.             *)
NoSilentEnd ==
  mode # "cancelled" /\ failures = 0 /\ leaks = 0 =>
    \A r \in Requests :
      pc[r] = "ended" => stage[r] \in {"none", "failed", "closed"}

(* A sandbox that was ready is gone from Docker when its task has ended    *)
(* and its slot is free, if no call has failed.                            *)
CleanEnd ==
  failures = 0 /\ leaks = 0 =>
    \A r \in Requests : pc[r] = "ended" /\ recorded[r] => res[r] = {}

Contract == INSTANCE SandboxContract WITH addressable <- recorded

(* The events of every sandbox appear in an order the contract allows, and *)
(* 'ready' only after the row holds what teardown and readers need, also   *)
(* across crashes, drains and failed calls.                                *)
ImplementsContract == Contract!ContractSpec

(* Every task that has begun comes to an end. *)
SandboxesEnd ==
  \A r \in Requests : pc[r] \in Running ~> pc[r] \in {"ended", "dead"}

(* No container and no network stays for ever, whatever the moment of a    *)
(* crash or of a cancellation: teardown, sweep or collector removes it.    *)
ResourcesReclaimed ==
  \A r \in Requests, kind \in {"containers", "network"} :
    kind \in res[r] ~> kind \notin res[r]

(* The log line of the post-provision check, "cancelled after provisioning *)
(* - tearing down": a task that provisioned its sandbox and ended has      *)
(* removed its containers, if no call has failed.                          *)
CancelledTornDown ==
  failures = 0 /\ leaks = 0 =>
    \A r \in Requests : pc[r] = "ended" /\ provisioned[r] => res[r] = {}

(* gc_orphaned_resources removes what is not "currently provisioning or    *)
(* ready according to the DB": a sandbox that waits for its tests keeps    *)
(* its network and its containers, if no call has failed.                  *)
ReadySandboxIntact ==
  failures = 0 =>
    \A r \in Requests :
      pc[r] \in {"tell_ready", "wait"} => {"network", "containers"} \subseteq res[r]
=============================================================================
