------------------------ MODULE SandboxManager_proofs ------------------------
(***************************************************************************)
(* Proofs about SandboxManager, for every set of requests, every capacity  *)
(* and every bound on crashes and failures:                                *)
(*                                                                         *)
(*   - it implements the slot pool, so that what SandboxPool_proofs shows  *)
(*     of the pool holds of the whole sandbox-manager;                     *)
(*   - sandboxes that are provisioned or in use are visible in the database*)
(*     to the sweep and the garbage collector (WorkIsVisible);             *)
(*   - it implements SandboxContract, on which RunLifecycle relies.        *)
(*                                                                         *)
(* The invariant behind the last two ties the place where a task is        *)
(* suspended to its row, to the worker thread that acts for it and to the  *)
(* last event it published (TaskInv), and says that the sweep never runs   *)
(* beside tasks or workers (SweepInv).                                     *)
(***************************************************************************)
EXTENDS SandboxManager, SandboxPool_proofs

(* A step of the manager is a step of the pool or leaves the pool alone.   *)
LEMMA NextIsPoolNext == [ManagerNext]_vars => [PoolNext]_poolVars
<1>. SUFFICES ASSUME [ManagerNext]_vars PROVE [PoolNext]_poolVars
  OBVIOUS
<1>1. ASSUME Feed PROVE [PoolNext]_poolVars
  BY <1>1 DEF Feed, PoolNext
<1>2. ASSUME NEW r \in Requests, CancelRun(r) PROVE [PoolNext]_poolVars
  BY <1>2 DEF CancelRun
<1>3. ASSUME NEW r \in Requests, TaskStep(r) PROVE [PoolNext]_poolVars
  <2>1. CASE Begin(r)
    BY <2>1 DEF Begin, PoolNext
  <2>2. CASE Finish(r)
    BY <2>2 DEF Finish, PoolNext
  <2>3. CASE Precheck(r) \/ Settle(r) \/ TeardownRead(r)
    BY <2>3 DEF Precheck, Settle, TeardownRead
  <2>4. CASE \/ MarkProvisioning(r) \/ Announce(r) \/ AwaitProvision(r)
             \/ ProvisionFailed(r) \/ Unhandled(r) \/ PersistReady(r)
             \/ TellReady(r) \/ WaitForTests(r) \/ TeardownDocker(r)
             \/ TeardownRow(r) \/ TeardownTell(r)
    BY <2>4
    DEF MarkProvisioning, Announce, AwaitProvision, ProvisionFailed, Unhandled,
        WriteFailure, TellFailure, PersistReady, TellReady, WaitForTests,
        TeardownDocker, TeardownRow, TeardownTell, Step
  <2>. QED
    BY <1>3, <2>1, <2>2, <2>3, <2>4 DEF TaskStep
<1>4. ASSUME NEW r \in Requests, WorkerStep(r) PROVE [PoolNext]_poolVars
  BY <1>4 DEF WorkerStep, BuildApp, CreateNetwork, StartContainers,
              ProvisionRaises, TeardownWorker, WorkerUnchanged
<1>5. ASSUME NEW r \in Requests, CallFails(r) \/ TeardownFails(r)
      PROVE [PoolNext]_poolVars
  BY <1>5 DEF CallFails, TeardownFails, PoolNext
<1>6. ASSUME SweepStep PROVE [PoolNext]_poolVars
  BY <1>6 DEF SweepStep, SweepQuery, SweepDone, SweepTeardown, SweepClose,
              SweepUnchanged
<1>7. ASSUME GcStep PROVE [PoolNext]_poolVars
  BY <1>7 DEF GcStep, GcSnapshot, GcContainers, GcNetworks, GcVolumes, GcUnchanged
<1>8. ASSUME Stop \/ DrainTimeout \/ Restart PROVE [PoolNext]_poolVars
  BY <1>8 DEF Stop, DrainTimeout, Restart, PoolNext
<1>9. CASE UNCHANGED vars
  BY <1>9 DEF vars
<1>. QED
  BY <1>1, <1>2, <1>3, <1>4, <1>5, <1>6, <1>7, <1>8, <1>9 DEF ManagerNext

(* The sandbox-manager, whatever its tasks, workers, sweep, collector and  *)
(* drain do, uses the pool as SandboxPool says.                            *)
THEOREM ManagerImplementsPool == ManagerSpec => PoolSpec
<1>1. ManagerInit => PoolInit
  BY DEF ManagerInit
<1>. QED
  BY <1>1, NextIsPoolNext, PTL DEF ManagerSpec, PoolSpec

(* So no sandbox is provisioned beyond the cap, in any run of the process  *)
(* with its failures, drains and restarts.                                 *)
THEOREM ManagerRespectsCap == ManagerSpec => []CapRespected
BY ManagerImplementsPool, CapAlwaysRespected, PTL

-----------------------------------------------------------------------------
(* Where the task of a sandbox is suspended determines which event was the *)
(* last, whether the row holds the container ids, and who acts for it.     *)
TaskInv(r) ==
  /\ task[r] \in {"none", "created"} => pc[r] = "idle"
  /\ pc[r] \in {"idle", "precheck", "mark", "announce"} => stage[r] = "none"
  /\ pc[r] \in {"provision", "fail_row", "tell_fail", "settle", "persist"}
       => stage[r] = "provisioning"
  /\ pc[r] \in {"idle", "precheck", "mark", "announce", "provision", "settle", "persist"}
       => ~recorded[r]
  /\ pc[r] = "tell_ready" => stage[r] = "provisioning" /\ recorded[r]
  /\ pc[r] = "wait" => stage[r] = "ready"
  /\ pc[r] \in Failing => stage[r] \in {"none", "provisioning", "ready"}
  /\ pc[r] \in Failing /\ provisioned[r] => stage[r] # "none"
  /\ pc[r] \in Teardown => stage[r] \in {"provisioning", "ready", "failed"}
  /\ pc[r] \in {"idle"} \cup Setup => ~provisioned[r]
  /\ pc[r] \in Serve => provisioned[r]
  /\ pc[r] \in {"announce", "provision"} => row[r] = "provisioning"
  /\ pc[r] \in Serve => row[r] \in Live
  /\ job[r] \in {"build", "network", "containers", "up", "failed"}
       => pc[r] \in {"provision", "release", "ended"} /\ row[r] = "provisioning"

(* The sweep is over before a task or a worker starts.                     *)
SweepInv ==
  /\ mode \in {"starting", "sweeping"} =>
       \A r \in Requests : pc[r] \notin Running /\ job[r] = "none"
  /\ mode # "sweeping" => orphans = {} /\ closing = {}

(* The variables that ManagerTypeOK adds to those of the pool.             *)
OwnTypeOK ==
  /\ mode \in Mode
  /\ pc \in [Requests -> PC]
  /\ provisioned \in [Requests -> BOOLEAN]
  /\ job \in [Requests -> Job]
  /\ row \in [Requests -> Live \cup {"none", "failed", "closed"}]
  /\ recorded \in [Requests -> BOOLEAN]
  /\ stage \in [Requests -> Live \cup {"none", "failed", "closed"}]
  /\ orphans \subseteq Requests
  /\ closing \subseteq Requests

ManagerInv ==
  /\ PoolInv
  /\ OwnTypeOK
  /\ SweepInv
  /\ \A r \in Requests : TaskInv(r)

LEMMA ManagerInitInv == ManagerInit => ManagerInv
<1>. SUFFICES ASSUME ManagerInit PROVE ManagerInv
  OBVIOUS
<1>1. PoolInv
  BY PoolInitInv DEF ManagerInit
<1>2. OwnTypeOK
  BY DEF ManagerInit, OwnTypeOK, Mode, PC, Job, Live
<1>3. SweepInv
  BY DEF ManagerInit, SweepInv, Running, Setup, Serve, Failing, Teardown
<1>4. \A r \in Requests : TaskInv(r)
  BY DEF ManagerInit, TaskInv, Setup, Serve, Failing, Teardown, PoolInit
<1>. QED
  BY <1>1, <1>2, <1>3, <1>4 DEF ManagerInv

(* What a step has to preserve beside the invariant of the pool.           *)
OwnInv == OwnTypeOK /\ SweepInv /\ \A r \in Requests : TaskInv(r)

(* One step of the task of a sandbox, or of a call it makes that fails.    *)
LEMMA TaskStepInv ==
  ASSUME PoolInv, PoolInv', OwnInv, NEW r \in Requests,
         TaskStep(r) \/ CallFails(r) \/ TeardownFails(r)
  PROVE  OwnInv'
<1>. USE DEF OwnInv, OwnTypeOK, SweepInv, TaskInv, PC, Job, Live, Mode, Running, Setup, Serve, Failing, Teardown, poolVars, sweepVars, recordVars, PoolInv, PoolTypeOK, TaskState
<1>1. ASSUME MarkProvisioning(r) PROVE OwnInv'
  BY <1>1 DEF MarkProvisioning, Step, Goto, SetRow
<1>2. ASSUME Announce(r) PROVE OwnInv'
  <2>1. OwnTypeOK' /\ SweepInv'
    BY <1>2 DEF Announce, Step, Goto, Emit
  <2>2. TaskInv(r)'
    BY <1>2 DEF Announce, Step, Goto, Emit
  <2>3. ASSUME NEW q \in Requests \ {r} PROVE TaskInv(q)'
    BY <1>2, <2>3 DEF Announce, Step, Goto, Emit
  <2>. QED
    BY <2>1, <2>2, <2>3
<1>3. ASSUME AwaitProvision(r) PROVE OwnInv'
  <2>1. OwnTypeOK' /\ SweepInv'
    BY <1>3 DEF AwaitProvision, Step, Goto
  <2>2. TaskInv(r)'
    BY <1>3 DEF AwaitProvision, Step, Goto
  <2>3. ASSUME NEW q \in Requests \ {r} PROVE TaskInv(q)'
    BY <1>3, <2>3 DEF AwaitProvision, Step, Goto
  <2>. QED
    BY <2>1, <2>2, <2>3
<1>4. ASSUME ProvisionFailed(r) PROVE OwnInv'
  BY <1>4 DEF ProvisionFailed, WriteFailure, TellFailure, Step, Goto, SetRow, Emit
<1>5. ASSUME Unhandled(r) PROVE OwnInv'
  BY <1>5 DEF Unhandled, WriteFailure, TellFailure, Step, Goto, SetRow, Emit, Finally
<1>6. ASSUME PersistReady(r) PROVE OwnInv'
  BY <1>6 DEF PersistReady, Step, Goto, SetRow
<1>7. ASSUME TellReady(r) PROVE OwnInv'
  BY <1>7 DEF TellReady, Step, Goto, Emit
<1>8. ASSUME WaitForTests(r) PROVE OwnInv'
  BY <1>8 DEF WaitForTests, Step, Goto
<1>9. ASSUME TeardownDocker(r) PROVE OwnInv'
  BY <1>9 DEF TeardownDocker, Step, Goto
<1>10. ASSUME TeardownRow(r) PROVE OwnInv'
  BY <1>10 DEF TeardownRow, Step, Goto, SetRow
<1>11. ASSUME TeardownTell(r) PROVE OwnInv'
  BY <1>11 DEF TeardownTell, Step, Goto, Emit
<1>12. ASSUME Precheck(r) PROVE OwnInv'
  BY <1>12 DEF Precheck, IsRunCancelled, Goto
<1>13. ASSUME Settle(r) PROVE OwnInv'
  BY <1>13 DEF Settle, IsRunCancelled, Goto
<1>14. ASSUME TeardownRead(r) PROVE OwnInv'
  BY <1>14 DEF TeardownRead, Goto
<1>15. ASSUME CallFails(r) PROVE OwnInv'
  BY <1>15 DEF CallFails, Goto, Finally
<1>16. ASSUME TeardownFails(r) PROVE OwnInv'
  BY <1>16 DEF TeardownFails, Goto, Leak
<1>17. ASSUME Begin(r) PROVE OwnInv'
  BY <1>17 DEF Begin, Acquire, Goto
<1>18. ASSUME Finish(r) PROVE OwnInv'
  BY <1>18 DEF Finish, Release, Goto
<1>. QED
  BY <1>1, <1>2, <1>3, <1>4, <1>5, <1>6, <1>7, <1>8, <1>9, <1>10, <1>11, <1>12, <1>13, <1>14, <1>15, <1>16, <1>17, <1>18 DEF TaskStep

(* One step of a worker thread: only job and the resources change.         *)
LEMMA WorkerStepInv ==
  ASSUME PoolInv, PoolInv', OwnInv, NEW r \in Requests, WorkerStep(r)
  PROVE  OwnInv'
<1>. USE DEF OwnInv, OwnTypeOK, SweepInv, TaskInv, Job, PC, WorkerUnchanged, poolVars,
             taskVars, recordVars, sweepVars, SetJob, Running, Setup
<1>1. ASSUME BuildApp(r) PROVE OwnInv'
  BY <1>1 DEF BuildApp
<1>2. ASSUME CreateNetwork(r) PROVE OwnInv'
  BY <1>2 DEF CreateNetwork
<1>3. ASSUME StartContainers(r) PROVE OwnInv'
  BY <1>3 DEF StartContainers
<1>4. ASSUME ProvisionRaises(r) PROVE OwnInv'
  BY <1>4 DEF ProvisionRaises
<1>5. ASSUME TeardownWorker(r) PROVE OwnInv'
  BY <1>5 DEF TeardownWorker
<1>. QED
  BY <1>1, <1>2, <1>3, <1>4, <1>5 DEF WorkerStep

(* One step of the startup sweep: it closes rows, and nothing else runs.   *)
LEMMA SweepStepInv ==
  ASSUME PoolInv, PoolInv', OwnInv, SweepStep
  PROVE  OwnInv'
<1>. USE DEF OwnInv, OwnTypeOK, SweepInv, TaskInv, SweepUnchanged, poolVars,
             taskVars, sweepVars, Mode, Running, Setup, Serve, Failing, Teardown
<1>1. ASSUME SweepQuery PROVE OwnInv'
  BY <1>1 DEF SweepQuery, LiveRows
<1>2. ASSUME NEW r \in Requests, SweepTeardown(r) PROVE OwnInv'
  BY <1>2 DEF SweepTeardown
<1>3. ASSUME NEW r \in Requests, SweepClose(r) PROVE OwnInv'
  BY <1>3 DEF SweepClose, SetRow
<1>4. ASSUME SweepDone PROVE OwnInv'
  BY <1>4 DEF SweepDone
<1>. QED
  BY <1>1, <1>2, <1>3, <1>4 DEF SweepStep

(* The other steps, the drain and the restart among them.                  *)
LEMMA OtherStepInv ==
  ASSUME PoolInv, PoolInv', OwnInv,
         \/ Feed
         \/ \E r \in Requests : CancelRun(r)
         \/ GcStep
         \/ Stop \/ DrainTimeout \/ Restart
         \/ UNCHANGED vars
  PROVE  OwnInv'
<1>. USE DEF OwnInv, OwnTypeOK, SweepInv, TaskInv, taskVars, recordVars, sweepVars
<1>1. ASSUME Feed PROVE OwnInv'
  <2>1. \A q \in Requests :
          task'[q] \in {"none", "created"} => task[q] \in {"none", "created"}
    BY <1>1
    DEF Feed, Submit, Expire, Prefetch, Deliver, WaitForSlot, Ack, Spawn, PoolInv,
        PoolTypeOK, TaskState, NoDuplicateDelivery, InHand
  <2>. QED
    BY <1>1, <2>1 DEF Feed, managerVars
<1>2. ASSUME NEW r \in Requests, CancelRun(r) PROVE OwnInv'
  BY <1>2 DEF CancelRun, poolVars
<1>3. ASSUME GcStep PROVE OwnInv'
  BY <1>3 DEF GcStep, GcSnapshot, GcContainers, GcNetworks, GcVolumes, GcUnchanged, poolVars
<1>4. ASSUME Stop PROVE OwnInv'
  BY <1>4 DEF Stop, poolVars, Mode
<1>5. ASSUME DrainTimeout PROVE OwnInv'
  BY <1>5 DEF DrainTimeout, poolVars, Mode, PC, Running, Setup, Serve, Failing, Teardown, Finally
<1>6. ASSUME Restart PROVE OwnInv'
  BY <1>6 DEF Restart, PoolCrash, Mode, PC, Job, Running, Setup, Serve, Failing, Teardown, PoolInv, PoolTypeOK
<1>7. CASE UNCHANGED vars
  BY <1>7 DEF vars, managerVars, poolVars
<1>. QED
  BY <1>1, <1>2, <1>3, <1>4, <1>5, <1>6, <1>7

LEMMA ManagerNextInv == ManagerInv /\ [ManagerNext]_vars => ManagerInv'
<1>. SUFFICES ASSUME ManagerInv, [ManagerNext]_vars PROVE ManagerInv'
  OBVIOUS
<1>1. PoolInv'
  BY NextIsPoolNext, PoolNextInv DEF ManagerInv
<1>2. OwnInv
  BY DEF ManagerInv, OwnInv
<1>3. OwnInv'
  BY <1>1, <1>2, TaskStepInv, WorkerStepInv, SweepStepInv, OtherStepInv
  DEF ManagerNext, ManagerInv
<1>. QED
  BY <1>1, <1>3 DEF ManagerInv, OwnInv

LEMMA ManagerInvariance == ManagerSpec => []ManagerInv
BY ManagerInitInv, ManagerNextInv, PTL DEF ManagerSpec

(* Whatever is provisioned, used or announced is visible in the database   *)
(* to the startup sweep and to the garbage collector.                      *)
THEOREM WorkAlwaysVisible == ManagerSpec => []WorkIsVisible
<1>1. ManagerInv => WorkIsVisible
  BY DEF ManagerInv, TaskInv, WorkIsVisible, Live
<1>. QED
  BY <1>1, ManagerInvariance, PTL

-----------------------------------------------------------------------------
(* Every step of the manager is a step of the contract or leaves the last  *)
(* event and the presence of the container ids alone.                      *)
LEMMA NextIsContractNext ==
  ManagerInv /\ [ManagerNext]_vars
    => [Contract!ContractNext]_(Contract!contractVars)
<1>. SUFFICES ASSUME ManagerInv, [ManagerNext]_vars
              PROVE  [Contract!ContractNext]_(Contract!contractVars)
  OBVIOUS
<1>. USE DEF Contract!contractVars
<1>1. ASSUME NEW r \in Requests, TaskStep(r)
      PROVE  [Contract!ContractNext]_(Contract!contractVars)
  <2>. TaskInv(r) /\ stage \in [Requests -> Contract!Stage]
    BY DEF ManagerInv, OwnTypeOK, Contract!Stage, Live
  <2>1. CASE PersistReady(r)
    BY <2>1 DEF PersistReady, Step, TaskInv, Contract!ContractNext, Contract!Record
  <2>2. ASSUME NEW s \in {"provisioning", "ready", "failed", "closed"},
               s \in Contract!Successors[stage[r]],
               s = "ready" => recorded[r],
               Emit(r, s), UNCHANGED recorded
        PROVE  Contract!ContractNext
    BY <2>2 DEF Emit, Contract!ContractNext, Contract!Publish
  <2>3. CASE Announce(r)
    BY <2>2, <2>3 DEF Announce, Step, TaskInv, Contract!Successors, Contract!Stage, recordVars
  <2>4. CASE TellReady(r)
    BY <2>2, <2>4 DEF TellReady, Step, TaskInv, Contract!Successors, Contract!Stage, recordVars
  <2>5. CASE TeardownTell(r)
    BY <2>2, <2>5 DEF TeardownTell, Step, TaskInv, Contract!Successors, Contract!Stage, recordVars, Teardown
  <2>6. CASE ProvisionFailed(r) \/ Unhandled(r)
    BY <2>2, <2>6
    DEF ProvisionFailed, Unhandled, WriteFailure, TellFailure, Step, TaskInv,
        Contract!Successors, Contract!Stage, recordVars, Failing
  <2>7. CASE \/ Begin(r) \/ Precheck(r) \/ MarkProvisioning(r)
             \/ AwaitProvision(r) \/ Settle(r) \/ WaitForTests(r)
             \/ TeardownRead(r) \/ TeardownDocker(r) \/ TeardownRow(r) \/ Finish(r)
    BY <2>7
    DEF Begin, Precheck, MarkProvisioning, AwaitProvision, Settle, WaitForTests,
        TeardownRead, TeardownDocker, TeardownRow, Finish, Step, recordVars
  <2>. QED
    BY <1>1, <2>1, <2>3, <2>4, <2>5, <2>6, <2>7 DEF TaskStep
<1>2. ASSUME NEW r \in Requests, \/ CancelRun(r) \/ WorkerStep(r)
                                 \/ CallFails(r) \/ TeardownFails(r)
      PROVE  UNCHANGED <<stage, recorded>>
  BY <1>2 DEF CancelRun, WorkerStep, BuildApp, CreateNetwork, StartContainers,
              ProvisionRaises, TeardownWorker, WorkerUnchanged, CallFails,
              TeardownFails, taskVars, recordVars
<1>3. ASSUME \/ Feed \/ SweepStep \/ GcStep \/ Stop \/ DrainTimeout \/ Restart
             \/ UNCHANGED vars
      PROVE  UNCHANGED <<stage, recorded>>
  BY <1>3 DEF Feed, SweepStep, SweepQuery, SweepTeardown, SweepClose, SweepDone,
              SweepUnchanged, GcStep, GcSnapshot, GcContainers, GcNetworks,
              GcVolumes, GcUnchanged, Stop, DrainTimeout, Restart, vars,
              managerVars, taskVars, recordVars
<1>. QED
  BY <1>1, <1>2, <1>3 DEF ManagerNext

(* The events of every sandbox keep to the contract, whatever fails and    *)
(* whenever the process dies: RunLifecycle may rely on it.                 *)
THEOREM ManagerImplementsContract == ManagerSpec => ImplementsContract
<1>1. ManagerInit => Contract!ContractInit
  BY DEF ManagerInit, Contract!ContractInit
<1>. QED
  BY <1>1, NextIsContractNext, ManagerInvariance, PTL
  DEF ManagerSpec, ImplementsContract, Contract!ContractSpec

-----------------------------------------------------------------------------
(* The types of the variables that ManagerInv says nothing about.          *)
LEMMA ManagerTypesNext ==
  ManagerTypeOK /\ ManagerInv /\ ManagerInv' /\ [ManagerNext]_vars
    => ManagerTypeOK'
<1>. SUFFICES ASSUME ManagerTypeOK, ManagerInv, ManagerInv', [ManagerNext]_vars
              PROVE  ManagerTypeOK'
  OBVIOUS
<1>. DEFINE T ==
       /\ res \in [Requests -> SUBSET Resources]
       /\ cancelled \in [Requests -> BOOLEAN]
       /\ gc \in {"idle", "containers", "networks", "volumes"}
       /\ gcActive \subseteq Requests
       /\ gcFound \subseteq Requests
       /\ failures \in 0..MaxFailures
<1>. USE ManagerAssumption
<1>0. T
  BY DEF ManagerTypeOK
<1>f. Fail \/ UNCHANGED failures => failures' \in 0..MaxFailures
  BY <1>0 DEF Fail
<1>1. ASSUME NEW r \in Requests, TaskStep(r) PROVE T'
  <2>1. Fail \/ UNCHANGED failures
    BY <1>1
    DEF TaskStep, Begin, Precheck, MarkProvisioning, Announce, AwaitProvision,
        ProvisionFailed, Unhandled, WriteFailure, TellFailure, Settle, PersistReady,
        TellReady, WaitForTests, TeardownRead, TeardownDocker, TeardownRow,
        TeardownTell, Finish, IsRunCancelled
  <2>2. UNCHANGED <<res, cancelled, gc, gcActive, gcFound>>
    BY <1>1
    DEF TaskStep, Begin, Precheck, MarkProvisioning, Announce, AwaitProvision,
        ProvisionFailed, Unhandled, WriteFailure, TellFailure, Settle, PersistReady,
        TellReady, WaitForTests, TeardownRead, TeardownDocker, TeardownRow,
        TeardownTell, Finish, Step, gcVars
  <2>. QED
    BY <1>0, <1>f, <2>1, <2>2
<1>2. ASSUME NEW r \in Requests, CallFails(r) \/ TeardownFails(r) PROVE T'
  BY <1>0, <1>f, <1>2 DEF CallFails, TeardownFails, gcVars
<1>3. ASSUME NEW r \in Requests, WorkerStep(r) PROVE T'
  <2>1. Fail \/ UNCHANGED failures
    BY <1>3 DEF WorkerStep, BuildApp, CreateNetwork, StartContainers,
                ProvisionRaises, TeardownWorker, RemoveAll, FailIf
  <2>2. UNCHANGED <<cancelled, gc, gcActive, gcFound>>
    BY <1>3 DEF WorkerStep, BuildApp, CreateNetwork, StartContainers,
                ProvisionRaises, TeardownWorker, WorkerUnchanged, gcVars
  <2>3. res' \in [Requests -> SUBSET Resources]
    <3>1. CASE BuildApp(r) \/ CreateNetwork(r) \/ StartContainers(r)
      BY <1>0, <3>1 DEF BuildApp, CreateNetwork, StartContainers, Resources
    <3>2. CASE ProvisionRaises(r)
      BY <1>0, <3>2 DEF ProvisionRaises, Resources
    <3>3. CASE TeardownWorker(r)
      BY <1>0, <3>3 DEF TeardownWorker, RemoveAll
    <3>. QED
      BY <1>3, <3>1, <3>2, <3>3 DEF WorkerStep
  <2>. QED
    BY <1>0, <1>f, <2>1, <2>2, <2>3
<1>4. ASSUME SweepStep PROVE T'
  BY <1>0, <1>f, <1>4
  DEF SweepStep, SweepQuery, SweepDone, SweepTeardown, SweepClose, SweepUnchanged,
      RemoveAll, FailIf, gcVars
<1>5. ASSUME GcStep PROVE T'
  <2>1. CASE GcSnapshot
    BY <1>0, <2>1 DEF GcSnapshot, GcUnchanged, LiveRows
  <2>2. ASSUME NEW rs \in SUBSET Requests, NEW kind, Collect(rs, kind)
        PROVE  /\ res' \in [Requests -> SUBSET Resources]
               /\ failures' \in 0..MaxFailures
    BY <1>0, <1>f, <2>2 DEF Collect, FailIf
  <2>3. CASE GcContainers
    BY <1>0, <2>2, <2>3 DEF GcContainers, GcUnchanged
  <2>4. CASE GcNetworks
    BY <1>0, <2>2, <2>4 DEF GcNetworks, GcUnchanged
  <2>5. CASE GcVolumes
    <3>1. {q \in gcFound : "volume" \in res[q]} \in SUBSET Requests
      BY <1>0
    <3>. QED
      BY <1>0, <2>2, <2>5, <3>1 DEF GcVolumes, GcUnchanged
  <2>. QED
    BY <1>5, <2>1, <2>3, <2>4, <2>5 DEF GcStep
<1>6. ASSUME \/ Feed \/ Stop \/ DrainTimeout \/ Restart \/ UNCHANGED vars
             \/ \E r \in Requests : CancelRun(r)
      PROVE  T'
  BY <1>0, <1>6 DEF Feed, Stop, DrainTimeout, Restart, CancelRun, vars, managerVars,
                    gcVars
<1>7. T'
  BY <1>1, <1>2, <1>3, <1>4, <1>5, <1>6 DEF ManagerNext
<1>. QED
  BY <1>7 DEF ManagerTypeOK, ManagerInv, PoolInv, OwnTypeOK

(* Every variable of the sandbox-manager keeps its type.                   *)
THEOREM ManagerTypesKept == ManagerSpec => []ManagerTypeOK
<1>1. ManagerInit => ManagerTypeOK
  BY ManagerInitInv, ManagerAssumption
  DEF ManagerInit, ManagerTypeOK, ManagerInv, PoolInv, OwnTypeOK
<1>. QED
  BY <1>1, ManagerTypesNext, ManagerInvariance, PTL DEF ManagerSpec

-----------------------------------------------------------------------------
(* No call has failed and no task was cut short by the drain.              *)
Undisturbed == failures = 0 /\ leaks = 0 /\ mode # "cancelled"

(* How a task that nothing disturbs leaves its row and its last event; and *)
(* a live row that no task stands behind is one the sweep has still to     *)
(* close.                                                                  *)
EndInv(r) ==
  /\ pc[r] \in {"idle", "precheck", "mark"} => row[r] \notin Live
  /\ Undisturbed =>
       /\ pc[r] \in {"release", "ended"} => stage[r] \in {"none", "failed", "closed"}
       /\ pc[r] \in {"tell_fail", "tell_error", "td_tell", "release", "ended"}
            => row[r] \notin Live
       /\ mode \in {"serving", "draining"} /\ row[r] \in Live => pc[r] \in Running
       /\ mode = "sweeping" /\ row[r] \in Live => r \in orphans \cup closing

(* The sweep closes the row it has torn down before it takes the next.     *)
SweepOne == \A q, r \in closing : q = r

EndsInv == SweepOne /\ \A r \in Requests : EndInv(r)

LEMMA EndsInitInv == ManagerInit => EndsInv
BY DEF ManagerInit, EndsInv, EndInv, SweepOne, Undisturbed, Live

(* A step that changes neither a row nor an event nor where a task is, and *)
(* disturbs nothing that was not disturbed, preserves it.                  *)
LEMMA EndsIdleStep ==
  ASSUME EndsInv,
         UNCHANGED <<mode, pc, row, stage, orphans, closing>>,
         failures' = 0 => failures = 0,
         leaks' = 0 => leaks = 0
  PROVE  EndsInv'
BY DEF EndsInv, EndInv, SweepOne, Undisturbed

(* The numbers of failed calls and of leaked slots only grow.              *)
LEMMA FaultsGrow ==
  ManagerTypeOK /\ [ManagerNext]_vars
    => (failures' = 0 => failures = 0) /\ (leaks' = 0 => leaks = 0)
<1>. SUFFICES ASSUME ManagerTypeOK, [ManagerNext]_vars
              PROVE  (failures' = 0 => failures = 0) /\ (leaks' = 0 => leaks = 0)
  OBVIOUS
<1>1. failures \in Nat /\ leaks \in Nat
  BY ManagerAssumption, PoolAssumption DEF ManagerTypeOK, PoolTypeOK
<1>2. [PoolNext]_poolVars => leaks' = leaks \/ leaks' = leaks + 1
  BY DEF PoolNext, poolVars, poolFaults, Submit, Expire, Prefetch, Deliver,
         WaitForSlot, Ack, Spawn, Acquire, Release, Leak, PoolCrash
<1>3. Fail \/ UNCHANGED failures
  <2>1. ASSUME NEW r \in Requests, TaskStep(r) PROVE Fail \/ UNCHANGED failures
    BY <2>1
    DEF TaskStep, Begin, Precheck, MarkProvisioning, Announce, AwaitProvision,
        ProvisionFailed, Unhandled, WriteFailure, TellFailure, Settle, PersistReady,
        TellReady, WaitForTests, TeardownRead, TeardownDocker, TeardownRow,
        TeardownTell, Finish, IsRunCancelled
  <2>2. ASSUME NEW r \in Requests, WorkerStep(r) PROVE Fail \/ UNCHANGED failures
    BY <2>2 DEF WorkerStep, BuildApp, CreateNetwork, StartContainers,
                ProvisionRaises, TeardownWorker, RemoveAll, FailIf
  <2>3. ASSUME NEW r \in Requests, CancelRun(r) \/ CallFails(r) \/ TeardownFails(r)
        PROVE  Fail \/ UNCHANGED failures
    BY <2>3 DEF CancelRun, CallFails, TeardownFails
  <2>4. ASSUME SweepStep \/ GcStep PROVE Fail \/ UNCHANGED failures
    BY <2>4 DEF SweepStep, SweepQuery, SweepDone, SweepTeardown, SweepClose,
                GcStep, GcSnapshot, GcContainers, GcNetworks, GcVolumes, Collect,
                RemoveAll, FailIf
  <2>5. ASSUME Feed \/ Stop \/ DrainTimeout \/ Restart \/ UNCHANGED vars
        PROVE  Fail \/ UNCHANGED failures
    BY <2>5 DEF Feed, Stop, DrainTimeout, Restart, vars, managerVars
  <2>. QED
    BY <2>1, <2>2, <2>3, <2>4, <2>5 DEF ManagerNext
<1>. QED
  BY <1>1, <1>2, <1>3, NextIsPoolNext DEF Fail

LEMMA EndsNextInv ==
  EndsInv /\ ManagerInv /\ ManagerTypeOK /\ [ManagerNext]_vars => EndsInv'
<1>. SUFFICES ASSUME EndsInv, ManagerInv, ManagerTypeOK, [ManagerNext]_vars
              PROVE  EndsInv'
  OBVIOUS
<1>0. (failures' = 0 => failures = 0) /\ (leaks' = 0 => leaks = 0)
  BY FaultsGrow
<1>t. /\ failures \in Nat /\ leaks \in Nat
      /\ pc \in [Requests -> PC]
      /\ row \in [Requests -> Live \cup {"none", "failed", "closed"}]
      /\ stage \in [Requests -> Live \cup {"none", "failed", "closed"}]
      /\ \A q \in Requests : TaskInv(q)
      /\ SweepInv
  BY ManagerAssumption, PoolAssumption
  DEF ManagerTypeOK, PoolTypeOK, ManagerInv, OwnTypeOK
<1>1. ASSUME NEW r \in Requests, TaskStep(r) PROVE EndsInv'
  <2>1. UNCHANGED <<mode, orphans, closing>>
    BY <1>1
    DEF TaskStep, Begin, Precheck, MarkProvisioning, Announce, AwaitProvision,
        ProvisionFailed, Unhandled, WriteFailure, TellFailure, Settle, PersistReady,
        TellReady, WaitForTests, TeardownRead, TeardownDocker, TeardownRow,
        TeardownTell, Finish, Step, sweepVars
  <2>2. ASSUME NEW q \in Requests \ {r} PROVE UNCHANGED <<pc[q], row[q], stage[q]>>
    BY <1>1, <1>t
    DEF TaskStep, Begin, Precheck, MarkProvisioning, Announce, AwaitProvision,
        ProvisionFailed, Unhandled, WriteFailure, TellFailure, Settle, PersistReady,
        TellReady, WaitForTests, TeardownRead, TeardownDocker, TeardownRow,
        TeardownTell, Finish, Step, Goto, SetRow, Emit, IsRunCancelled, recordVars
  <2>3. mode \notin {"starting", "sweeping"}
    <3>1. CASE Begin(r)
      BY <3>1 DEF Begin
    <3>2. CASE ~Begin(r)
      <4>1. pc[r] \in Running
        BY <1>1, <3>2
        DEF TaskStep, Precheck, MarkProvisioning, Announce, AwaitProvision,
            ProvisionFailed, Unhandled, WriteFailure, TellFailure, Settle,
            PersistReady, TellReady, WaitForTests, TeardownRead, TeardownDocker,
            TeardownRow, TeardownTell, Finish, Step, Running, Setup, Serve, Failing,
            Teardown
      <4>. QED
        BY <4>1, <1>t DEF SweepInv
    <3>. QED
      BY <3>1, <3>2
  <2>4. EndInv(r)'
    <3>. USE DEF EndInv, Undisturbed, Live, Running, Setup, Serve, Failing, Teardown
    <3>0. EndInv(r) /\ TaskInv(r)
      BY <1>t DEF EndsInv
    <3>1. CASE Begin(r)
      BY <1>0, <1>t, <2>1, <3>0, <3>1 DEF Begin, Acquire, Goto, recordVars, TaskInv
    <3>2. CASE Precheck(r) \/ Settle(r)
      BY <1>0, <1>t, <2>1, <3>0, <3>2
      DEF Precheck, Settle, IsRunCancelled, Goto, recordVars, TaskInv
    <3>3. CASE MarkProvisioning(r)
      BY <1>t, <2>1, <2>3, <3>0, <3>3 DEF MarkProvisioning, Step, Goto, SetRow
    <3>9. CASE Announce(r)
      BY <1>0, <1>t, <2>1, <3>0, <3>9 DEF Announce, Step, Goto, recordVars, TaskInv
    <3>10. CASE AwaitProvision(r)
      BY <1>0, <1>t, <2>1, <3>0, <3>10
      DEF AwaitProvision, Step, Goto, recordVars, TaskInv
    <3>4. CASE ProvisionFailed(r)
      BY <1>0, <1>t, <2>1, <3>0, <3>4
      DEF ProvisionFailed, WriteFailure, TellFailure, Step, Goto, SetRow, Emit, recordVars
    <3>5. CASE Unhandled(r)
      BY <1>0, <1>t, <2>1, <3>0, <3>5
      DEF Unhandled, WriteFailure, TellFailure, Step, Goto, SetRow, Emit, Finally, recordVars
    <3>6. CASE PersistReady(r)
      BY <1>t, <2>1, <2>3, <3>0, <3>6 DEF PersistReady, Step, Goto, SetRow
    <3>11. CASE TellReady(r) \/ WaitForTests(r)
      BY <1>0, <1>t, <2>1, <3>0, <3>11
      DEF TellReady, WaitForTests, Step, Goto, recordVars, TaskInv
    <3>7. CASE TeardownRead(r) \/ TeardownDocker(r) \/ TeardownRow(r) \/ TeardownTell(r)
      BY <1>0, <1>t, <2>1, <3>0, <3>7
      DEF TeardownRead, TeardownDocker, TeardownRow, TeardownTell, Step, Goto, SetRow,
          Emit, recordVars
    <3>8. CASE Finish(r)
      BY <1>0, <1>t, <2>1, <3>0, <3>8 DEF Finish, Goto, recordVars
    <3>. QED
      BY <1>1, <3>1, <3>2, <3>3, <3>4, <3>5, <3>6, <3>7, <3>8, <3>9,
         <3>10, <3>11 DEF TaskStep
  <2>5. ASSUME NEW q \in Requests \ {r} PROVE EndInv(q)'
    BY <1>0, <2>1, <2>2, <2>5 DEF EndsInv, EndInv, Undisturbed
  <2>. QED
    BY <2>1, <2>4, <2>5 DEF EndsInv, SweepOne
<1>2. ASSUME NEW r \in Requests, CallFails(r) PROVE EndsInv'
  <2>1. failures' # 0
    BY <1>2, <1>t DEF CallFails, Fail
  <2>2. EndsInv' <=> /\ SweepOne'
                     /\ \A q \in Requests : pc'[q] \in {"idle", "precheck", "mark"}
                                              => row'[q] \notin Live
    BY <2>1 DEF EndsInv, EndInv, Undisturbed
  <2>. QED
    BY <1>2, <1>t, <2>2
    DEF CallFails, Goto, Finally, EndsInv, EndInv, SweepOne, sweepVars, recordVars
<1>3. ASSUME NEW r \in Requests, TeardownFails(r) PROVE EndsInv'
  <2>1. leaks' # 0
    BY <1>3, <1>t DEF TeardownFails, Leak
  <2>. QED
    BY <1>3, <1>t, <2>1
    DEF TeardownFails, Goto, EndsInv, EndInv, SweepOne, Undisturbed, sweepVars, recordVars
<1>4. ASSUME NEW r \in Requests, CancelRun(r) \/ WorkerStep(r) PROVE EndsInv'
  <2>1. UNCHANGED <<mode, pc, row, stage, orphans, closing>>
    BY <1>4 DEF CancelRun, WorkerStep, BuildApp, CreateNetwork, StartContainers,
                ProvisionRaises, TeardownWorker, WorkerUnchanged, taskVars,
                recordVars, sweepVars
  <2>. QED
    BY <1>0, <2>1, EndsIdleStep
<1>5. ASSUME Feed \/ GcStep \/ UNCHANGED vars PROVE EndsInv'
  <2>1. UNCHANGED <<mode, pc, row, stage, orphans, closing>>
    BY <1>5 DEF Feed, GcStep, GcSnapshot, GcContainers, GcNetworks, GcVolumes,
                GcUnchanged, vars, managerVars, taskVars, recordVars, sweepVars
  <2>. QED
    BY <1>0, <2>1, EndsIdleStep
<1>6. ASSUME SweepStep PROVE EndsInv'
  <2>0. UNCHANGED <<pc, stage>> /\ \A q \in Requests : pc[q] \notin Running \/ mode \notin {"starting", "sweeping"}
    BY <1>6, <1>t
    DEF SweepStep, SweepQuery, SweepDone, SweepTeardown, SweepClose, SweepUnchanged,
        taskVars, SweepInv
  <2>1. CASE SweepQuery
    <3>1. \/ failures' # 0
          \/ mode' = "sweeping" /\ orphans' = LiveRows
      BY <2>1, <1>t DEF SweepQuery, Fail
    <3>2. mode = "starting" /\ UNCHANGED <<row, closing>>
      BY <2>1 DEF SweepQuery
    <3>3. \A q \in Requests : pc[q] \notin Running
      BY <2>0, <3>2
    <3>. QED
      BY <1>0, <2>0, <3>1, <3>2, <3>3
      DEF EndsInv, EndInv, SweepOne, Undisturbed, LiveRows, Running, Setup, Serve, Failing, Teardown
  <2>2. ASSUME NEW r \in Requests, SweepTeardown(r) PROVE EndsInv'
    BY <1>0, <2>0, <2>2
    DEF SweepTeardown, SweepUnchanged, EndsInv, EndInv, SweepOne, Undisturbed
  <2>3. ASSUME NEW r \in Requests, SweepClose(r) PROVE EndsInv'
    <3>1. closing = {r} /\ closing' = {} /\ UNCHANGED <<mode, orphans>>
      BY <2>3 DEF SweepClose, EndsInv, SweepOne
    <3>2. \/ row' = [row EXCEPT ![r] = "closed"]
          \/ failures' # 0 /\ UNCHANGED row
      BY <2>3, <1>t DEF SweepClose, SetRow, Fail
    <3>. QED
      BY <1>0, <1>t, <2>0, <3>1, <3>2 DEF EndsInv, EndInv, SweepOne, Undisturbed, Live
  <2>4. CASE SweepDone
    BY <1>0, <2>0, <2>4
    DEF SweepDone, sweepVars, EndsInv, EndInv, SweepOne, Undisturbed
  <2>. QED
    BY <1>6, <2>1, <2>2, <2>3, <2>4 DEF SweepStep
<1>7. ASSUME Stop PROVE EndsInv'
  BY <1>0, <1>7
  DEF Stop, taskVars, recordVars, sweepVars, EndsInv, EndInv, SweepOne, Undisturbed
<1>8. ASSUME DrainTimeout PROVE EndsInv'
  <2>1. \A q \in Requests : pc'[q] \in {"idle", "precheck", "mark"} => pc[q] = "idle"
    BY <1>8, <1>t
    DEF DrainTimeout, Finally, Setup, Serve, Failing, Teardown
  <2>. QED
    BY <1>8, <2>1
    DEF DrainTimeout, recordVars, sweepVars, EndsInv, EndInv, SweepOne, Undisturbed
<1>9. ASSUME Restart PROVE EndsInv'
  <2>1. \A q \in Requests : (pc'[q] = pc[q] /\ pc[q] = "idle") \/ pc'[q] = "dead"
    BY <1>9, <1>t DEF Restart
  <2>. QED
    BY <1>9, <2>1 DEF Restart, recordVars, EndsInv, EndInv, SweepOne
<1>. QED
  BY <1>1, <1>2, <1>3, <1>4, <1>5, <1>6, <1>7, <1>8, <1>9 DEF ManagerNext

LEMMA EndsInvariance == ManagerSpec => []EndsInv
BY EndsInitInv, EndsNextInv, ManagerInvariance, ManagerTypesKept, PTL DEF ManagerSpec

(* The orchestrator hears of the end of every sandbox it heard of: a task  *)
(* that nothing disturbs has published 'failed' or 'closed' when it ends.  *)
THEOREM NoTaskEndsSilently == ManagerSpec => []NoSilentEnd
<1>1. EndsInv => NoSilentEnd
  BY DEF EndsInv, EndInv, Undisturbed, NoSilentEnd
<1>. QED
  BY <1>1, EndsInvariance, PTL

(* While the manager serves and no call has failed, a task is behind every *)
(* row that says provisioning or ready.                                    *)
THEOREM NoRowOutlivesItsTask == ManagerSpec => []LiveRowsHaveTasks
<1>1. EndsInv => LiveRowsHaveTasks
  BY DEF EndsInv, EndInv, Undisturbed, LiveRowsHaveTasks, LiveRows
<1>. QED
  BY <1>1, EndsInvariance, PTL

-----------------------------------------------------------------------------
(* What teardown may rely on: a worker that still builds a sandbox has no  *)
(* recorded containers to race with, only a task that provisioned has a    *)
(* recorded row, and the task waits for the worker that removes them.      *)
ResInv(r) ==
  /\ job[r] \in {"build", "network", "containers", "up", "failed"} => ~recorded[r]
  /\ pc[r] \in {"fail_row", "tell_fail"} => ~recorded[r]
  /\ pc[r] \in Failing /\ ~provisioned[r] => ~recorded[r]
  /\ failures = 0 /\ leaks = 0 =>
       /\ pc[r] = "td_docker" /\ job[r] = "none" => res[r] = {}
       /\ pc[r] \in {"td_row", "td_tell", "release", "ended"} /\ recorded[r]
            => res[r] = {}

LEMMA ResInitInv == ManagerInit => \A r \in Requests : ResInv(r)
BY DEF ManagerInit, ResInv, Failing

(* A step that only takes resources away preserves it.                     *)
LEMMA ResLosingStep ==
  ASSUME NEW r \in Requests, ResInv(r),
         UNCHANGED <<pc, provisioned, recorded, job>>,
         res'[r] \subseteq res[r],
         failures' = 0 => failures = 0,
         leaks' = 0 => leaks = 0
  PROVE  ResInv(r)'
BY DEF ResInv

LEMMA ResNextInv ==
  /\ \A r \in Requests : ResInv(r)
  /\ ManagerInv /\ ManagerTypeOK /\ [ManagerNext]_vars
  => \A r \in Requests : ResInv(r)'
<1>. SUFFICES ASSUME \A r \in Requests : ResInv(r),
                     ManagerInv, ManagerTypeOK, [ManagerNext]_vars
              PROVE  \A r \in Requests : ResInv(r)'
  OBVIOUS
<1>0. (failures' = 0 => failures = 0) /\ (leaks' = 0 => leaks = 0)
  BY FaultsGrow
<1>t. /\ failures \in Nat /\ leaks \in Nat
      /\ pc \in [Requests -> PC]
      /\ provisioned \in [Requests -> BOOLEAN]
      /\ job \in [Requests -> Job]
      /\ recorded \in [Requests -> BOOLEAN]
      /\ res \in [Requests -> SUBSET Resources]
      /\ \A q \in Requests : TaskInv(q)
  BY ManagerAssumption, PoolAssumption
  DEF ManagerTypeOK, PoolTypeOK, ManagerInv, OwnTypeOK
<1>1. ASSUME NEW r \in Requests, TaskStep(r), NEW q \in Requests PROVE ResInv(q)'
  <2>1. UNCHANGED res
    BY <1>1
    DEF TaskStep, Begin, Precheck, MarkProvisioning, Announce, AwaitProvision,
        ProvisionFailed, Unhandled, WriteFailure, TellFailure, Settle, PersistReady,
        TellReady, WaitForTests, TeardownRead, TeardownDocker, TeardownRow,
        TeardownTell, Finish
  <2>2. ResInv(q) /\ TaskInv(q) /\ TaskInv(r) /\ ResInv(r)
    BY <1>t
  <2>3. ASSUME q # r PROVE ResInv(q)'
    <3>1. UNCHANGED <<pc[q], provisioned[q], recorded[q], job[q]>>
      BY <1>1, <1>t, <2>3
      DEF TaskStep, Begin, Precheck, MarkProvisioning, Announce, AwaitProvision,
          ProvisionFailed, Unhandled, WriteFailure, TellFailure, Settle, PersistReady,
          TellReady, WaitForTests, TeardownRead, TeardownDocker, TeardownRow,
          TeardownTell, Finish, Step, Goto, IsRunCancelled, recordVars
    <3>. QED
      BY <1>0, <2>1, <2>2, <3>1 DEF ResInv
  <2>4. ASSUME q = r PROVE ResInv(r)'
    <3>. USE DEF ResInv, TaskInv, Setup, Serve, Failing, Teardown
    <3>1. CASE Begin(r)
      BY <1>0, <1>t, <2>1, <2>2, <3>1 DEF Begin, Acquire, Goto, recordVars
    <3>2. CASE Precheck(r) \/ Settle(r)
      BY <1>0, <1>t, <2>1, <2>2, <3>2
      DEF Precheck, Settle, IsRunCancelled, Goto, recordVars
    <3>3. CASE MarkProvisioning(r) \/ Announce(r)
      BY <1>0, <1>t, <2>1, <2>2, <3>3
      DEF MarkProvisioning, Announce, Step, Goto, recordVars
    <3>4. CASE AwaitProvision(r)
      BY <1>0, <1>t, <2>1, <2>2, <3>4 DEF AwaitProvision, Step, Goto, recordVars
    <3>5. CASE ProvisionFailed(r)
      BY <1>0, <1>t, <2>1, <2>2, <3>5
      DEF ProvisionFailed, WriteFailure, TellFailure, Step, Goto, recordVars
    <3>6. CASE Unhandled(r)
      BY <1>0, <1>t, <2>1, <2>2, <3>6
      DEF Unhandled, WriteFailure, TellFailure, Step, Goto, Finally, recordVars
    <3>7. CASE PersistReady(r) \/ TellReady(r) \/ WaitForTests(r)
      BY <1>0, <1>t, <2>1, <2>2, <3>7
      DEF PersistReady, TellReady, WaitForTests, Step, Goto, recordVars
    <3>8. CASE TeardownRead(r)
      BY <1>0, <1>t, <2>1, <2>2, <3>8 DEF TeardownRead, Goto, recordVars
    <3>9. CASE TeardownDocker(r)
      BY <1>0, <1>t, <2>1, <2>2, <3>9 DEF TeardownDocker, Step, Goto, recordVars
    <3>10. CASE TeardownRow(r) \/ TeardownTell(r)
      BY <1>0, <1>t, <2>1, <2>2, <3>10
      DEF TeardownRow, TeardownTell, Step, Goto, recordVars
    <3>11. CASE Finish(r)
      BY <1>0, <1>t, <2>1, <2>2, <3>11 DEF Finish, Goto, recordVars
    <3>. QED
      BY <1>1, <3>1, <3>2, <3>3, <3>4, <3>5, <3>6, <3>7, <3>8, <3>9, <3>10, <3>11
      DEF TaskStep
  <2>. QED
    BY <2>3, <2>4
<1>2. ASSUME NEW r \in Requests, WorkerStep(r), NEW q \in Requests PROVE ResInv(q)'
  <2>1. UNCHANGED <<pc, provisioned, recorded>>
    BY <1>2 DEF WorkerStep, BuildApp, CreateNetwork, StartContainers,
                ProvisionRaises, TeardownWorker, WorkerUnchanged, taskVars, recordVars
  <2>2. ResInv(q) /\ TaskInv(q)
    BY <1>t
  <2>3. ASSUME q # r PROVE ResInv(q)'
    <3>1. UNCHANGED <<job[q], res[q]>>
      BY <1>2, <1>t, <2>3
      DEF WorkerStep, BuildApp, CreateNetwork, StartContainers, ProvisionRaises,
          TeardownWorker, RemoveAll, SetJob
    <3>. QED
      BY <1>0, <2>1, <2>2, <3>1 DEF ResInv
  <2>4. ASSUME q = r, ~TeardownWorker(r) PROVE ResInv(q)'
    <3>1. /\ job[q] \in {"build", "network", "containers"}
          /\ job'[q] \in {"network", "containers", "up", "failed"}
      BY <1>2, <1>t, <2>4
      DEF WorkerStep, BuildApp, CreateNetwork, StartContainers, ProvisionRaises, SetJob
    <3>. QED
      BY <2>1, <2>2, <3>1 DEF ResInv, TaskInv, Failing
  <2>5. ASSUME q = r, TeardownWorker(r) PROVE ResInv(q)'
    <3>1. job'[q] = "none" /\ job[q] = "down"
      BY <1>t, <2>5 DEF TeardownWorker, SetJob
    <3>2. failures' = 0 => res'[q] = {}
      BY <1>t, <2>5 DEF TeardownWorker, RemoveAll, FailIf, Fail
    <3>. QED
      BY <1>0, <2>1, <2>2, <3>1, <3>2 DEF ResInv
  <2>. QED
    BY <2>3, <2>4, <2>5
<1>3. ASSUME NEW r \in Requests, CallFails(r) \/ TeardownFails(r), NEW q \in Requests
      PROVE  ResInv(q)'
  <2>1. failures' # 0 \/ leaks' # 0
    BY <1>3, <1>t DEF CallFails, TeardownFails, Leak, Fail
  <2>2. ResInv(q) /\ TaskInv(q) /\ UNCHANGED <<provisioned, recorded, job>>
    BY <1>3, <1>t DEF CallFails, TeardownFails, recordVars
  <2>3. pc'[q] = pc[q] \/ pc'[q] = "ended" \/ (q = r /\ CallFails(r))
    BY <1>3, <1>t DEF CallFails, TeardownFails, Goto
  <2>4. CASE q = r /\ CallFails(r)
    <3>1. /\ pc[r] \in {"mark", "announce", "fail_row", "tell_fail", "persist",
                        "tell_ready", "wait", "error_row", "tell_error"}
          /\ pc'[r] \in {"error_row", "td_read", "release"}
      BY <1>3, <1>t, <2>4 DEF CallFails, Goto, Finally
    <3>. QED
      BY <1>t, <2>1, <2>2, <2>4, <3>1 DEF ResInv, TaskInv, Failing, Serve
  <2>. QED
    BY <2>1, <2>2, <2>3, <2>4 DEF ResInv, Failing
<1>4. ASSUME NEW q \in Requests, SweepStep PROVE ResInv(q)'
  <2>1. UNCHANGED <<pc, provisioned, recorded, job>>
    BY <1>4 DEF SweepStep, SweepQuery, SweepTeardown, SweepClose, SweepDone,
                SweepUnchanged, taskVars
  <2>2. res'[q] \subseteq res[q]
    BY <1>4, <1>t DEF SweepStep, SweepQuery, SweepTeardown, SweepClose, SweepDone,
                RemoveAll
  <2>. QED
    BY <1>0, <2>1, <2>2, ResLosingStep
<1>5. ASSUME NEW q \in Requests, GcStep PROVE ResInv(q)'
  <2>1. UNCHANGED <<pc, provisioned, recorded, job>>
    BY <1>5 DEF GcStep, GcSnapshot, GcContainers, GcNetworks, GcVolumes,
                GcUnchanged, taskVars, recordVars
  <2>2. \A rs, kind : Collect(rs, kind) => res'[q] \subseteq res[q]
    BY DEF Collect
  <2>3. res'[q] \subseteq res[q]
    BY <1>5, <2>2 DEF GcStep, GcSnapshot, GcContainers, GcNetworks, GcVolumes
  <2>. QED
    BY <1>0, <2>1, <2>3, ResLosingStep
<1>6. ASSUME NEW q \in Requests,
             Feed \/ Stop \/ UNCHANGED vars \/ \E r \in Requests : CancelRun(r)
      PROVE  ResInv(q)'
  <2>1. UNCHANGED <<pc, provisioned, recorded, job, res>>
    BY <1>6 DEF Feed, Stop, CancelRun, vars, managerVars, taskVars, recordVars
  <2>. QED
    BY <1>0, <2>1, ResLosingStep
<1>7. ASSUME NEW q \in Requests, DrainTimeout PROVE ResInv(q)'
  <2>1. UNCHANGED <<provisioned, recorded, job, res>>
    BY <1>7 DEF DrainTimeout, recordVars
  <2>2. pc'[q] = IF pc[q] \in Setup \cup Serve \cup Failing THEN Finally(q)
                 ELSE IF pc[q] \in Teardown THEN "interrupted" ELSE pc[q]
    BY <1>7 DEF DrainTimeout
  <2>. QED
    BY <1>0, <1>t, <2>1, <2>2
    DEF ResInv, TaskInv, Finally, Setup, Serve, Failing, Teardown
<1>8. ASSUME NEW q \in Requests, Restart PROVE ResInv(q)'
  <2>1. pc'[q] \in {"idle", "dead"} /\ job'[q] = "none"
    BY <1>8, <1>t DEF Restart
  <2>. QED
    BY <2>1 DEF ResInv, Failing
<1>. QED
  BY <1>1, <1>2, <1>3, <1>4, <1>5, <1>6, <1>7, <1>8 DEF ManagerNext

(* A sandbox that was ready is gone from Docker when its task has ended,   *)
(* whatever was cancelled, drained, collected or restarted on the way.     *)
THEOREM EndsAreClean == ManagerSpec => []CleanEnd
<1>. DEFINE Inv == \A r \in Requests : ResInv(r)
<1>1. ManagerInit => Inv
  BY ResInitInv
<1>2. Inv /\ ManagerInv /\ ManagerTypeOK /\ [ManagerNext]_vars => Inv'
  BY ResNextInv
<1>3. Inv => CleanEnd
  BY DEF ResInv, CleanEnd
<1>. HIDE DEF Inv
<1>. QED
  BY <1>1, <1>2, <1>3, ManagerInvariance, ManagerTypesKept, PTL DEF ManagerSpec
=============================================================================
