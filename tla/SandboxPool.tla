---------------------------- MODULE SandboxPool ----------------------------
(***************************************************************************)
(* The slot pool of the sandbox-manager (pool.py) together with the        *)
(* consumer loop that feeds it (sandbox_queue.py, run) and the part of     *)
(* every sandbox task that touches the pool (sandbox_queue.py, _handle:    *)
(* the acquire at its head, the release in its finally block).             *)
(*                                                                         *)
(* Everything runs on one asyncio event loop, so an action is the code     *)
(* between two suspension points.  What a task does between acquire and    *)
(* release is left to SandboxManager, which refines this module.           *)
(*                                                                         *)
(* Abstracted: the order in which the priority queue and the prefetch      *)
(* buffer hand out requests (any of them may be next), and the metadata    *)
(* the pool keeps per sandbox.                                             *)
(***************************************************************************)
EXTENDS Naturals, FiniteSets

CONSTANTS
  Requests,         \* sandbox requests, one per run
  NoRequest,        \* stands for Python's None
  MAX_SANDBOXES,    \* capacity of the pool, and the consumer's prefetch_count
  MaxCrashes,       \* bound: how often the process is killed or stopped
  MaxLeaks,         \* bound: how many tasks die in their finally block
  MaxExpiries       \* bound: how many requests outlive the queue's TTL

ASSUME PoolAssumption ==
  /\ NoRequest \notin Requests
  /\ MAX_SANDBOXES \in Nat \ {0}
  /\ MaxCrashes \in Nat
  /\ MaxLeaks \in Nat
  /\ MaxExpiries \in Nat

VARIABLES
  queue,          \* requests that wait in sandbox.queue
  buffer,         \* requests prefetched by the queue iterator, unacknowledged
  loop,           \* where the consumer loop is suspended
  msg,            \* the request in the hands of the loop
  task,           \* state of the asyncio task of each request
  active,         \* pool._active: sandboxes that own a slot
  slotAvailable,  \* pool._slot_available: the asyncio.Event
  crashes, leaks, expiries

poolFaults == <<crashes, leaks, expiries>>
poolVars   == <<queue, buffer, loop, msg, task, active, slotAvailable,
                poolFaults>>

(***************************************************************************)
(* "none"     not requested yet, or waiting in the queue                   *)
(* "created"  create_task was called, the coroutine has not reached        *)
(*            pool.acquire (it may be resolving contracts_version)         *)
(* "holding"  owns a slot                                                  *)
(* "done"     released its slot and ended                                  *)
(* "dropped"  pool.acquire returned False: the task ended without a word   *)
(* "leaked"   its finally block raised before pool.release                 *)
(* "lost"     was alive, or acknowledged and not created, when the process *)
(*            died                                                         *)
(* "expired"  dead-lettered to sandbox.queue.dlq, which nobody consumes    *)
(***************************************************************************)
TaskState ==
  {"none", "created", "holding", "done", "dropped", "leaked", "lost", "expired"}

(***************************************************************************)
(* "fetch"    at the queue iterator                                        *)
(* "check"    about to evaluate the while condition of wait_for_slot       *)
(* "blocked"  suspended in _slot_available.wait()                          *)
(* "ack"      wait_for_slot returned, the message is about to be acked     *)
(* "acked"    the broker has the acknowledgement, no task exists yet       *)
(***************************************************************************)
LoopState == {"fetch", "check", "blocked", "ack", "acked"}

(* The requests the process has been given and has created no task for,    *)
(* and those of them that the broker would deliver again.                  *)
InHand  == buffer \cup ({msg} \ {NoRequest})
Unacked == IF loop = "acked" THEN buffer ELSE InHand

HasCapacity == Cardinality(active) < MAX_SANDBOXES

(* The types, and: the loop holds a message from its delivery until it     *)
(* has acknowledged it and created its task (run).                         *)
PoolTypeOK ==
  /\ queue \subseteq Requests
  /\ buffer \subseteq Requests
  /\ loop \in LoopState
  /\ msg \in Requests \cup {NoRequest}
  /\ loop = "fetch" <=> msg = NoRequest
  /\ task \in [Requests -> TaskState]
  /\ active \subseteq Requests
  /\ slotAvailable \in BOOLEAN
  /\ crashes \in 0..MaxCrashes
  /\ leaks \in 0..MaxLeaks
  /\ expiries \in 0..MaxExpiries

PoolInit ==
  /\ queue = {}
  /\ buffer = {}
  /\ loop = "fetch"
  /\ msg = NoRequest
  /\ task = [r \in Requests |-> "none"]
  /\ active = {}
  /\ slotAvailable = TRUE
  /\ crashes = 0
  /\ leaks = 0
  /\ expiries = 0

-----------------------------------------------------------------------------
(* publish_sandbox_request puts the request of a new run on sandbox.queue. *)
Submit(r) ==
  /\ task[r] = "none"
  /\ r \notin queue \cup InHand
  /\ queue' = queue \cup {r}
  /\ UNCHANGED <<buffer, loop, msg, task, active, slotAvailable, poolFaults>>

(* x-message-ttl: a request that the consumer has had no room to prefetch  *)
(* for that long is dead-lettered; its run keeps the status 'queued'.      *)
Expire(r) ==
  /\ r \in queue
  /\ Cardinality(Unacked) >= MAX_SANDBOXES
  /\ expiries < MaxExpiries
  /\ expiries' = expiries + 1
  /\ queue' = queue \ {r}
  /\ task' = [task EXCEPT ![r] = "expired"]
  /\ UNCHANGED <<buffer, loop, msg, active, slotAvailable, crashes, leaks>>

(* The broker pushes requests until prefetch_count are unacknowledged.     *)
Prefetch(r) ==
  /\ r \in queue
  /\ Cardinality(Unacked) < MAX_SANDBOXES
  /\ queue' = queue \ {r}
  /\ buffer' = buffer \cup {r}
  /\ UNCHANGED <<loop, msg, task, active, slotAvailable, poolFaults>>

(* The queue iterator yields a message to the loop.                        *)
Deliver(r) ==
  /\ loop = "fetch"
  /\ r \in buffer
  /\ buffer' = buffer \ {r}
  /\ msg' = r
  /\ loop' = "check"
  /\ UNCHANGED <<queue, task, active, slotAvailable, poolFaults>>

(***************************************************************************)
(* One turn of the while loop of wait_for_slot: return when a slot is      *)
(* free, otherwise clear the event and suspend on it.                      *)
(***************************************************************************)
WaitForSlot ==
  /\ loop = "check"
  /\ \/ /\ HasCapacity
        /\ loop' = "ack"
        /\ UNCHANGED slotAvailable
     \/ /\ ~HasCapacity
        /\ slotAvailable' = FALSE
        /\ loop' = "blocked"
  /\ UNCHANGED <<queue, buffer, msg, task, active, poolFaults>>

(* await message.ack() *)
Ack ==
  /\ loop = "ack"
  /\ loop' = "acked"
  /\ UNCHANGED <<queue, buffer, msg, task, active, slotAvailable, poolFaults>>

(* Mutant of Spawn: the loop keeps the message it is done with.            *)
Spawn_KeepsMessage ==
  /\ loop = "acked"
  /\ task' = [task EXCEPT ![msg] = "created"]
  /\ loop' = "fetch"
  /\ UNCHANGED <<queue, buffer, msg, active, slotAvailable, poolFaults>>

(* Mutant of Spawn: the task may be created before the message is acked.   *)
Spawn_BeforeAck ==
  /\ loop \in {"ack", "acked"}
  /\ task[msg] = "none" \/ loop = "acked"
  /\ task' = [task EXCEPT ![msg] = IF @ = "none" THEN "created" ELSE @]
  /\ msg' = IF loop = "acked" THEN NoRequest ELSE msg
  /\ loop' = IF loop = "acked" THEN "fetch" ELSE loop
  /\ UNCHANGED <<queue, buffer, active, slotAvailable, poolFaults>>

(* create_task(_handle): the task will claim its slot later.               *)
Spawn ==
  /\ loop = "acked"
  /\ task' = [task EXCEPT ![msg] = "created"]
  /\ msg' = NoRequest
  /\ loop' = "fetch"
  /\ UNCHANGED <<queue, buffer, active, slotAvailable, poolFaults>>

(* Mutant of Acquire: the claim trusts the earlier wait_for_slot.          *)
Acquire_NoRecheck(r) ==
  /\ task[r] = "created"
  /\ active' = active \cup {r}
  /\ slotAvailable' =
       (slotAvailable /\ Cardinality(active \cup {r}) < MAX_SANDBOXES)
  /\ task' = [task EXCEPT ![r] = "holding"]
  /\ UNCHANGED <<queue, buffer, loop, msg, poolFaults>>

(* pool.acquire as _handle calls it, and the early return when it fails. *)
Acquire(r) ==
  /\ task[r] = "created"
  /\ \/ /\ HasCapacity
        /\ active' = active \cup {r}
        /\ slotAvailable' =
             (slotAvailable /\ Cardinality(active \cup {r}) < MAX_SANDBOXES)
        /\ task' = [task EXCEPT ![r] = "holding"]
     \/ /\ ~HasCapacity
        /\ task' = [task EXCEPT ![r] = "dropped"]
        /\ UNCHANGED <<active, slotAvailable>>
  /\ UNCHANGED <<queue, buffer, loop, msg, poolFaults>>

(* Mutant of Release: the entry is not popped.                             *)
Release_KeepsEntry(r) ==
  /\ task[r] = "holding"
  /\ slotAvailable' = TRUE
  /\ loop' = IF loop = "blocked" /\ ~slotAvailable THEN "check" ELSE loop
  /\ task' = [task EXCEPT ![r] = "done"]
  /\ UNCHANGED <<queue, buffer, msg, active, poolFaults>>

(* Mutant of Release: the event is not set.                                *)
Release_NoSet(r) ==
  /\ task[r] = "holding"
  /\ active' = active \ {r}
  /\ task' = [task EXCEPT ![r] = "done"]
  /\ UNCHANGED <<queue, buffer, loop, msg, slotAvailable, poolFaults>>

(***************************************************************************)
(* pool.release at the end of the finally block.  asyncio.Event.set        *)
(* resolves the waiters only when the event was not set already.           *)
(***************************************************************************)
Release(r) ==
  /\ task[r] = "holding"
  /\ active' = active \ {r}
  /\ slotAvailable' = TRUE
  /\ loop' = IF loop = "blocked" /\ ~slotAvailable THEN "check" ELSE loop
  /\ task' = [task EXCEPT ![r] = "done"]
  /\ UNCHANGED <<queue, buffer, msg, poolFaults>>

(* _teardown raises in the finally block, so pool.release is never reached. *)
Leak(r) ==
  /\ task[r] = "holding"
  /\ leaks < MaxLeaks
  /\ leaks' = leaks + 1
  /\ task' = [task EXCEPT ![r] = "leaked"]
  /\ UNCHANGED <<queue, buffer, loop, msg, active, slotAvailable, crashes, expiries>>

(* Mutant of PoolCrash: the broker forgets a message when it delivers it.  *)
PoolCrash_AutoAck ==
  /\ crashes < MaxCrashes
  /\ crashes' = crashes + 1
  /\ buffer' = {}
  /\ msg' = NoRequest
  /\ loop' = "fetch"
  /\ task' = [r \in Requests |->
                IF task[r] \in {"created", "holding"} THEN "lost" ELSE task[r]]
  /\ active' = {}
  /\ slotAvailable' = TRUE
  /\ UNCHANGED <<queue, leaks, expiries>>

(***************************************************************************)
(* The process dies and a new one starts: the broker redelivers the        *)
(* unacknowledged messages, the tasks are gone, the pool is a new object.  *)
(* An acknowledged message without a task is gone as well.                 *)
(***************************************************************************)
PoolCrash ==
  /\ crashes < MaxCrashes
  /\ crashes' = crashes + 1
  /\ queue' = queue \cup Unacked
  /\ buffer' = {}
  /\ msg' = NoRequest
  /\ loop' = "fetch"
  /\ task' = [r \in Requests |->
                IF \/ task[r] \in {"created", "holding"}
                   \/ loop = "acked" /\ r = msg
                THEN "lost" ELSE task[r]]
  /\ active' = {}
  /\ slotAvailable' = TRUE
  /\ UNCHANGED <<leaks, expiries>>

PoolNext ==
  \/ \E r \in Requests :
       \/ Submit(r) \/ Expire(r) \/ Prefetch(r) \/ Deliver(r)
       \/ Acquire(r) \/ Release(r) \/ Leak(r)
  \/ WaitForSlot
  \/ Ack
  \/ Spawn
  \/ PoolCrash

PoolSpec == PoolInit /\ [][PoolNext]_poolVars

(***************************************************************************)
(* The event loop runs every ready coroutine; a task that owns a slot      *)
(* ends, because _wait_for_tests gives up after its timeout.  Submissions, *)
(* crashes and leaks are the environment's and get no fairness.            *)
(***************************************************************************)
PoolFairness ==
  /\ WF_poolVars(\E r \in Requests : Prefetch(r))
  /\ WF_poolVars(\E r \in Requests : Deliver(r))
  /\ WF_poolVars(WaitForSlot)
  /\ WF_poolVars(Ack)
  /\ WF_poolVars(Spawn)
  /\ \A r \in Requests : WF_poolVars(Acquire(r)) /\ WF_poolVars(Release(r))

FairPoolSpec == PoolSpec /\ PoolFairness

-----------------------------------------------------------------------------
(* The pool never holds more sandboxes than MAX_SANDBOXES, although the    *)
(* check (wait_for_slot) and the claim (acquire) are made by different     *)
(* coroutines and several claims can be pending for one free slot.         *)
CapRespected == Cardinality(active) <= MAX_SANDBOXES

(* A slot belongs to a sandbox whose task runs, or died before releasing   *)
(* it: no slot is held for a request that was dropped, finished or not yet *)
(* started, also after a restart.                                          *)
SlotsHaveOwners == \A r \in active : task[r] \in {"holding", "leaked"}

(* wait_for_slot sleeps only while the pool is full and the event is       *)
(* clear, so that the next release wakes it: no wake-up is ever lost.      *)
NoLostWakeup == loop = "blocked" => ~HasCapacity /\ ~slotAvailable

(* A request that waits in the broker, in the prefetch buffer or in the    *)
(* hands of the loop has had no task yet, and waits in one place only:     *)
(* redelivery after a restart never starts a second sandbox for a run.     *)
NoDuplicateDelivery ==
  /\ \A r \in queue \cup InHand : task[r] = "none"
  /\ queue \cap InHand = {}
  /\ msg \notin buffer

(* Every request that reached sandbox.queue is eventually taken up by a    *)
(* task, as long as slots come back: the loop never sleeps for ever, and   *)
(* a restart loses no request it had not acknowledged.                     *)
RequestsTakenUp == \A r \in Requests : r \in queue ~> task[r] # "none"

(***************************************************************************)
(* The comment on the failed claim in _handle, "this shouldn't happen      *)
(* after wait_for_slot()": a task is never refused a slot.                 *)
(***************************************************************************)
NeverRefused == \A r \in Requests : task[r] # "dropped"
=============================================================================
