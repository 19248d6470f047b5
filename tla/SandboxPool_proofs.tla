------------------------- MODULE SandboxPool_proofs -------------------------
(***************************************************************************)
(* Proofs about SandboxPool, for every set of requests and every capacity. *)
(*                                                                         *)
(* CapRespected is not inductive by itself: Cardinality says something     *)
(* about active only when it is finite, and NoLostWakeup needs to know     *)
(* that a slot is free only when the release that freed it found the event *)
(* cleared.  PoolInv is the conjunction that every action preserves.       *)
(***************************************************************************)
EXTENDS SandboxPool, FiniteSetTheorems, TLAPS

PoolInv ==
  /\ PoolTypeOK
  /\ IsFiniteSet(active)
  /\ CapRespected
  /\ SlotsHaveOwners
  /\ NoLostWakeup
  /\ NoDuplicateDelivery

-----------------------------------------------------------------------------
(* Adding one sandbox to a set that has room keeps it within the capacity. *)
LEMMA AddWithinCapacity ==
  ASSUME NEW A, IsFiniteSet(A), NEW r, NEW m \in Nat, Cardinality(A) < m
  PROVE  /\ IsFiniteSet(A \cup {r})
         /\ Cardinality(A \cup {r}) \in Nat
         /\ Cardinality(A \cup {r}) <= m
<1>1. Cardinality(A) \in Nat
  BY FS_CardinalityType
<1>2. /\ IsFiniteSet(A \cup {r})
      /\ \/ Cardinality(A \cup {r}) = Cardinality(A)
         \/ Cardinality(A \cup {r}) = Cardinality(A) + 1
  BY FS_AddElement
<1>. QED
  BY <1>1, <1>2

(* Taking a sandbox that owns a slot out of the pool makes room.           *)
LEMMA RemoveMakesRoom ==
  ASSUME NEW A, IsFiniteSet(A), NEW r, NEW m \in Nat, Cardinality(A) <= m
  PROVE  /\ IsFiniteSet(A \ {r})
         /\ Cardinality(A \ {r}) <= m
         /\ r \in A => Cardinality(A \ {r}) < m
<1>1. Cardinality(A) \in Nat
  BY FS_CardinalityType
<1>2. /\ IsFiniteSet(A \ {r})
      /\ Cardinality(A \ {r}) =
           IF r \in A THEN Cardinality(A) - 1 ELSE Cardinality(A)
  BY FS_RemoveElement
<1>. QED
  BY <1>1, <1>2

-----------------------------------------------------------------------------
LEMMA PoolInitInv == PoolInit => PoolInv
<1>. SUFFICES ASSUME PoolInit PROVE PoolInv
  OBVIOUS
<1>1. IsFiniteSet(active) /\ Cardinality(active) = 0
  BY FS_EmptySet DEF PoolInit
<1>2. PoolTypeOK
  BY PoolAssumption DEF PoolInit, PoolTypeOK, LoopState, TaskState
<1>3. CapRespected
  BY <1>1, PoolAssumption DEF CapRespected
<1>4. SlotsHaveOwners /\ NoLostWakeup /\ NoDuplicateDelivery
  BY PoolAssumption
  DEF PoolInit, SlotsHaveOwners, NoLostWakeup, NoDuplicateDelivery, Unacked, InHand
<1>. QED
  BY <1>1, <1>2, <1>3, <1>4 DEF PoolInv

LEMMA PoolNextInv == PoolInv /\ [PoolNext]_poolVars => PoolInv'
<1>. SUFFICES ASSUME PoolInv, [PoolNext]_poolVars PROVE PoolInv'
  OBVIOUS
<1>. USE PoolAssumption DEF PoolInv, poolFaults
<1>1. ASSUME NEW r \in Requests, Submit(r) PROVE PoolInv'
  BY <1>1 DEF Submit, PoolTypeOK, CapRespected, SlotsHaveOwners, NoLostWakeup,
              HasCapacity, NoDuplicateDelivery, Unacked, InHand
<1>2. ASSUME NEW r \in Requests, Expire(r) PROVE PoolInv'
  BY <1>2 DEF Expire, PoolTypeOK, TaskState, CapRespected, SlotsHaveOwners,
              NoLostWakeup, HasCapacity, NoDuplicateDelivery, Unacked, InHand
<1>3. ASSUME NEW r \in Requests, Prefetch(r) PROVE PoolInv'
  BY <1>3 DEF Prefetch, PoolTypeOK, CapRespected, SlotsHaveOwners, NoLostWakeup,
              HasCapacity, NoDuplicateDelivery, Unacked, InHand
<1>4. ASSUME NEW r \in Requests, Deliver(r) PROVE PoolInv'
  BY <1>4 DEF Deliver, PoolTypeOK, LoopState, CapRespected, SlotsHaveOwners,
              NoLostWakeup, HasCapacity, NoDuplicateDelivery, Unacked, InHand
<1>5. ASSUME WaitForSlot PROVE PoolInv'
  BY <1>5 DEF WaitForSlot, PoolTypeOK, LoopState, CapRespected, SlotsHaveOwners,
              NoLostWakeup, HasCapacity, NoDuplicateDelivery, Unacked, InHand
<1>6. ASSUME Ack PROVE PoolInv'
  BY <1>6 DEF Ack, PoolTypeOK, LoopState, CapRespected, SlotsHaveOwners,
              NoLostWakeup, HasCapacity, NoDuplicateDelivery, InHand
<1>12. ASSUME Spawn PROVE PoolInv'
  BY <1>12 DEF Spawn, PoolTypeOK, LoopState, TaskState, CapRespected,
               SlotsHaveOwners, NoLostWakeup, HasCapacity, NoDuplicateDelivery, InHand
<1>7. ASSUME NEW r \in Requests, Acquire(r) PROVE PoolInv'
  <2>1. CASE HasCapacity
    <3>1. /\ active' = active \cup {r}
          /\ task' = [task EXCEPT ![r] = "holding"]
          /\ slotAvailable' \in BOOLEAN
          /\ UNCHANGED <<queue, buffer, loop, msg, crashes, leaks, expiries>>
      BY <1>7, <2>1 DEF Acquire, PoolTypeOK
    <3>2. IsFiniteSet(active') /\ CapRespected'
      BY <2>1, <3>1, AddWithinCapacity DEF HasCapacity, CapRespected
    <3>3. PoolTypeOK'
      BY <3>1 DEF PoolTypeOK, TaskState
    <3>4. SlotsHaveOwners'
      BY <3>1 DEF SlotsHaveOwners, PoolTypeOK
    <3>5. NoLostWakeup'
      BY <2>1, <3>1 DEF NoLostWakeup
    <3>6. NoDuplicateDelivery'
      BY <1>7, <3>1 DEF NoDuplicateDelivery, Unacked, InHand, Acquire, PoolTypeOK
    <3>. QED
      BY <3>2, <3>3, <3>4, <3>5, <3>6
  <2>2. CASE ~HasCapacity
    BY <1>7, <2>2
    DEF Acquire, PoolTypeOK, TaskState, CapRespected, SlotsHaveOwners,
        NoLostWakeup, HasCapacity, NoDuplicateDelivery, Unacked, InHand
  <2>. QED
    BY <2>1, <2>2
<1>8. ASSUME NEW r \in Requests, Release(r) PROVE PoolInv'
  <2>1. IsFiniteSet(active') /\ CapRespected'
    BY <1>8, RemoveMakesRoom DEF Release, CapRespected
  <2>2. PoolTypeOK'
    BY <1>8 DEF Release, PoolTypeOK, TaskState, LoopState
  <2>3. SlotsHaveOwners'
    BY <1>8 DEF Release, SlotsHaveOwners, PoolTypeOK
  <2>4. NoLostWakeup'
    BY <1>8 DEF Release, NoLostWakeup
  <2>5. NoDuplicateDelivery'
    BY <1>8 DEF Release, NoDuplicateDelivery, Unacked, InHand, PoolTypeOK
  <2>. QED
    BY <2>1, <2>2, <2>3, <2>4, <2>5
<1>9. ASSUME NEW r \in Requests, Leak(r) PROVE PoolInv'
  BY <1>9 DEF Leak, PoolTypeOK, TaskState, CapRespected, SlotsHaveOwners,
              NoLostWakeup, HasCapacity, NoDuplicateDelivery, Unacked, InHand
<1>10. ASSUME PoolCrash PROVE PoolInv'
  <2>1. IsFiniteSet(active') /\ CapRespected'
    BY <1>10, FS_EmptySet DEF PoolCrash, CapRespected
  <2>2. PoolTypeOK'
    BY <1>10 DEF PoolCrash, PoolTypeOK, TaskState, LoopState, Unacked, InHand
  <2>3. SlotsHaveOwners' /\ NoLostWakeup'
    BY <1>10 DEF PoolCrash, SlotsHaveOwners, NoLostWakeup
  <2>4. NoDuplicateDelivery'
    BY <1>10 DEF PoolCrash, NoDuplicateDelivery, Unacked, InHand, PoolTypeOK
  <2>. QED
    BY <2>1, <2>2, <2>3, <2>4
<1>11. CASE UNCHANGED poolVars
  BY <1>11 DEF poolVars, PoolTypeOK, CapRespected, SlotsHaveOwners, NoLostWakeup,
               HasCapacity, NoDuplicateDelivery, Unacked, InHand
<1>. QED
  BY <1>1, <1>2, <1>3, <1>4, <1>5, <1>6, <1>7, <1>8, <1>9, <1>10, <1>11, <1>12
  DEF PoolNext

LEMMA PoolInvariance == PoolSpec => []PoolInv
BY PoolInitInv, PoolNextInv, PTL DEF PoolSpec

-----------------------------------------------------------------------------
(* Type correctness of the pool and of the consumer loop.                  *)
THEOREM PoolTypeCorrect == PoolSpec => []PoolTypeOK
<1>1. PoolInv => PoolTypeOK
  BY DEF PoolInv
<1>. QED
  BY <1>1, PoolInvariance, PTL

(* At most MAX_SANDBOXES sandboxes own a slot at any time (pool.acquire    *)
(* re-checks the capacity that wait_for_slot saw before a suspension).     *)
THEOREM CapAlwaysRespected == PoolSpec => []CapRespected
<1>1. PoolInv => CapRespected
  BY DEF PoolInv
<1>. QED
  BY <1>1, PoolInvariance, PTL

(* The consumer loop sleeps only while the pool is full and the event is   *)
(* clear, so the release that makes room wakes it.                         *)
THEOREM WakeupNeverLost == PoolSpec => []NoLostWakeup
<1>1. PoolInv => NoLostWakeup
  BY DEF PoolInv
<1>. QED
  BY <1>1, PoolInvariance, PTL

(* Every slot belongs to a task that runs or died in its finally block.    *)
THEOREM SlotsAlwaysOwned == PoolSpec => []SlotsHaveOwners
<1>1. PoolInv => SlotsHaveOwners
  BY DEF PoolInv
<1>. QED
  BY <1>1, PoolInvariance, PTL

(* A request waits in one place and has no task yet while it waits, across *)
(* any number of restarts with redelivery.                                 *)
THEOREM DeliveredOnce == PoolSpec => []NoDuplicateDelivery
<1>1. PoolInv => NoDuplicateDelivery
  BY DEF PoolInv
<1>. QED
  BY <1>1, PoolInvariance, PTL
=============================================================================
