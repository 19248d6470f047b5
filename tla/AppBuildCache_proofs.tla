------------------------ MODULE AppBuildCache_proofs ------------------------
(***************************************************************************)
(* Proofs about AppBuildCache, for every set of sandboxes and any number   *)
(* of commits, failures and outages.                                       *)
(*                                                                         *)
(* SingleFlight needs that a thread in the with block holds the lock of    *)
(* its key; NeverStale that HEAD only moves forward, that a volume never   *)
(* holds less than its key says, and that a thread restores from the       *)
(* volume of the commit it resolved.                                       *)
(***************************************************************************)
EXTENDS AppBuildCache, TLAPS

(* Where a thread is says what it knows: its commit and its source. *)
Bearings ==
  \A s \in Sandboxes :
    /\ worker[s] \in {"idle", "resolve"} => want[s] = 0
    /\ worker[s] \in {"lock", "lookup", "save", "start", "copy", "evict"} => want[s] # 0
    /\ worker[s] \in {"create", "restore"} => src[s] \in Commits
    /\ worker[s] \in {"create", "restore"} /\ want[s] # 0 => src[s] = want[s]

LocksHeld ==
  \A s \in Sandboxes : worker[s] \in Holding /\ want[s] # 0 => lock[want[s]] = s

TypeInv == CacheTypeOK /\ Bearings /\ LocksHeld

(* A content that is of no commit, or not of an older one than c. *)
NotOlder(data, c) == data.of = 0 \/ data.of >= c

FreshInv ==
  /\ \A s \in Sandboxes : want[s] <= head
  /\ \A k \in Commits : NotOlder(cache[k].data, k)
  /\ \A s \in Sandboxes :
       /\ worker[s] \in {"restore", "save", "start", "copy", "evict", "done"}
       /\ want[s] # 0
       => NotOlder(snap[s], want[s])

-----------------------------------------------------------------------------
(* Volumes keep their type when they are mounted and when they change.    *)
LEMMA VolumeTypes ==
  /\ Nothing \in Content
  /\ Absent \in Volume
  /\ \A v \in Volume : Mounted(v) \in Volume /\ v.data \in Content
  /\ \A c \in Content : Part(c) \in Content /\ Part(c).of = c.of
  /\ \A v \in Volume, c \in Content : [v EXCEPT !.data = c] \in Volume
<1>1. Nothing \in Content /\ Absent \in Volume
  BY CacheAssumption DEF Nothing, Content, Absent, Volume
<1>2. \A v \in Volume : Mounted(v) \in Volume /\ v.data \in Content
  BY <1>1 DEF Mounted, Volume, Absent
<1>3. \A c \in Content : Part(c) \in Content /\ Part(c).of = c.of
  BY DEF Part, Content
<1>4. \A v \in Volume, c \in Content : [v EXCEPT !.data = c] \in Volume
  BY DEF Volume
<1>. QED
  BY <1>1, <1>2, <1>3, <1>4

LEMMA CacheInitInv == CacheInit => TypeInv /\ FreshInv
<1>. SUFFICES ASSUME CacheInit PROVE TypeInv /\ FreshInv
  OBVIOUS
<1>1. CacheTypeOK
  <2>. USE CacheAssumption, VolumeTypes DEF CacheInit
  <2>1. snap \in [Sandboxes -> Content] /\ cache \in [Commits -> Volume]
    OBVIOUS
  <2>2. victims \in [Sandboxes -> SUBSET Commits]
    OBVIOUS
  <2>3. /\ head \in Commits
        /\ worker \in [Sandboxes -> Place]
        /\ want \in [Sandboxes -> 0..MaxCommit]
        /\ src \in [Sandboxes -> 0..MaxCommit]
    BY DEF Commits, Place
  <2>4. /\ lock \in [Commits -> Sandboxes \cup {NoSandbox}]
        /\ \A k \in Commits : lock[k] = NoSandbox
    OBVIOUS
  <2>5. second \in Nat /\ buildFaults \in 0..MaxBuildFaults /\ outages \in 0..MaxOutages
    OBVIOUS
  <2>6. revived \in BOOLEAN
    OBVIOUS
  <2>. QED
    BY <2>1, <2>2, <2>3, <2>4, <2>5, <2>6 DEF CacheTypeOK
<1>2. Bearings /\ LocksHeld
  BY DEF CacheInit, Bearings, LocksHeld, Holding
<1>3. FreshInv
  BY CacheAssumption DEF CacheInit, FreshInv, NotOlder, Absent, Nothing, Commits
<1>. QED
  BY <1>1, <1>2, <1>3 DEF TypeInv

-----------------------------------------------------------------------------
(* Letting go of the lock: the other threads keep theirs.                 *)
LEMMA ReturnInv ==
  ASSUME TypeInv, NEW s \in Sandboxes, NEW label \in Ended, Return(s, label),
         UNCHANGED <<want, src>>
  PROVE  /\ worker' \in [Sandboxes -> Place]
         /\ lock' \in [Commits -> Sandboxes \cup {NoSandbox}]
         /\ \A k \in Commits : lock'[k] # NoSandbox =>
              worker'[lock'[k]] \in Holding /\ want'[lock'[k]] = k
         /\ Bearings' /\ LocksHeld'
<1>1. /\ worker' \in [Sandboxes -> Place]
      /\ lock' \in [Commits -> Sandboxes \cup {NoSandbox}]
  BY DEF TypeInv, CacheTypeOK, Return, Goto, Unlock, Place
<1>2. \A k \in Commits : lock'[k] # NoSandbox =>
        worker'[lock'[k]] \in Holding /\ want'[lock'[k]] = k
  BY CacheAssumption DEF TypeInv, CacheTypeOK, Return, Goto, Unlock
<1>3. Bearings'
  BY DEF TypeInv, CacheTypeOK, Bearings, Return, Goto, Ended
<1>4. LocksHeld'
  BY DEF TypeInv, CacheTypeOK, LocksHeld, Return, Goto, Unlock, Ended, Holding, Commits
<1>. QED
  BY <1>1, <1>2, <1>3, <1>4

(* Going on without touching a lock, to a place inside or before the block. *)
LEMMA GotoInv ==
  ASSUME TypeInv, NEW s \in Sandboxes, NEW label \in Place, Goto(s, label),
         UNCHANGED <<want, lock>>,
         worker[s] \in Holding <=> label \in Holding
  PROVE  /\ worker' \in [Sandboxes -> Place]
         /\ \A k \in Commits : lock'[k] # NoSandbox =>
              worker'[lock'[k]] \in Holding /\ want'[lock'[k]] = k
         /\ LocksHeld'
<1>1. worker' \in [Sandboxes -> Place]
  BY DEF TypeInv, CacheTypeOK, Goto
<1>2. \A k \in Commits : lock'[k] # NoSandbox =>
        worker'[lock'[k]] \in Holding /\ want'[lock'[k]] = k
  BY CacheAssumption DEF TypeInv, CacheTypeOK, Goto
<1>3. LocksHeld'
  BY DEF TypeInv, CacheTypeOK, LocksHeld, Goto
<1>. QED
  BY <1>1, <1>2, <1>3
-----------------------------------------------------------------------------
LEMMA TypeStep == TypeInv /\ [CacheNext]_cacheVars => TypeInv'
<1>. SUFFICES ASSUME TypeInv, [CacheNext]_cacheVars PROVE TypeInv'
  OBVIOUS
<1>. USE CacheAssumption
<1>1. CASE UNCHANGED cacheVars
  BY <1>1 DEF cacheVars, TypeInv, CacheTypeOK, Bearings, LocksHeld
<1>2. CASE Push
  BY <1>2 DEF Push, TypeInv, CacheTypeOK, Bearings, LocksHeld, Commits
<1>3. ASSUME NEW s \in Sandboxes, Request(s) PROVE TypeInv'
  <2>1. worker[s] = "idle" /\ Goto(s, "resolve") /\ UNCHANGED <<want, lock>>
    BY <1>3 DEF Request
  <2>2. Bearings'
    BY <1>3, <2>1 DEF Request, TypeInv, CacheTypeOK, Bearings, Goto
  <2>. QED
    BY <1>3, <2>1, <2>2, GotoInv
    DEF Request, TypeInv, CacheTypeOK, Place, Holding
<1>4. ASSUME NEW s \in Sandboxes, Resolve(s) PROVE TypeInv'
  <2>1. Bearings'
    BY <1>4 DEF Resolve, TypeInv, CacheTypeOK, Bearings, Goto, Commits
  <2>2. LocksHeld'
    BY <1>4 DEF Resolve, TypeInv, CacheTypeOK, LocksHeld, Goto, Holding
  <2>3. worker' \in [Sandboxes -> Place] /\ want' \in [Sandboxes -> 0..MaxCommit]
    BY <1>4 DEF Resolve, TypeInv, CacheTypeOK, Goto, Place, Commits
  <2>4. \A k \in Commits : lock'[k] # NoSandbox =>
          worker'[lock'[k]] \in Holding /\ want'[lock'[k]] = k
    BY <1>4 DEF Resolve, TypeInv, CacheTypeOK, Goto, Holding
  <2>. QED
    BY <1>4, <2>1, <2>2, <2>3, <2>4 DEF Resolve, TypeInv, CacheTypeOK
<1>5. ASSUME NEW s \in Sandboxes, FallBack(s) PROVE TypeInv'
  <2>1. PICK label \in {"create", "build"} : Goto(s, label)
    BY <1>5 DEF FallBack
  <2>2. want[s] = 0 /\ worker[s] = "resolve" /\ UNCHANGED <<want, lock>>
    BY <1>5 DEF FallBack, TypeInv, Bearings
  <2>3. Bearings'
    BY <1>5, <2>2 DEF FallBack, Labelled, TypeInv, CacheTypeOK, Bearings, Goto, Commits
  <2>4. LocksHeld'
    BY <2>1, <2>2 DEF TypeInv, CacheTypeOK, LocksHeld, Goto
  <2>5. worker' \in [Sandboxes -> Place] /\ src' \in [Sandboxes -> 0..MaxCommit]
    <3>1. worker' \in [Sandboxes -> Place]
      BY <2>1 DEF TypeInv, CacheTypeOK, Goto, Place, Holding
    <3>2. src' \in [Sandboxes -> 0..MaxCommit]
      BY <1>5 DEF FallBack, Labelled, TypeInv, CacheTypeOK, Commits
    <3>. QED  BY <3>1, <3>2
  <2>6. \A k \in Commits : lock'[k] # NoSandbox =>
          worker'[lock'[k]] \in Holding /\ want'[lock'[k]] = k
    BY <2>1, <2>2 DEF TypeInv, CacheTypeOK, Goto, Holding
  <2>7. outages' \in 0..MaxOutages
    BY <1>5 DEF FallBack, TypeInv, CacheTypeOK
  <2>. QED
    BY <1>5, <2>3, <2>4, <2>5, <2>6, <2>7 DEF FallBack, TypeInv, CacheTypeOK
<1>6. ASSUME NEW s \in Sandboxes, TakeLock(s) PROVE TypeInv'
  <2>1. want[s] \in Commits /\ lock[want[s]] = NoSandbox /\ UNCHANGED want
    BY <1>6 DEF TakeLock, TypeInv, CacheTypeOK, Bearings, Commits
  <2>2. Bearings'
    BY <1>6, <2>1 DEF TakeLock, TypeInv, CacheTypeOK, Bearings, Goto
  <2>3. LocksHeld'
    BY <1>6, <2>1 DEF TakeLock, TypeInv, CacheTypeOK, LocksHeld, Goto, Holding, Commits
  <2>4. /\ worker' \in [Sandboxes -> Place]
        /\ lock' \in [Commits -> Sandboxes \cup {NoSandbox}]
    BY <1>6 DEF TakeLock, TypeInv, CacheTypeOK, Goto, Place, Holding
  <2>5. \A k \in Commits : lock'[k] # NoSandbox =>
          worker'[lock'[k]] \in Holding /\ want'[lock'[k]] = k
    BY <1>6, <2>1 DEF TakeLock, TypeInv, CacheTypeOK, Goto, Holding
  <2>. QED
    BY <1>6, <2>2, <2>3, <2>4, <2>5 DEF TakeLock, TypeInv, CacheTypeOK
<1>7. ASSUME NEW s \in Sandboxes, Lookup(s) PROVE TypeInv'
  <2>1. want[s] \in Commits /\ worker[s] = "lookup" /\ UNCHANGED <<want, lock>>
    BY <1>7 DEF Lookup, TypeInv, CacheTypeOK, Bearings, Commits
  <2>2. PICK label \in {"create", "build"} : Goto(s, label)
    BY <1>7 DEF Lookup
  <2>3. Bearings'
    BY <1>7, <2>1 DEF Lookup, TypeInv, CacheTypeOK, Bearings, Goto
  <2>4. src' \in [Sandboxes -> 0..MaxCommit]
    BY <1>7, <2>1 DEF Lookup, TypeInv, CacheTypeOK
  <2>. QED
    BY <1>7, <2>1, <2>2, <2>3, <2>4, GotoInv
    DEF Lookup, TypeInv, CacheTypeOK, Place, Holding
<1>8. ASSUME NEW s \in Sandboxes, StartRestore(s) PROVE TypeInv'
  <2>1. src[s] \in Commits /\ worker[s] = "create" /\ UNCHANGED <<want, lock>>
    BY <1>8 DEF StartRestore, TypeInv, Bearings
  <2>2. cache' \in [Commits -> Volume] /\ snap' \in [Sandboxes -> Content]
    BY <1>8, <2>1, VolumeTypes DEF StartRestore, TypeInv, CacheTypeOK
  <2>3. revived' \in BOOLEAN
    BY <1>8 DEF StartRestore, Revive
  <2>4. Bearings'
    BY <1>8 DEF StartRestore, TypeInv, CacheTypeOK, Bearings, Goto
  <2>. QED
    BY <1>8, <2>1, <2>2, <2>3, <2>4, GotoInv
    DEF StartRestore, TypeInv, CacheTypeOK, Place, Holding
<1>9. ASSUME NEW s \in Sandboxes, EndRestore(s) PROVE TypeInv'
  <2>1. src[s] \in Commits
    BY <1>9 DEF EndRestore, TypeInv, Bearings
  <2>2. cache[src[s]].data \in Content /\ Part(snap[s]) \in Content
    BY <2>1, VolumeTypes DEF TypeInv, CacheTypeOK
  <2>3. snap' \in [Sandboxes -> Content]
    BY <1>9, <2>2 DEF EndRestore, TypeInv, CacheTypeOK
  <2>. QED
    BY <1>9, <2>3, ReturnInv DEF EndRestore, TypeInv, CacheTypeOK, Ended
<1>10. ASSUME NEW s \in Sandboxes, RestoreFails(s) PROVE TypeInv'
  <2>1. buildFaults' \in 0..MaxBuildFaults
    BY <1>10 DEF RestoreFails, BuildFault, TypeInv, CacheTypeOK
  <2>2. CASE Return(s, "failed")
    BY <1>10, <2>1, <2>2, ReturnInv DEF RestoreFails, TypeInv, CacheTypeOK, Ended
  <2>3. CASE want[s] # 0 /\ Goto(s, "build") /\ UNCHANGED lock
    <3>1. Bearings'
      BY <1>10, <2>3 DEF RestoreFails, TypeInv, CacheTypeOK, Bearings, Goto
    <3>. QED
      BY <1>10, <2>1, <2>3, <3>1, GotoInv
      DEF RestoreFails, TypeInv, CacheTypeOK, Place, Holding
  <2>. QED
    BY <1>10, <2>2, <2>3 DEF RestoreFails
<1>11. ASSUME NEW s \in Sandboxes, Build(s) PROVE TypeInv'
  <2>1. snap' \in [Sandboxes -> Content]
    BY <1>11 DEF Build, TypeInv, CacheTypeOK, Content, Commits
  <2>2. CASE want[s] = 0
    <3>1. Bearings'
      BY <1>11, <2>2 DEF Build, TypeInv, CacheTypeOK, Bearings, Goto
    <3>2. LocksHeld'
      BY <1>11, <2>2 DEF Build, TypeInv, CacheTypeOK, LocksHeld, Goto, Holding
    <3>3. worker' \in [Sandboxes -> Place]
      BY <1>11, <2>2 DEF Build, TypeInv, CacheTypeOK, Goto, Place, Ended
    <3>4. \A k \in Commits : lock'[k] # NoSandbox =>
            worker'[lock'[k]] \in Holding /\ want'[lock'[k]] = k
      BY <1>11, <2>2 DEF Build, TypeInv, CacheTypeOK, Goto, Commits
    <3>. QED
      BY <1>11, <2>1, <3>1, <3>2, <3>3, <3>4 DEF Build, TypeInv, CacheTypeOK
  <2>3. CASE want[s] # 0
    <3>1. Bearings'
      BY <1>11, <2>3 DEF Build, TypeInv, CacheTypeOK, Bearings, Goto
    <3>. QED
      BY <1>11, <2>1, <2>3, <3>1, GotoInv
      DEF Build, TypeInv, CacheTypeOK, Place, Holding
  <2>. QED
    BY <2>2, <2>3
<1>12. ASSUME NEW s \in Sandboxes, BuildFails(s) PROVE TypeInv'
  BY <1>12, ReturnInv DEF BuildFails, BuildFault, TypeInv, CacheTypeOK, Ended
<1>13. ASSUME NEW s \in Sandboxes, CreateVolume(s) PROVE TypeInv'
  <2>1. want[s] \in Commits /\ second' \in Nat
    BY <1>13 DEF CreateVolume, TypeInv, CacheTypeOK, Bearings, Commits
  <2>2. [there |-> TRUE, labelled |-> TRUE, built |-> second', data |-> Nothing]
          \in Volume
    BY <2>1, VolumeTypes DEF Volume
  <2>3. cache' \in [Commits -> Volume]
    BY <1>13, <2>1, <2>2 DEF CreateVolume, TypeInv, CacheTypeOK
  <2>4. Bearings'
    BY <1>13 DEF CreateVolume, TypeInv, CacheTypeOK, Bearings, Goto
  <2>. QED
    BY <1>13, <2>1, <2>3, <2>4, GotoInv
    DEF CreateVolume, TypeInv, CacheTypeOK, Place, Holding
<1>14. ASSUME NEW s \in Sandboxes, StartCopy(s) PROVE TypeInv'
  <2>1. want[s] \in Commits
    BY <1>14 DEF StartCopy, TypeInv, CacheTypeOK, Bearings, Commits
  <2>2. [Mounted(cache[want[s]]) EXCEPT !.data = Part(snap[s])] \in Volume
    BY <2>1, VolumeTypes DEF TypeInv, CacheTypeOK
  <2>3. cache' \in [Commits -> Volume] /\ revived' \in BOOLEAN
    BY <1>14, <2>1, <2>2 DEF StartCopy, Revive, TypeInv, CacheTypeOK
  <2>4. Bearings'
    BY <1>14 DEF StartCopy, TypeInv, CacheTypeOK, Bearings, Goto
  <2>. QED
    BY <1>14, <2>3, <2>4, GotoInv
    DEF StartCopy, TypeInv, CacheTypeOK, Place, Holding
<1>15. ASSUME NEW s \in Sandboxes, EndCopy(s) PROVE TypeInv'
  <2>1. want[s] \in Commits
    BY <1>15 DEF EndCopy, TypeInv, CacheTypeOK, Bearings, Commits
  <2>2. [cache[want[s]] EXCEPT !.data = snap[s]] \in Volume
    BY <2>1, VolumeTypes DEF TypeInv, CacheTypeOK
  <2>3. cache' \in [Commits -> Volume]
    BY <1>15, <2>1, <2>2 DEF EndCopy, TypeInv, CacheTypeOK
  <2>4. Bearings'
    BY <1>15 DEF EndCopy, TypeInv, CacheTypeOK, Bearings, Goto
  <2>. QED
    BY <1>15, <2>3, <2>4, GotoInv
    DEF EndCopy, TypeInv, CacheTypeOK, Place, Holding
<1>16. ASSUME NEW s \in Sandboxes, SaveFails(s) PROVE TypeInv'
  BY <1>16, ReturnInv DEF SaveFails, BuildFault, TypeInv, CacheTypeOK, Ended
<1>17. ASSUME NEW s \in Sandboxes, ListVictims(s) PROVE TypeInv'
  BY <1>17 DEF ListVictims, Labelled, TypeInv, CacheTypeOK, Bearings, LocksHeld
<1>18. ASSUME NEW s \in Sandboxes, Evict(s) PROVE TypeInv'
  <2>1. cache' \in [Commits -> Volume]
    BY <1>18, VolumeTypes DEF Evict, TypeInv, CacheTypeOK
  <2>2. victims' \in [Sandboxes -> SUBSET Commits]
    BY <1>18 DEF Evict, TypeInv, CacheTypeOK
  <2>3. Return(s, "done") \/ UNCHANGED <<worker, lock>>
    BY <1>18 DEF Evict
  <2>4. UNCHANGED <<want, src>>
    BY <1>18 DEF Evict
  <2>5. CASE Return(s, "done")
    BY <1>18, <2>1, <2>2, <2>4, <2>5, ReturnInv DEF Evict, TypeInv, CacheTypeOK, Ended
  <2>6. CASE UNCHANGED <<worker, lock>>
    BY <1>18, <2>1, <2>2, <2>6 DEF Evict, TypeInv, CacheTypeOK, Bearings, LocksHeld
  <2>. QED
    BY <2>3, <2>5, <2>6
<1>19. CASE CacheCrash
  <2>1. cache' \in [Commits -> Volume]
    <3>1. PICK finish \in BOOLEAN :
            cache' = [k \in Commits |->
                        IF finish /\ \E s \in Sandboxes : worker[s] = "copy" /\ want[s] = k
                        THEN [cache[k] EXCEPT !.data.whole = TRUE] ELSE cache[k]]
      BY <1>19 DEF CacheCrash
    <3>2. \A v \in Volume : [v EXCEPT !.data.whole = TRUE] \in Volume
      BY DEF Volume, Content
    <3>. QED
      BY <3>1, <3>2 DEF TypeInv, CacheTypeOK
  <2>2. /\ worker' \in [Sandboxes -> Place]
        /\ lock' \in [Commits -> Sandboxes \cup {NoSandbox}]
        /\ \A k \in Commits : lock'[k] = NoSandbox
    BY <1>19 DEF CacheCrash, TypeInv, CacheTypeOK, Place, Ended
  <2>3. /\ victims' \in [Sandboxes -> SUBSET Commits]
        /\ buildFaults' \in 0..MaxBuildFaults
    BY <1>19 DEF CacheCrash, BuildFault, TypeInv, CacheTypeOK
  <2>4. \A s \in Sandboxes : worker'[s] = worker[s] \/ worker'[s] = "dead"
    BY <1>19 DEF CacheCrash, TypeInv, CacheTypeOK
  <2>5. \A s \in Sandboxes : worker'[s] = "idle" \/ worker'[s] \in Ended
    BY <1>19 DEF CacheCrash, TypeInv, CacheTypeOK, Ended
  <2>6. Bearings'
    BY <1>19, <2>4 DEF CacheCrash, TypeInv, Bearings
  <2>7. LocksHeld'
    BY <1>19, <2>5 DEF LocksHeld, Holding, Ended
  <2>. QED
    BY <1>19, <2>1, <2>2, <2>3, <2>6, <2>7 DEF CacheCrash, TypeInv, CacheTypeOK
<1>. QED
  BY <1>1, <1>2, <1>3, <1>4, <1>5, <1>6, <1>7, <1>8, <1>9, <1>10, <1>11, <1>12,
     <1>13, <1>14, <1>15, <1>16, <1>17, <1>18, <1>19
  DEF CacheNext, WorkerStep

-----------------------------------------------------------------------------
(* HEAD never goes back, and data moves only between a volume and a thread *)
(* whose commit is the volume's key.                                       *)
LEMMA FreshStep == TypeInv /\ FreshInv /\ [CacheNext]_cacheVars => FreshInv'
<1>. SUFFICES ASSUME TypeInv, FreshInv, [CacheNext]_cacheVars PROVE FreshInv'
  OBVIOUS
<1>. USE CacheAssumption DEF NotOlder, Commits
<1>1. CASE UNCHANGED cacheVars
  BY <1>1 DEF cacheVars, FreshInv
<1>2. CASE Push
  BY <1>2 DEF Push, FreshInv, TypeInv, CacheTypeOK
<1>3. ASSUME NEW s \in Sandboxes, Request(s) PROVE FreshInv'
  BY <1>3 DEF Request, FreshInv, TypeInv, CacheTypeOK, Goto
<1>4. ASSUME NEW s \in Sandboxes, Resolve(s) PROVE FreshInv'
  BY <1>4 DEF Resolve, FreshInv, TypeInv, CacheTypeOK, Goto
<1>5. ASSUME NEW s \in Sandboxes, FallBack(s) PROVE FreshInv'
  BY <1>5 DEF FallBack, FreshInv, TypeInv, CacheTypeOK, Goto
<1>6. ASSUME NEW s \in Sandboxes, TakeLock(s) PROVE FreshInv'
  BY <1>6 DEF TakeLock, FreshInv, TypeInv, CacheTypeOK, Goto
<1>7. ASSUME NEW s \in Sandboxes, Lookup(s) PROVE FreshInv'
  BY <1>7 DEF Lookup, FreshInv, TypeInv, CacheTypeOK, Goto
<1>8. ASSUME NEW s \in Sandboxes, StartRestore(s) PROVE FreshInv'
  <2>1. src[s] \in Commits /\ (want[s] # 0 => src[s] = want[s])
    BY <1>8 DEF StartRestore, TypeInv, Bearings
  <2>2. \A k \in Commits : cache'[k].data.of = cache[k].data.of \/ cache'[k].data.of = 0
    BY <1>8 DEF StartRestore, TypeInv, CacheTypeOK, Mounted, Absent, Nothing, Volume
  <2>3. snap' = [snap EXCEPT ![s] = cache'[src[s]].data]
    BY <1>8 DEF StartRestore
  <2>. QED
    BY <1>8, <2>1, <2>2, <2>3 DEF StartRestore, FreshInv, TypeInv, CacheTypeOK, Goto
<1>9. ASSUME NEW s \in Sandboxes, EndRestore(s) PROVE FreshInv'
  <2>1. src[s] \in Commits /\ (want[s] # 0 => src[s] = want[s]) /\ worker[s] = "restore"
    BY <1>9 DEF EndRestore, TypeInv, Bearings
  <2>2. Part(snap[s]).of = snap[s].of
    BY VolumeTypes DEF TypeInv, CacheTypeOK
  <2>3. want[s] # 0 => NotOlder(snap'[s], want[s])
    BY <1>9, <2>1, <2>2 DEF EndRestore, FreshInv, TypeInv, CacheTypeOK
  <2>. QED
    BY <1>9, <2>3 DEF EndRestore, FreshInv, TypeInv, CacheTypeOK, Return, Goto
<1>10. ASSUME NEW s \in Sandboxes, RestoreFails(s) PROVE FreshInv'
  BY <1>10 DEF RestoreFails, FreshInv, TypeInv, CacheTypeOK, Return, Goto
<1>11. ASSUME NEW s \in Sandboxes, Build(s) PROVE FreshInv'
  BY <1>11 DEF Build, FreshInv, TypeInv, CacheTypeOK, Goto
<1>12. ASSUME NEW s \in Sandboxes, BuildFails(s) PROVE FreshInv'
  BY <1>12 DEF BuildFails, FreshInv, TypeInv, CacheTypeOK, Return, Goto
<1>13. ASSUME NEW s \in Sandboxes, CreateVolume(s) PROVE FreshInv'
  <2>1. \A k \in Commits : cache'[k].data.of = cache[k].data.of \/ cache'[k].data.of = 0
    BY <1>13 DEF CreateVolume, TypeInv, CacheTypeOK, Nothing
  <2>. QED
    BY <1>13, <2>1 DEF CreateVolume, FreshInv, TypeInv, CacheTypeOK, Goto
<1>14. ASSUME NEW s \in Sandboxes, StartCopy(s) PROVE FreshInv'
  <2>1. want[s] \in Commits /\ worker[s] = "start"
    BY <1>14 DEF StartCopy, TypeInv, CacheTypeOK, Bearings
  <2>2. Part(snap[s]).of = snap[s].of /\ Mounted(cache[want[s]]) \in Volume
    BY <2>1, VolumeTypes DEF TypeInv, CacheTypeOK
  <2>3. cache'[want[s]].data.of = snap[s].of
    BY <1>14, <2>1, <2>2 DEF StartCopy, TypeInv, CacheTypeOK, Volume
  <2>4. \A k \in Commits : k # want[s] => cache'[k] = cache[k]
    BY <1>14 DEF StartCopy, TypeInv, CacheTypeOK
  <2>5. \A k \in Commits : NotOlder(cache'[k].data, k)
    BY <2>1, <2>3, <2>4 DEF FreshInv
  <2>. QED
    BY <1>14, <2>5 DEF StartCopy, FreshInv, TypeInv, CacheTypeOK, Goto
<1>15. ASSUME NEW s \in Sandboxes, EndCopy(s) PROVE FreshInv'
  <2>1. want[s] \in Commits /\ worker[s] = "copy"
    BY <1>15 DEF EndCopy, TypeInv, CacheTypeOK, Bearings
  <2>2. cache'[want[s]].data = snap[s]
    BY <1>15, <2>1 DEF EndCopy, TypeInv, CacheTypeOK, Volume
  <2>3. \A k \in Commits : k # want[s] => cache'[k] = cache[k]
    BY <1>15 DEF EndCopy, TypeInv, CacheTypeOK
  <2>4. \A k \in Commits : NotOlder(cache'[k].data, k)
    BY <2>1, <2>2, <2>3 DEF FreshInv
  <2>. QED
    BY <1>15, <2>4 DEF EndCopy, FreshInv, TypeInv, CacheTypeOK, Goto
<1>16. ASSUME NEW s \in Sandboxes, SaveFails(s) PROVE FreshInv'
  BY <1>16 DEF SaveFails, FreshInv, TypeInv, CacheTypeOK, Return, Goto
<1>17. ASSUME NEW s \in Sandboxes, ListVictims(s) PROVE FreshInv'
  BY <1>17 DEF ListVictims, FreshInv
<1>18. ASSUME NEW s \in Sandboxes, Evict(s) PROVE FreshInv'
  <2>1. \A k \in Commits : cache'[k] = cache[k] \/ cache'[k].data.of = 0
    BY <1>18 DEF Evict, TypeInv, CacheTypeOK, Absent, Nothing
  <2>2. \A t \in Sandboxes : worker'[t] = worker[t] \/ worker[t] = "evict"
    BY <1>18 DEF Evict, TypeInv, CacheTypeOK, Return, Goto
  <2>. QED
    BY <1>18, <2>1, <2>2 DEF Evict, FreshInv
<1>19. CASE CacheCrash
  <2>1. \A k \in Commits : cache'[k].data.of = cache[k].data.of
    <3>1. PICK finish \in BOOLEAN :
            cache' = [k \in Commits |->
                        IF finish /\ \E s \in Sandboxes : worker[s] = "copy" /\ want[s] = k
                        THEN [cache[k] EXCEPT !.data.whole = TRUE] ELSE cache[k]]
      BY <1>19 DEF CacheCrash
    <3>2. \A v \in Volume : [v EXCEPT !.data.whole = TRUE].data.of = v.data.of
      BY DEF Volume, Content
    <3>. QED
      BY <3>1, <3>2 DEF TypeInv, CacheTypeOK
  <2>2. \A t \in Sandboxes : worker'[t] = worker[t] \/ worker'[t] = "dead"
    BY <1>19 DEF CacheCrash, TypeInv, CacheTypeOK
  <2>. QED
    BY <1>19, <2>1, <2>2 DEF CacheCrash, FreshInv
<1>. QED
  BY <1>1, <1>2, <1>3, <1>4, <1>5, <1>6, <1>7, <1>8, <1>9, <1>10, <1>11, <1>12,
     <1>13, <1>14, <1>15, <1>16, <1>17, <1>18, <1>19
  DEF CacheNext, WorkerStep

LEMMA CacheAlways == CacheSpec => [](TypeInv /\ FreshInv)
<1>1. TypeInv /\ FreshInv /\ [CacheNext]_cacheVars => (TypeInv /\ FreshInv)'
  BY TypeStep, FreshStep
<1>. QED
  BY CacheInitInv, <1>1, PTL DEF CacheSpec

-----------------------------------------------------------------------------
(* The build cache keeps its type, and a lock is only ever held by a thread *)
(* in the with block of its key (_build_locks, _get_or_build_app_sync).     *)
THEOREM CacheTypeCorrect == CacheSpec => []CacheTypeOK
<1>1. TypeInv => CacheTypeOK
  BY DEF TypeInv
<1>. QED
  BY CacheAlways, <1>1, PTL

(* Two runs never build or save under the same key at once, however many    *)
(* sandboxes, commits, failures and crashes there are.                      *)
THEOREM OneBuildPerKey == CacheSpec => []SingleFlight
<1>1. TypeInv => SingleFlight
  BY CacheAssumption DEF TypeInv, LocksHeld, SingleFlight, Holding
<1>. QED
  BY CacheAlways, <1>1, PTL

(* A thread that resolved HEAD never ends with the build of an older commit. *)
THEOREM SnapshotsNeverStale == CacheSpec => []NeverStale
<1>1. FreshInv => NeverStale
  BY DEF FreshInv, NeverStale, NotOlder
<1>. QED
  BY CacheAlways, <1>1, PTL

-----------------------------------------------------------------------------
(* As long as no call failed and no missing volume was mounted: a volume   *)
(* is whole or being written under its lock, a thread that restores under  *)
(* the lock reads a whole one that nobody changes, and what a thread saves *)
(* is whole.                                                               *)
Sound == buildFaults = 0 /\ ~revived

Writes(s, k) == worker[s] \in {"start", "copy"} /\ want[s] = k

WholeVolumes ==
  \A k \in Commits :
    cache[k].there => cache[k].data.whole \/ \E s \in Sandboxes : Writes(s, k)

WholeSources ==
  \A s \in Sandboxes : worker[s] = "restore" /\ want[s] # 0 =>
    /\ cache[src[s]].there
    /\ cache[src[s]].data = snap[s]
    /\ snap[s].whole

WholeSnapshots ==
  \A s \in Sandboxes :
    worker[s] \in {"save", "start", "copy", "evict", "done"} /\ want[s] # 0
      => snap[s].whole

WholeInv == Sound => WholeVolumes /\ WholeSources /\ WholeSnapshots

(* A thread that only moves on, to a place where it copies nothing.        *)
LEMMA MoveKeepsWhole ==
  ASSUME TypeInv, WholeVolumes, WholeSources, WholeSnapshots, NEW s \in Sandboxes,
         worker[s] \notin {"start", "copy"},
         worker'[s] \notin {"restore", "save", "start", "copy", "evict", "done"},
         \A t \in Sandboxes \ {s} : UNCHANGED <<worker[t], want[t], src[t]>>,
         UNCHANGED <<snap, cache>>
  PROVE  WholeVolumes' /\ WholeSources' /\ WholeSnapshots'
BY DEF WholeVolumes, WholeSources, WholeSnapshots, Writes

LEMMA WholeStep == TypeInv /\ WholeInv /\ [CacheNext]_cacheVars => WholeInv'
<1>. SUFFICES ASSUME TypeInv, WholeInv, [CacheNext]_cacheVars, Sound'
              PROVE  WholeVolumes' /\ WholeSources' /\ WholeSnapshots'
  BY DEF WholeInv
<1>. DEFINE Goal == WholeVolumes' /\ WholeSources' /\ WholeSnapshots'
<1>0. /\ buildFaults \in Nat /\ revived \in BOOLEAN
      /\ worker \in [Sandboxes -> Place]
      /\ want \in [Sandboxes -> 0..MaxCommit]
      /\ src \in [Sandboxes -> 0..MaxCommit]
      /\ snap \in [Sandboxes -> Content]
      /\ cache \in [Commits -> Volume]
      /\ Bearings /\ LocksHeld
  BY CacheAssumption DEF TypeInv, CacheTypeOK
<1>f. ASSUME BuildFault PROVE FALSE
  BY <1>0, <1>f DEF BuildFault, Sound
<1>s. WholeVolumes /\ WholeSources /\ WholeSnapshots
  <2>1. (buildFaults' = buildFaults \/ BuildFault) /\ (revived' \/ ~revived)
    BY <1>0 DEF CacheNext, cacheVars, Push, Request, FallBack, WorkerStep, RestoreFails,
       BuildFails, SaveFails, CacheCrash, Resolve, TakeLock, Lookup, StartRestore,
       EndRestore, Build, CreateVolume, StartCopy, EndCopy, ListVictims, Evict,
       Revive, Sound
  <2>. QED
    BY <1>f, <2>1 DEF WholeInv, Sound
<1>1. CASE UNCHANGED cacheVars
  BY <1>1, <1>s DEF cacheVars, WholeVolumes, WholeSources, WholeSnapshots, Writes
<1>2. CASE Push
  BY <1>2, <1>s DEF Push, WholeVolumes, WholeSources, WholeSnapshots, Writes
<1>3. ASSUME NEW s \in Sandboxes,
             \/ Request(s) \/ Resolve(s) \/ FallBack(s) \/ TakeLock(s) \/ Lookup(s)
      PROVE  Goal
  <2>1. /\ worker[s] \in {"idle", "resolve", "lock", "lookup"}
        /\ worker'[s] \in {"resolve", "lock", "create", "build", "lookup"}
        /\ \A t \in Sandboxes \ {s} : UNCHANGED <<worker[t], want[t], src[t]>>
        /\ UNCHANGED <<snap, cache>>
    BY <1>0, <1>3 DEF Request, Resolve, FallBack, TakeLock, Lookup, Goto
  <2>. QED
    BY <1>s, <2>1, MoveKeepsWhole
<1>4. ASSUME NEW s \in Sandboxes, StartRestore(s) PROVE Goal
  <2>1. src[s] \in Commits /\ worker[s] = "create"
    BY <1>0, <1>4 DEF StartRestore, Bearings
  <2>2. cache[src[s]].there
    BY <1>0, <1>4, <2>1 DEF StartRestore, Revive, Sound
  <2>3. cache' = cache
    BY <1>0, <1>4, <2>1, <2>2 DEF StartRestore, Mounted
  <2>4. /\ snap' = [snap EXCEPT ![s] = cache[src[s]].data]
        /\ worker' = [worker EXCEPT ![s] = "restore"]
        /\ UNCHANGED <<want, src>>
    BY <1>4, <2>3 DEF StartRestore, Goto
  <2>5. ASSUME want[s] # 0 PROVE cache[src[s]].data.whole
    <3>1. src[s] = want[s] /\ lock[want[s]] = s
      BY <1>0, <2>1, <2>5 DEF Bearings, LocksHeld, Holding
    <3>2. ASSUME NEW t \in Sandboxes, Writes(t, src[s]) PROVE FALSE
      <4>1. lock[want[t]] = t /\ want[t] = src[s]
        BY <1>0, <2>5, <3>1, <3>2 DEF Writes, LocksHeld, Holding
      <4>2. t = s
        BY <3>1, <4>1
      <4>. QED
        BY <2>1, <3>2, <4>2 DEF Writes
    <3>. QED
      BY <1>s, <2>1, <2>2, <3>2 DEF WholeVolumes
  <2>6. WholeVolumes'
    BY <1>0, <1>s, <2>1, <2>3, <2>4 DEF WholeVolumes, Writes
  <2>7. WholeSources'
    BY <1>0, <1>s, <2>2, <2>3, <2>4, <2>5 DEF WholeSources
  <2>8. WholeSnapshots'
    BY <1>0, <1>s, <2>1, <2>4 DEF WholeSnapshots
  <2>. QED
    BY <2>6, <2>7, <2>8
<1>5. ASSUME NEW s \in Sandboxes, EndRestore(s) PROVE Goal
  <2>1. /\ worker[s] = "restore"
        /\ worker' = [worker EXCEPT ![s] = "done"]
        /\ UNCHANGED <<want, src, cache>>
    BY <1>5 DEF EndRestore, Return, Goto
  <2>2. PICK data : /\ data \in {cache[src[s]].data, Part(snap[s])}
                    /\ data = snap[s] \/ cache[src[s]].data # snap[s]
                    /\ snap' = [snap EXCEPT ![s] = data]
    BY <1>5 DEF EndRestore
  <2>3. want[s] # 0 => data.whole
    BY <1>s, <2>1, <2>2 DEF WholeSources
  <2>. QED
    BY <1>0, <1>s, <2>1, <2>2, <2>3 DEF WholeVolumes, WholeSources, WholeSnapshots, Writes
<1>6. ASSUME NEW s \in Sandboxes, Build(s) PROVE Goal
  <2>1. /\ worker[s] = "build"
        /\ worker'[s] \in {"done", "save"}
        /\ snap'[s].whole
        /\ \A t \in Sandboxes \ {s} : worker'[t] = worker[t] /\ snap'[t] = snap[t]
        /\ UNCHANGED <<want, src, cache>>
    BY <1>0, <1>6 DEF Build, Goto
  <2>. QED
    BY <1>s, <2>1 DEF WholeVolumes, WholeSources, WholeSnapshots, Writes
<1>7. ASSUME NEW s \in Sandboxes,
             worker[s] \in {"save", "start", "copy"},
             \A k \in Commits \ {want[s]} : cache'[k] = cache[k],
             UNCHANGED <<want, src, snap>>,
             \A t \in Sandboxes \ {s} : worker'[t] = worker[t],
             worker'[s] \in {"start", "copy", "evict"},
             worker'[s] = "evict" => cache'[want[s]].data = snap[s]
      PROVE  Goal
  <2>1. want[s] \in Commits /\ lock[want[s]] = s /\ want[s] # 0
    BY <1>0, <1>7 DEF Bearings, LocksHeld, Holding, Commits
  <2>2. snap[s].whole
    BY <1>s, <1>7, <2>1 DEF WholeSnapshots
  <2>3. WholeVolumes'
    <3>. SUFFICES ASSUME NEW k \in Commits, cache'[k].there
                  PROVE  cache'[k].data.whole \/ \E t \in Sandboxes : Writes(t, k)'
      BY DEF WholeVolumes
    <3>1. CASE k = want[s]
      BY <1>7, <2>2, <3>1 DEF Writes
    <3>2. CASE k # want[s]
      <4>1. cache[k].data.whole \/ \E t \in Sandboxes : Writes(t, k)
        BY <1>s, <1>7, <3>2 DEF WholeVolumes
      <4>2. \A t \in Sandboxes : Writes(t, k) => Writes(t, k)'
        BY <1>7, <3>2 DEF Writes
      <4>. QED
        BY <1>7, <3>2, <4>1, <4>2
    <3>. QED
      BY <3>1, <3>2
  <2>4. WholeSources'
    <3>. SUFFICES ASSUME NEW t \in Sandboxes, worker'[t] = "restore", want'[t] # 0
                  PROVE  /\ cache'[src'[t]].there
                         /\ cache'[src'[t]].data = snap'[t]
                         /\ snap'[t].whole
      BY DEF WholeSources
    <3>1. t # s /\ worker[t] = "restore" /\ want[t] # 0
      BY <1>7
    <3>2. src[t] = want[t] /\ lock[want[t]] = t /\ src[t] \in Commits
      BY <1>0, <3>1 DEF Bearings, LocksHeld, Holding
    <3>3. src[t] # want[s]
      BY <2>1, <3>1, <3>2
    <3>. QED
      BY <1>s, <1>7, <3>1, <3>2, <3>3 DEF WholeSources
  <2>5. WholeSnapshots'
    BY <1>s, <1>7, <2>2 DEF WholeSnapshots
  <2>. QED
    BY <2>3, <2>4, <2>5
<1>8. ASSUME NEW s \in Sandboxes, CreateVolume(s) \/ StartCopy(s) \/ EndCopy(s)
      PROVE  Goal
  <2>1. want[s] \in Commits
    BY <1>0, <1>8 DEF CreateVolume, StartCopy, EndCopy, Bearings, Commits
  <2>2. /\ worker[s] \in {"save", "start", "copy"}
        /\ \A k \in Commits \ {want[s]} : cache'[k] = cache[k]
        /\ UNCHANGED <<want, src, snap>>
        /\ \A t \in Sandboxes \ {s} : worker'[t] = worker[t]
        /\ worker'[s] \in {"start", "copy", "evict"}
    BY <1>0, <1>8 DEF CreateVolume, StartCopy, EndCopy, Goto
  <2>3. worker'[s] = "evict" => cache'[want[s]].data = snap[s]
    <3>1. CASE EndCopy(s)
      BY <1>0, <2>1, <3>1 DEF EndCopy, Volume
    <3>2. CASE CreateVolume(s) \/ StartCopy(s)
      BY <1>0, <3>2 DEF CreateVolume, StartCopy, Goto
    <3>. QED
      BY <1>8, <3>1, <3>2
  <2>. QED
    BY <1>7, <2>2, <2>3
<1>9. ASSUME NEW s \in Sandboxes, ListVictims(s) PROVE Goal
  BY <1>9, <1>s DEF ListVictims, WholeVolumes, WholeSources, WholeSnapshots, Writes
<1>10. ASSUME NEW s \in Sandboxes, Evict(s) PROVE Goal
  <2>1. /\ UNCHANGED <<want, src, snap>>
        /\ worker[s] = "evict"
        /\ worker'[s] \in {"evict", "done"}
        /\ \A t \in Sandboxes \ {s} : worker'[t] = worker[t]
    BY <1>0, <1>10 DEF Evict, Return, Goto
  <2>2. \A k \in Commits : cache'[k] = cache[k] \/ (~cache'[k].there /\ ~InUse(k))
    BY <1>0, <1>10 DEF Evict, Absent
  <2>3. WholeSources'
    <3>. SUFFICES ASSUME NEW t \in Sandboxes, worker'[t] = "restore", want'[t] # 0
                  PROVE  /\ cache'[src'[t]].there
                         /\ cache'[src'[t]].data = snap'[t]
                         /\ snap'[t].whole
      BY DEF WholeSources
    <3>1. worker[t] = "restore" /\ want[t] # 0 /\ src[t] \in Commits
      BY <1>0, <2>1 DEF Bearings
    <3>2. cache'[src[t]] = cache[src[t]]
      BY <2>2, <3>1 DEF InUse
    <3>. QED
      BY <1>s, <2>1, <3>1, <3>2 DEF WholeSources
  <2>4. WholeVolumes'
    BY <1>s, <2>1, <2>2 DEF WholeVolumes, Writes
  <2>5. WholeSnapshots'
    BY <1>s, <2>1 DEF WholeSnapshots
  <2>. QED
    BY <2>3, <2>4, <2>5
<1>11. ASSUME NEW s \in Sandboxes, RestoreFails(s) \/ BuildFails(s) \/ SaveFails(s)
       PROVE  Goal
  BY <1>f, <1>11 DEF RestoreFails, BuildFails, SaveFails
<1>12. CASE CacheCrash
  BY <1>f, <1>12 DEF CacheCrash
<1>. QED
  BY <1>1, <1>2, <1>3, <1>4, <1>5, <1>6, <1>8, <1>9, <1>10, <1>11, <1>12
  DEF CacheNext, WorkerStep

(* A thread that holds the lock of its key gets a whole snapshot, restored *)
(* or built, as long as no call failed and no missing volume was mounted.  *)
THEOREM RestoresAreComplete == CacheSpec => []RestoredComplete
<1>1. CacheInit => WholeInv
  BY DEF CacheInit, WholeInv, WholeVolumes, WholeSources, WholeSnapshots, Absent
<1>2. WholeInv => RestoredComplete
  BY DEF WholeInv, Sound, WholeSnapshots, RestoredComplete
<1>. QED
  BY <1>1, <1>2, CacheAlways, WholeStep, PTL DEF CacheSpec
=============================================================================
