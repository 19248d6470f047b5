--------------------------- MODULE AppBuildCache ---------------------------
(***************************************************************************)
(* The build cache of the provisioner for one application: the worker      *)
(* threads that ask _get_or_build_app_sync for a machine snapshot, the     *)
(* lock per cache key, the cache volumes and their eviction.               *)
(*                                                                         *)
(* A cache key is the commit HEAD was resolved to; a later commit is a     *)
(* larger number.  A build clones HEAD again, so it may be of a later      *)
(* commit than its key.  The containers that copy a volume into another    *)
(* keep both from being removed; Docker creates, without labels, a volume  *)
(* that is mounted and does not exist (external behaviour).                *)
(*                                                                         *)
(* Abstracted: one CLI version, the retries of git, and the clock: a       *)
(* volume is stamped with the number of the builds saved before it, or     *)
(* with the same second as the last one.                                   *)
(***************************************************************************)
EXTENDS Naturals, FiniteSets

CONSTANTS
  Sandboxes,              \* sandboxes that are provisioned with the app
  NoSandbox,              \* the owner of a free lock
  MaxCommit,              \* bound: commits pushed to the application
  APP_CACHE_MAX_PER_APP,  \* cache volumes an eviction keeps
  MaxBuildFaults,         \* bound: failed builds and copies, crashes
  MaxOutages              \* bound: ls-remote calls that fail

ASSUME CacheAssumption ==
  /\ NoSandbox \notin Sandboxes
  /\ MaxCommit \in Nat \ {0}
  /\ APP_CACHE_MAX_PER_APP \in Nat
  /\ MaxBuildFaults \in Nat
  /\ MaxOutages \in Nat

VARIABLES
  head,      \* HEAD of the application's repository
  worker,    \* where the worker thread of each sandbox is
  want,      \* the commit it resolved, 0: none
  src,       \* the cache volume it restores from, 0: none
  snap,      \* content of the sandbox's own volume
  lock,      \* _build_locks: who holds the lock of a key
  cache,     \* the cache volume of each key
  victims,   \* to_evict: volumes a worker has still to remove
  second,    \* the clock of rvp.built_at
  revived,   \* history: Docker has created a missing cache volume
  buildFaults, outages

cacheVars == <<head, worker, want, src, snap, lock, cache, victims, second,
               revived, buildFaults, outages>>

Commits == 1..MaxCommit

(* What is in a volume: nothing, a part or all of the build of a commit. *)
Content == [of : 0..MaxCommit, whole : BOOLEAN]
Nothing == [of |-> 0, whole |-> FALSE]
Part(c) == [c EXCEPT !.whole = FALSE]

Volume == [there : BOOLEAN, labelled : BOOLEAN, built : Nat, data : Content]
Absent == [there |-> FALSE, labelled |-> FALSE, built |-> 0, data |-> Nothing]

(* A mount of a volume that does not exist creates it empty and unlabelled. *)
Mounted(v) == IF v.there THEN v ELSE [Absent EXCEPT !.there = TRUE]

Holding == {"lookup", "create", "restore", "build", "save", "start", "copy", "evict"}
Ended   == {"done", "failed", "dead"}
Place   == {"idle", "resolve", "lock"} \cup Holding \cup Ended

CacheTypeOK ==
  /\ head \in Commits
  /\ worker \in [Sandboxes -> Place]
  /\ want \in [Sandboxes -> 0..MaxCommit]
  /\ src \in [Sandboxes -> 0..MaxCommit]
  /\ snap \in [Sandboxes -> Content]
  /\ lock \in [Commits -> Sandboxes \cup {NoSandbox}]
  /\ \A k \in Commits :
       lock[k] # NoSandbox => worker[lock[k]] \in Holding /\ want[lock[k]] = k
  /\ cache \in [Commits -> Volume]
  /\ victims \in [Sandboxes -> SUBSET Commits]
  /\ second \in Nat
  /\ revived \in BOOLEAN
  /\ buildFaults \in 0..MaxBuildFaults
  /\ outages \in 0..MaxOutages

CacheInit ==
  /\ head = 1
  /\ worker = [s \in Sandboxes |-> "idle"]
  /\ want = [s \in Sandboxes |-> 0]
  /\ src = [s \in Sandboxes |-> 0]
  /\ snap = [s \in Sandboxes |-> Nothing]
  /\ lock = [k \in Commits |-> NoSandbox]
  /\ cache = [k \in Commits |-> Absent]
  /\ victims = [s \in Sandboxes |-> {}]
  /\ second = 0
  /\ revived = FALSE
  /\ buildFaults = 0
  /\ outages = 0

-----------------------------------------------------------------------------
(* The volumes an eviction or a fallback finds by their labels. *)
Labelled == {k \in Commits : cache[k].there /\ cache[k].labelled}

(* A volume is in use while a container copies from it or into it. *)
InUse(k) ==
  \E s \in Sandboxes :
    \/ worker[s] = "restore" /\ src[s] = k
    \/ worker[s] = "copy" /\ want[s] = k

Goto(s, label) == worker' = [worker EXCEPT ![s] = label]

(* Leaving the with block, or the code that never entered it. *)
Unlock(s) == lock' = [k \in Commits |-> IF lock[k] = s THEN NoSandbox ELSE lock[k]]

Return(s, label) == Goto(s, label) /\ Unlock(s)

BuildFault == buildFaults < MaxBuildFaults /\ buildFaults' = buildFaults + 1

Revive(k) == revived' = (revived \/ ~cache[k].there)

-----------------------------------------------------------------------------
(* The developers push a commit. *)
Push ==
  /\ head < MaxCommit
  /\ head' = head + 1
  /\ UNCHANGED <<worker, want, src, snap, lock, cache, victims, second, revived,
                 buildFaults, outages>>

(* _provision_sync, phase 0: the run has an application. *)
Request(s) ==
  /\ worker[s] = "idle"
  /\ Goto(s, "resolve")
  /\ UNCHANGED <<head, want, src, snap, lock, cache, victims, second, revived,
                 buildFaults, outages>>

(* git ls-remote *)
Resolve(s) ==
  /\ worker[s] = "resolve"
  /\ want' = [want EXCEPT ![s] = head]
  /\ Goto(s, "lock")
  /\ UNCHANGED <<head, src, snap, lock, cache, victims, second, revived,
                 buildFaults, outages>>

(***************************************************************************)
(* GitHub is unreachable: the newest build of the cache, without its lock, *)
(* or a build of its own that is not saved.                                *)
(***************************************************************************)
FallBack(s) ==
  /\ worker[s] = "resolve"
  /\ outages < MaxOutages
  /\ outages' = outages + 1
  /\ \/ /\ \E k \in Labelled :
             /\ \A l \in Labelled : cache[l].built <= cache[k].built
             /\ src' = [src EXCEPT ![s] = k]
        /\ Goto(s, "create")
     \/ /\ Labelled = {}
        /\ Goto(s, "build")
        /\ UNCHANGED src
  /\ UNCHANGED <<head, want, snap, lock, cache, victims, second, revived, buildFaults>>

(* Mutant of TakeLock: no lock. *)
TakeLock_None(s) ==
  /\ worker[s] = "lock"
  /\ lock' = [lock EXCEPT ![want[s]] = s]
  /\ Goto(s, "lookup")
  /\ UNCHANGED <<head, want, src, snap, cache, victims, second, revived,
                 buildFaults, outages>>

(* with lock: *)
TakeLock(s) ==
  /\ worker[s] = "lock"
  /\ lock[want[s]] = NoSandbox
  /\ lock' = [lock EXCEPT ![want[s]] = s]
  /\ Goto(s, "lookup")
  /\ UNCHANGED <<head, want, src, snap, cache, victims, second, revived,
                 buildFaults, outages>>

(* Mutant of Lookup: a first look before the lock is taken. *)
Lookup_Unlocked(s) ==
  /\ \/ worker[s] = "lookup"
     \/ worker[s] = "lock" /\ cache[want[s]].there
  /\ IF cache[want[s]].there
     THEN Goto(s, "create") /\ src' = [src EXCEPT ![s] = want[s]]
     ELSE Goto(s, "build") /\ UNCHANGED src
  /\ UNCHANGED <<head, want, snap, lock, cache, victims, second, revived,
                 buildFaults, outages>>

(* Mutant of Lookup: the key does not tell the commits apart. *)
Lookup_AnyCommit(s) ==
  /\ worker[s] = "lookup"
  /\ IF \E k \in Commits : cache[k].there
     THEN /\ Goto(s, "create")
          /\ src' = [src EXCEPT ![s] = CHOOSE k \in Commits : cache[k].there]
     ELSE Goto(s, "build") /\ UNCHANGED src
  /\ UNCHANGED <<head, want, snap, lock, cache, victims, second, revived,
                 buildFaults, outages>>

(* A hit is a volume of that name, whatever is in it. *)
Lookup(s) ==
  /\ worker[s] = "lookup"
  /\ IF cache[want[s]].there
     THEN Goto(s, "create") /\ src' = [src EXCEPT ![s] = want[s]]
     ELSE Goto(s, "build") /\ UNCHANGED src
  /\ UNCHANGED <<head, want, snap, lock, cache, victims, second, revived,
                 buildFaults, outages>>

(* _create_volume_from_cache_sync: a new volume and the copy container. *)
StartRestore(s) ==
  /\ worker[s] = "create"
  /\ cache' = [cache EXCEPT ![src[s]] = Mounted(@)]
  /\ Revive(src[s])
  /\ snap' = [snap EXCEPT ![s] = cache'[src[s]].data]
  /\ Goto(s, "restore")
  /\ UNCHANGED <<head, want, src, lock, victims, second, buildFaults, outages>>

(* A source that changed meanwhile: what it is now, or only a part of it. *)
EndRestore(s) ==
  /\ worker[s] = "restore"
  /\ \E data \in {cache[src[s]].data, Part(snap[s])} :
       /\ data = snap[s] \/ cache[src[s]].data # snap[s]
       /\ snap' = [snap EXCEPT ![s] = data]
  /\ Return(s, "done")
  /\ UNCHANGED <<head, want, src, cache, victims, second, revived, buildFaults, outages>>

(* A NotFound in the with block is taken for a miss, whatever raised it. *)
RestoreFails(s) ==
  /\ worker[s] = "restore"
  /\ BuildFault
  /\ \/ Return(s, "failed")
     \/ want[s] # 0 /\ Goto(s, "build") /\ UNCHANGED lock
  /\ UNCHANGED <<head, want, src, snap, cache, victims, second, revived, outages>>

(* _build_app_sync: the clone is of HEAD as it is now. *)
Build(s) ==
  /\ worker[s] = "build"
  /\ snap' = [snap EXCEPT ![s] = [of |-> head, whole |-> TRUE]]
  /\ Goto(s, IF want[s] = 0 THEN "done" ELSE "save")
  /\ UNCHANGED <<head, want, src, lock, cache, victims, second, revived,
                 buildFaults, outages>>

(* Mutant of BuildFails: the exception leaves the lock behind. *)
BuildFails_KeepsLock(s) ==
  /\ worker[s] = "build"
  /\ BuildFault
  /\ Goto(s, "failed")
  /\ UNCHANGED <<head, want, src, snap, lock, cache, victims, second, revived,
                 outages>>

BuildFails(s) ==
  /\ worker[s] = "build"
  /\ BuildFault
  /\ Return(s, "failed")
  /\ UNCHANGED <<head, want, src, snap, cache, victims, second, revived, outages>>

(***************************************************************************)
(* _save_snapshot_to_cache_sync: the old volume, if any, is removed; one   *)
(* that is in use stays, and creating it again returns it as it is.        *)
(***************************************************************************)
CreateVolume(s) ==
  /\ worker[s] = "save"
  /\ second' \in {second, second + 1}
  /\ cache' = [cache EXCEPT ![want[s]] =
                 IF @.there /\ InUse(want[s]) THEN @
                 ELSE [there |-> TRUE, labelled |-> TRUE, built |-> second',
                       data |-> Nothing]]
  /\ Goto(s, "start")
  /\ UNCHANGED <<head, want, src, snap, lock, victims, revived, buildFaults, outages>>

StartCopy(s) ==
  /\ worker[s] = "start"
  /\ cache' = [cache EXCEPT ![want[s]] = [Mounted(@) EXCEPT !.data = Part(snap[s])]]
  /\ Revive(want[s])
  /\ Goto(s, "copy")
  /\ UNCHANGED <<head, want, src, snap, lock, victims, second, buildFaults, outages>>

EndCopy(s) ==
  /\ worker[s] = "copy"
  /\ cache' = [cache EXCEPT ![want[s]].data = snap[s]]
  /\ Goto(s, "evict")
  /\ UNCHANGED <<head, want, src, snap, lock, victims, second, revived,
                 buildFaults, outages>>

(* A failed save is logged; the volume stays as the copy has left it. *)
SaveFails(s) ==
  /\ worker[s] \in {"save", "start", "copy"}
  /\ BuildFault
  /\ Return(s, "done")
  /\ UNCHANGED <<head, want, src, snap, cache, victims, second, revived, outages>>

(* _evict_old_build_cache_sync: the oldest but APP_CACHE_MAX_PER_APP. *)
ListVictims(s) ==
  /\ worker[s] = "evict"
  /\ victims[s] = {}
  /\ Cardinality(Labelled) > APP_CACHE_MAX_PER_APP
  /\ \E V \in SUBSET Labelled :
       /\ Cardinality(V) = Cardinality(Labelled) - APP_CACHE_MAX_PER_APP
       /\ \A v \in V, k \in Labelled \ V : cache[v].built <= cache[k].built
       /\ victims' = [victims EXCEPT ![s] = V]
  /\ UNCHANGED <<head, worker, want, src, snap, lock, cache, second, revived,
                 buildFaults, outages>>

(* vol.remove, and the return when it was the last or there was none. *)
Evict(s) ==
  /\ worker[s] = "evict"
  /\ \/ /\ victims[s] = {}
        /\ Cardinality(Labelled) <= APP_CACHE_MAX_PER_APP
        /\ Return(s, "done")
        /\ UNCHANGED <<cache, victims>>
     \/ \E v \in victims[s] :
          /\ cache' = [cache EXCEPT ![v] = IF InUse(v) THEN @ ELSE Absent]
          /\ victims' = [victims EXCEPT ![s] = @ \ {v}]
          /\ IF victims[s] = {v} THEN Return(s, "done") ELSE UNCHANGED <<worker, lock>>
  /\ UNCHANGED <<head, want, src, snap, second, revived, buildFaults, outages>>

(***************************************************************************)
(* The sandbox-manager is killed.  A copy container goes on: its volume    *)
(* is whole in the end, or not if the host is what died.                   *)
(***************************************************************************)
CacheCrash ==
  /\ BuildFault
  /\ worker' = [s \in Sandboxes |-> IF worker[s] = "idle" THEN "idle" ELSE
                                    IF worker[s] \in Ended THEN worker[s] ELSE "dead"]
  /\ lock' = [k \in Commits |-> NoSandbox]
  /\ victims' = [s \in Sandboxes |-> {}]
  /\ \E finish \in BOOLEAN :
       cache' = [k \in Commits |->
                   IF finish /\ \E s \in Sandboxes : worker[s] = "copy" /\ want[s] = k
                   THEN [cache[k] EXCEPT !.data.whole = TRUE] ELSE cache[k]]
  /\ UNCHANGED <<head, want, src, snap, second, revived, outages>>

WorkerStep(s) ==
  \/ Resolve(s) \/ TakeLock(s) \/ Lookup(s) \/ StartRestore(s) \/ EndRestore(s)
  \/ Build(s) \/ CreateVolume(s) \/ StartCopy(s) \/ EndCopy(s) \/ ListVictims(s)
  \/ Evict(s)

CacheNext ==
  \/ Push
  \/ \E s \in Sandboxes :
       \/ Request(s) \/ FallBack(s) \/ WorkerStep(s)
       \/ RestoreFails(s) \/ BuildFails(s) \/ SaveFails(s)
  \/ CacheCrash

CacheSpec == CacheInit /\ [][CacheNext]_cacheVars

(* Every thread runs on: git, builds and copies have timeouts. *)
FairCacheSpec == CacheSpec /\ \A s \in Sandboxes : WF_cacheVars(WorkerStep(s))

-----------------------------------------------------------------------------
(* _build_locks "prevents two concurrent runs from building the same (app, *)
(* cli_version, commit_sha) combination simultaneously": at most one       *)
(* thread builds or saves under a key.                                     *)
SingleFlight ==
  \A s, t \in Sandboxes :
    /\ worker[s] \in {"build", "save", "start", "copy"}
    /\ worker[t] \in {"build", "save", "start", "copy"}
    /\ want[s] = want[t] /\ want[s] # 0
    => s = t

(* A sandbox whose HEAD could be resolved never gets a snapshot that is    *)
(* older, from the cache or from a build, whatever is pushed, evicted or   *)
(* crashes meanwhile (an empty volume is of no commit).                    *)
NeverStale ==
  \A s \in Sandboxes :
    worker[s] = "done" /\ want[s] # 0 => snap[s].of = 0 \/ snap[s].of >= want[s]

(* As long as no call failed and Docker had not to create a volume that an *)
(* eviction had removed, a thread that holds the lock of its key restores  *)
(* or builds a complete snapshot: it never reads a half-saved volume.      *)
RestoredComplete ==
  buildFaults = 0 /\ ~revived =>
    \A s \in Sandboxes : worker[s] = "done" /\ want[s] # 0 => snap[s].whole

(* Every request for an application comes to an end: locks are released by *)
(* whoever held them, also when its build or copy failed.                  *)
BuildsEnd == \A s \in Sandboxes : worker[s] = "resolve" ~> worker[s] \in Ended
=============================================================================
