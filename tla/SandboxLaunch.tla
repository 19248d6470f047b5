--------------------------- MODULE SandboxLaunch ---------------------------
(***************************************************************************)
(* _provision_sync after the build of the application: the worker threads  *)
(* that start a chain (anvil), put the rollups contracts and test tokens   *)
(* on it, start the node and deploy its application.  They share a cache   *)
(* of chain states: two files per contracts version, a state that anvil    *)
(* loads and a sidecar with the addresses in it.                           *)
(*                                                                         *)
(* A file is an inode with a content; a path leads to an inode.  Opening a *)
(* ".tmp" path that exists truncates the inode it leads to, which another  *)
(* thread may have open; os.replace moves a path and leaves open handles.  *)
(* An inode is named for the thread that created it.  The addresses of a   *)
(* chain are known by the version of its contracts.                        *)
(*                                                                         *)
(* External: an anvil that is given a state which is not whole does not    *)
(* come up; Docker refuses a port that is taken.                           *)
(* Abstracted: images, environments, the compose file, helper containers,  *)
(* which start and are removed within one call, and the network.           *)
(***************************************************************************)
EXTENDS Naturals, FiniteSets

CONSTANTS
  Launches,
  Wanted,       \* the contracts version of each, NoVersion if it has none
  NoVersion,
  V2Launches,   \* launches of node releases of version 2 or more
  Stacked,      \* those with an SDK version: they get the six services
  Offsets,      \* port offsets (50 in the code)
  NoOffset,
  Nobody,       \* the inode of a path that does not exist
  MaxBreaks     \* bound: calls that raise, and crashes

ASSUME LaunchAssumption ==
  /\ IsFiniteSet(Launches) /\ Nobody \notin Launches
  /\ DOMAIN Wanted = Launches
  /\ Stacked \subseteq V2Launches /\ V2Launches \subseteq Launches
  /\ Offsets \in Nat \ {0} /\ NoOffset \notin Nat
  /\ MaxBreaks \in Nat

VARIABLES
  step,        \* where the thread of each launch is
  nextOffset,  \* _port_offset_counter, modulo Offsets
  offset,      \* the ports of each sandbox
  chain,       \* what its anvil has on its chain
  known,       \* the addresses its thread holds: those of a chain
  services,    \* how many of the node's services run
  hasApp,      \* its application: "none", "deployed" or "registered"
  path,        \* the inode each path of the cache leads to
  inode,       \* the content of the inodes
  handle,      \* the inode a thread writes to
  breaks

cacheFiles == <<path, inode, handle>>
sandboxes  == <<nextOffset, offset, chain, known, services, hasApp>>
launchVars == <<step, sandboxes, cacheFiles, breaks>>

SERVICES == 6

Versions == {Wanted[l] : l \in Launches} \cup {NoVersion}

(* A chain, and the content of a file: a chain, or nothing, or a mixture.  *)
ChainState == [body : {"whole", "empty", "torn", "none"}, contracts : Versions,
          tokens : BOOLEAN]

Fresh == [body |-> "whole", contracts |-> NoVersion, tokens |-> FALSE]
Blank == [Fresh EXCEPT !.body = "empty"]
NoState == [Fresh EXCEPT !.body = "none"]

Files == {"state", "addrs"}

(* _anvil_cache_key; a launch without a version has a key, too. *)
Keys == Versions

(* Mutant: the key forgets the version. *)
CacheKey_Any(l) == NoVersion

CacheKey(l) == Wanted[l]

Over == {"idle", "ready", "closed", "failed", "dead"}

LaunchInit ==
  /\ step = [l \in Launches |-> "idle"]
  /\ nextOffset = 0
  /\ offset = [l \in Launches |-> NoOffset]
  /\ chain = [l \in Launches |-> NoState]
  /\ known = [l \in Launches |-> NoState]
  /\ services = [l \in Launches |-> 0]
  /\ hasApp = [l \in Launches |-> "none"]
  /\ path = [k \in Keys |-> [f \in Files |-> [file |-> Nobody, tmp |-> Nobody]]]
  /\ inode = [l \in Launches |-> [f \in Files |-> Blank]]
  /\ handle = [l \in Launches |-> Nobody]
  /\ breaks = 0

Breaks == breaks < MaxBreaks /\ breaks' = breaks + 1

To(l, where) == step' = [step EXCEPT ![l] = where]

HasChain(l) == chain[l].body # "none"

-----------------------------------------------------------------------------
(* The sandbox gets its ports and its network. *)
BeginLaunch(l) ==
  /\ step[l] = "idle"
  /\ offset' = [offset EXCEPT ![l] = nextOffset]
  /\ nextOffset' = (nextOffset + 1) % Offsets
  /\ To(l, "lookup")
  /\ UNCHANGED <<chain, known, services, hasApp, cacheFiles, breaks>>

(* _anvil_cache_lookup_sync: both files exist and the sidecar parses.  The *)
(* state itself is not read here.                                          *)
Hit(k) ==
  /\ path[k]["state"].file # Nobody
  /\ path[k]["addrs"].file # Nobody
  /\ inode[path[k]["addrs"].file]["addrs"].body = "whole"

LookUpState(l) ==
  /\ step[l] = "lookup"
  /\ known' = [known EXCEPT ![l] =
       IF l \in V2Launches /\ Hit(CacheKey(l))
       THEN inode[path[CacheKey(l)]["addrs"].file]["addrs"] ELSE NoState]
  /\ To(l, "anvil")
  /\ UNCHANGED <<nextOffset, offset, chain, services, hasApp, cacheFiles, breaks>>

LoadsState(l) == known[l].body = "whole"

(* anvil reads the state when it starts. *)
StartAnvil(l) ==
  /\ step[l] = "anvil"
  /\ IF \E m \in Launches : HasChain(m) /\ offset[m] = offset[l]
     THEN To(l, "cleanup") /\ UNCHANGED chain
     ELSE /\ chain' = [chain EXCEPT ![l] =
               IF LoadsState(l) THEN inode[path[CacheKey(l)]["state"].file]["state"]
               ELSE Fresh]
          /\ To(l, "health")
  /\ UNCHANGED <<nextOffset, offset, known, services, hasApp, cacheFiles, breaks>>

AwaitAnvil(l) ==
  /\ step[l] = "health"
  /\ To(l, IF chain[l].body = "whole" THEN "contracts" ELSE "cleanup")
  /\ UNCHANGED <<sandboxes, cacheFiles, breaks>>

(* Nothing to do after a hit, or without a version. *)
DeployContracts(l) ==
  /\ step[l] = "contracts"
  /\ IF LoadsState(l) \/ Wanted[l] = NoVersion
     THEN UNCHANGED <<chain, known>>
     ELSE /\ chain' = [chain EXCEPT ![l].contracts = Wanted[l]]
          /\ known' = [known EXCEPT ![l].contracts = Wanted[l]]
  /\ To(l, "tokens")
  /\ UNCHANGED <<nextOffset, offset, services, hasApp, cacheFiles, breaks>>

(* Tokens are for v2; what was deployed is then saved. *)
DeployTokens(l) ==
  /\ step[l] = "tokens"
  /\ IF LoadsState(l) \/ l \notin V2Launches
     THEN UNCHANGED <<chain, known>> /\ To(l, "node")
     ELSE /\ chain' = [chain EXCEPT ![l].tokens = TRUE]
          /\ known' = [known EXCEPT ![l].tokens = TRUE]
          /\ To(l, "open_state")
  /\ UNCHANGED <<nextOffset, offset, services, hasApp, cacheFiles, breaks>>

-----------------------------------------------------------------------------
(* _anvil_cache_save_sync: dump the chain; open, write and replace the     *)
(* state, then the same for the sidecar.                                   *)

SaveStep(l, what, where) ==
  /\ step[l] = what
  /\ To(l, where)
  /\ UNCHANGED <<sandboxes, breaks>>

OpenTmp(l, f) ==
  LET k   == CacheKey(l)
      tmp == path[k][f].tmp
      i   == IF tmp = Nobody THEN l ELSE tmp
  IN  /\ path' = [path EXCEPT ![k][f].tmp = i]
      /\ inode' = [inode EXCEPT ![i][f] = Blank]
      /\ handle' = [handle EXCEPT ![l] = i]

(* A second writer leaves what is longer of the first one's dump; sidecars *)
(* of one version are the same byte for byte.                              *)
WriteTmp(l, f) ==
  LET i    == handle[l]
      mine == IF f = "state" THEN chain[l] ELSE [known[l] EXCEPT !.body = "whole"]
  IN  /\ inode' \in {[inode EXCEPT ![i][f] = c] :
             c \in IF f = "addrs" \/ inode[i][f].body = "empty" THEN {mine}
                   ELSE {mine, [mine EXCEPT !.body = "torn"]}}
      /\ UNCHANGED <<path, handle>>

ReplaceTmp(l, f) ==
  LET k == CacheKey(l)
  IN  /\ path[k][f].tmp # Nobody
      /\ path' = [path EXCEPT ![k][f] = [file |-> @.tmp, tmp |-> Nobody]]
      /\ UNCHANGED <<inode, handle>>

SaveState(l) ==
  \/ SaveStep(l, "open_state", "write_state") /\ OpenTmp(l, "state")
  \/ SaveStep(l, "write_state", "replace_state") /\ WriteTmp(l, "state")
  \/ SaveStep(l, "replace_state", "open_addrs") /\ ReplaceTmp(l, "state")
  \/ SaveStep(l, "open_addrs", "write_addrs") /\ OpenTmp(l, "addrs")
  \/ SaveStep(l, "write_addrs", "replace_addrs") /\ WriteTmp(l, "addrs")
  \/ SaveStep(l, "replace_addrs", "node") /\ ReplaceTmp(l, "addrs")

Saving == {"open_state", "write_state", "replace_state",
           "open_addrs", "write_addrs", "replace_addrs"}

(* A save that raises is logged, and the launch goes on: the path another  *)
(* thread has moved, or any other error.                                   *)
SaveRaises(l) ==
  /\ step[l] \in Saving
  /\ \/ /\ \/ step[l] = "replace_state" /\ path[CacheKey(l)]["state"].tmp = Nobody
           \/ step[l] = "replace_addrs" /\ path[CacheKey(l)]["addrs"].tmp = Nobody
        /\ UNCHANGED breaks
     \/ Breaks
  /\ To(l, "node")
  /\ UNCHANGED <<sandboxes, cacheFiles>>

-----------------------------------------------------------------------------
(* The node: one container, or the database and five services one after    *)
(* the other; what was started before one that fails is not in the list    *)
(* the cleanup goes through.                                               *)
StartNode(l) ==
  /\ step[l] = "node"
  /\ services' = [services EXCEPT ![l] = IF l \in Stacked THEN SERVICES ELSE 1]
  /\ To(l, IF l \in Stacked THEN "deploy" ELSE "ready")
  /\ UNCHANGED <<nextOffset, offset, chain, known, hasApp, cacheFiles, breaks>>

NodeRaises(l) ==
  /\ step[l] = "node" /\ l \in Stacked
  /\ Breaks
  /\ \E n \in 1..(SERVICES - 1) : services' = [services EXCEPT ![l] = n]
  /\ To(l, "cleanup")
  /\ UNCHANGED <<nextOffset, offset, chain, known, hasApp, cacheFiles>>

(* Machine hash, predicted address, deployContracts; then the registration *)
(* with the node, whose failure is only logged, and the wait for blocks.   *)
DeployApp(l) ==
  /\ step[l] = "deploy"
  /\ \/ hasApp' = [hasApp EXCEPT ![l] = "registered"] /\ UNCHANGED breaks
     \/ hasApp' = [hasApp EXCEPT ![l] = "deployed"] /\ Breaks
  /\ To(l, "ready")
  /\ UNCHANGED <<nextOffset, offset, chain, known, services, cacheFiles>>

LaunchRaises(l) ==
  /\ step[l] \in {"lookup", "anvil", "health", "contracts", "tokens", "deploy"}
  /\ Breaks
  /\ To(l, "cleanup")
  /\ UNCHANGED <<sandboxes, cacheFiles>>

(* _teardown_sync of the containers in the list.  A stack that failed half *)
(* way is not in it: its containers are left to the collector.             *)
Listed(l) == services[l] \in {0, 1, SERVICES}

CleanUp(l) ==
  /\ step[l] = "cleanup"
  /\ services' = [services EXCEPT ![l] = IF Listed(l) THEN 0 ELSE @]
  /\ chain' = [chain EXCEPT ![l] = NoState]
  /\ To(l, "failed")
  /\ UNCHANGED <<nextOffset, offset, known, hasApp, cacheFiles, breaks>>

(* The consumer tears a sandbox down after its tests. *)
CloseSandbox(l) ==
  /\ step[l] = "ready"
  /\ services' = [services EXCEPT ![l] = 0]
  /\ chain' = [chain EXCEPT ![l] = NoState]
  /\ To(l, "closed")
  /\ UNCHANGED <<nextOffset, offset, known, hasApp, cacheFiles, breaks>>

(* The process dies; the files stay as they are, and the start of the next *)
(* one removes all containers (SandboxManager).                            *)
LaunchCrash ==
  /\ Breaks
  /\ step' = [l \in Launches |-> IF step[l] \in Over THEN step[l] ELSE "dead"]
  /\ UNCHANGED <<sandboxes, cacheFiles>>

-----------------------------------------------------------------------------
LaunchStep(l) ==
  \/ LookUpState(l) \/ StartAnvil(l) \/ AwaitAnvil(l)
  \/ DeployContracts(l) \/ DeployTokens(l) \/ SaveState(l) \/ SaveRaises(l)
  \/ StartNode(l) \/ NodeRaises(l) \/ DeployApp(l) \/ LaunchRaises(l)
  \/ CleanUp(l)

LaunchNext ==
  \/ \E l \in Launches : BeginLaunch(l) \/ LaunchStep(l) \/ CloseSandbox(l)
  \/ LaunchCrash

LaunchSpec == LaunchInit /\ [][LaunchNext]_launchVars

-----------------------------------------------------------------------------
(* Services run on a chain that has the contracts of their release and,    *)
(* for v2, the test tokens, and are given the addresses of that chain:     *)
(* whether it was deployed or loaded, from a state and a sidecar that two  *)
(* other launches may have written at the same time                        *)
(* (provisioner.py:376-490).                                               *)
OnChain(l, c) ==
  c.contracts = Wanted[l] /\ (c.tokens <=> l \in V2Launches)

NodesOnRightChain ==
  \A l \in Launches :
    services[l] > 0 /\ step[l] \in {"deploy", "ready"} =>
      OnChain(l, chain[l]) /\ OnChain(l, known[l])

(* "persist state + address sidecar atomically" (provisioner.py:717): a    *)
(* state that a launch would load is whole.                                *)
CachedStateWhole ==
  \A k \in Keys :
    Hit(k) => inode[path[k]["state"].file]["state"].body = "whole"
=============================================================================
