---------------------- MODULE SandboxContainers_proofs ----------------------
(***************************************************************************)
(* Proofs about the containers of sandboxes: SandboxLaunch, for any number *)
(* of launches, versions, ports and failures, and LogStreams, for any      *)
(* number of containers and lines, any size of a batch and any number of   *)
(* broken streams and refused batches.                                     *)
(*                                                                         *)
(* NodesOnRightChain needs that every inode of a version was created by a  *)
(* v2 launch of that version and, when it is whole, holds one of its       *)
(* chains, whoever truncates, writes or moves it meanwhile; that a state   *)
(* which was found stays; and, for each launch, what its place says of its *)
(* chain and of the addresses it holds.                                    *)
(*                                                                         *)
(* LinesKept needs that a stream never reads a line beyond the one after   *)
(* the last it appended, and that a thread which takes a batch has none    *)
(* in its hands that it would overwrite.                                   *)
(***************************************************************************)
EXTENDS SandboxLaunch, LogStreams, TLAPS

-----------------------------------------------------------------------------
(* SandboxLaunch.                                                          *)

Steps ==
  {"idle", "lookup", "anvil", "health", "contracts", "tokens", "node",
   "deploy", "ready", "cleanup", "failed", "closed", "dead"} \cup Saving

LaunchTypeOK ==
  /\ step \in [Launches -> Steps]
  /\ chain \in [Launches -> ChainState]
  /\ known \in [Launches -> ChainState]
  /\ path \in [Keys -> [Files -> [file : Launches \cup {Nobody},
                                  tmp : Launches \cup {Nobody}]]]
  /\ inode \in [Launches -> [Files -> ChainState]]
  /\ handle \in [Launches -> Launches \cup {Nobody}]

(* An inode of the files of a version. *)
InodeOf(k, i) == i \in V2Launches /\ Wanted[i] = k

FilesRight ==
  /\ \A k \in Keys, f \in Files :
       /\ path[k][f].file # Nobody => InodeOf(k, path[k][f].file)
       /\ path[k][f].tmp # Nobody => InodeOf(k, path[k][f].tmp)
  /\ \A i \in Launches, f \in Files :
       inode[i][f].body = "whole" => OnChain(i, inode[i][f])

(* What a thread writes to belongs to the version of its launch. *)
HandlesRight ==
  \A l \in Launches :
    step[l] \in {"write_state", "write_addrs"} => InodeOf(Wanted[l], handle[l])

(* Before the contracts are deployed, and before the tokens are. *)
Bare(l) ==
  IF LoadsState(l) THEN l \in V2Launches /\ OnChain(l, known[l])
  ELSE known[l] = NoState

Half(l, c) == c.contracts = Wanted[l] /\ ~ c.tokens

(* What the place of a launch says of its chain and of the addresses. *)
PlaceRight(l) ==
  /\ step[l] \in {"anvil", "health", "contracts"} => Bare(l)
  /\ step[l] = "anvil" /\ LoadsState(l) => path[Wanted[l]]["state"].file # Nobody
  /\ step[l] \in {"health", "contracts"} =>
       IF LoadsState(l) THEN chain[l].body = "whole" => OnChain(l, chain[l])
       ELSE chain[l] = Fresh
  /\ step[l] = "contracts" => chain[l].body = "whole"
  /\ step[l] = "tokens" =>
       /\ chain[l].body = "whole"
       /\ IF LoadsState(l)
          THEN l \in V2Launches /\ OnChain(l, known[l]) /\ OnChain(l, chain[l])
          ELSE Half(l, known[l]) /\ Half(l, chain[l])
  /\ step[l] \in Saving => l \in V2Launches
  /\ step[l] \in Saving \cup {"node", "deploy", "ready"} =>
       OnChain(l, known[l]) /\ OnChain(l, chain[l])

LaunchInv ==
  /\ LaunchTypeOK /\ FilesRight /\ HandlesRight
  /\ \A l \in Launches : PlaceRight(l)

-----------------------------------------------------------------------------
LEMMA KeyTypes ==
  /\ \A l \in Launches : CacheKey(l) = Wanted[l] /\ Wanted[l] \in Keys
  /\ NoVersion \in Versions
  /\ Fresh \in ChainState /\ Blank \in ChainState /\ NoState \in ChainState
  /\ "state" \in Files /\ "addrs" \in Files
  /\ Nobody \notin Launches /\ V2Launches \subseteq Launches
<1>1. NoVersion \in Versions
  BY DEF Versions
<1>2. Fresh \in ChainState
  BY <1>1 DEF Fresh, ChainState
<1>3. Blank \in ChainState /\ NoState \in ChainState
  BY <1>1 DEF Fresh, Blank, NoState, ChainState
<1>4. \A l \in Launches : CacheKey(l) = Wanted[l] /\ Wanted[l] \in Keys
  BY DEF CacheKey, Keys, Versions
<1>. QED
  BY <1>1, <1>2, <1>3, <1>4, LaunchAssumption DEF Files

(* The other launches keep what their place says, if what they have stays. *)
LEMMA PlaceKept ==
  ASSUME NEW l \in Launches, PlaceRight(l),
         step'[l] = step[l], known'[l] = known[l], chain'[l] = chain[l],
         path[Wanted[l]]["state"].file # Nobody =>
           path'[Wanted[l]]["state"].file # Nobody
  PROVE  PlaceRight(l)'
  BY DEF PlaceRight, Bare, Half, LoadsState, OnChain, Saving

LEMMA LaunchInitInv == LaunchInit => LaunchInv
<1>. SUFFICES ASSUME LaunchInit PROVE LaunchInv
  OBVIOUS
<1>1. LaunchTypeOK
  BY KeyTypes DEF LaunchInit, LaunchTypeOK, Steps
<1>2. FilesRight
  BY KeyTypes DEF LaunchInit, FilesRight, Blank, Fresh
<1>3. HandlesRight /\ \A l \in Launches : PlaceRight(l)
  BY DEF LaunchInit, HandlesRight, PlaceRight, Saving
<1>. QED
  BY <1>1, <1>2, <1>3 DEF LaunchInv

-----------------------------------------------------------------------------
(* Steps that leave the files alone: of the rest of the launches, nothing  *)
(* changes.                                                                *)
LEMMA OwnStep ==
  ASSUME LaunchInv, NEW l \in Launches,
         UNCHANGED cacheFiles,
         \E p \in Steps \ {"write_state", "write_addrs"} :
           step' = [step EXCEPT ![l] = p],
         \E c \in ChainState : chain' = [chain EXCEPT ![l] = c],
         \E c \in ChainState : known' = [known EXCEPT ![l] = c],
         PlaceRight(l)'
  PROVE  LaunchInv'
<1>1. LaunchTypeOK'
  BY DEF LaunchInv, LaunchTypeOK, cacheFiles
<1>2. FilesRight'
  BY DEF LaunchInv, FilesRight, InodeOf, OnChain, cacheFiles
<1>3. HandlesRight'
  BY DEF LaunchInv, LaunchTypeOK, HandlesRight, InodeOf, cacheFiles
<1>4. ASSUME NEW m \in Launches PROVE PlaceRight(m)'
  <2>1. CASE m = l
    BY <2>1
  <2>2. CASE m # l
    BY <2>2, PlaceKept DEF LaunchInv, LaunchTypeOK, cacheFiles
  <2>. QED
    BY <2>1, <2>2
<1>. QED
  BY <1>1, <1>2, <1>3, <1>4 DEF LaunchInv

(* A value that stays is one that was written over itself. *)
LEMMA OwnStays ==
  ASSUME LaunchInv, NEW l \in Launches
  PROVE  /\ UNCHANGED chain => \E c \in ChainState : chain' = [chain EXCEPT ![l] = c]
         /\ UNCHANGED known => \E c \in ChainState : known' = [known EXCEPT ![l] = c]
<1>1. chain[l] \in ChainState /\ known[l] \in ChainState
  BY DEF LaunchInv, LaunchTypeOK
<1>2. chain = [chain EXCEPT ![l] = chain[l]] /\ known = [known EXCEPT ![l] = known[l]]
  BY DEF LaunchInv, LaunchTypeOK
<1>. QED
  BY <1>1, <1>2

LEMMA BeginInv ==
  ASSUME LaunchInv, NEW l \in Launches, BeginLaunch(l)
  PROVE  LaunchInv'
<1>1. /\ UNCHANGED cacheFiles /\ UNCHANGED chain /\ UNCHANGED known
      /\ step' = [step EXCEPT ![l] = "lookup"]
  BY DEF BeginLaunch, To
<1>2. step'[l] = "lookup"
  BY <1>1 DEF LaunchInv, LaunchTypeOK
<1>3. PlaceRight(l)'
  BY <1>2 DEF PlaceRight, Saving
<1>. QED
  BY <1>1, <1>3, OwnStays, OwnStep DEF Steps

(* A hit finds both files, and addresses of the version of the launch.     *)
LEMMA LookUpInv ==
  ASSUME LaunchInv, NEW l \in Launches, LookUpState(l)
  PROVE  LaunchInv'
<1>. DEFINE k == CacheKey(l)
            c == IF l \in V2Launches /\ Hit(k)
                 THEN inode[path[k]["addrs"].file]["addrs"] ELSE NoState
<1>1. /\ UNCHANGED cacheFiles /\ UNCHANGED chain
      /\ known' = [known EXCEPT ![l] = c]
      /\ step' = [step EXCEPT ![l] = "anvil"]
  BY DEF LookUpState, To
<1>2. k = Wanted[l] /\ k \in Keys
  BY KeyTypes
<1>3. /\ c \in ChainState
      /\ c.body = "whole" =>
           l \in V2Launches /\ OnChain(l, c) /\ path[k]["state"].file # Nobody
      /\ c.body # "whole" => c = NoState
  <2>1. CASE l \in V2Launches /\ Hit(k)
    <3>1. /\ path[k]["addrs"].file \in Launches
          /\ InodeOf(k, path[k]["addrs"].file)
          /\ path[k]["state"].file # Nobody
          /\ c.body = "whole"
      BY <1>2, <2>1, KeyTypes DEF Hit, LaunchInv, LaunchTypeOK, FilesRight
    <3>2. c \in ChainState /\ OnChain(path[k]["addrs"].file, c)
      BY <2>1, <3>1, KeyTypes DEF LaunchInv, LaunchTypeOK, FilesRight
    <3>. QED
      BY <1>2, <2>1, <3>1, <3>2 DEF OnChain, InodeOf
  <2>2. CASE ~ (l \in V2Launches /\ Hit(k))
    BY <2>2, KeyTypes DEF NoState, Fresh
  <2>. QED
    BY <2>1, <2>2
<1>. HIDE DEF c
<1>4. step'[l] = "anvil" /\ known'[l] = c
  BY <1>1 DEF LaunchInv, LaunchTypeOK
<1>5. path'[Wanted[l]]["state"].file = path[k]["state"].file
  BY <1>1, <1>2 DEF cacheFiles
<1>6. PlaceRight(l)'
  BY <1>3, <1>4, <1>5 DEF PlaceRight, Bare, LoadsState, OnChain, Saving
<1>. QED
  BY <1>1, <1>3, <1>6, OwnStays, OwnStep DEF Steps

LEMMA AnvilInv ==
  ASSUME LaunchInv, NEW l \in Launches, StartAnvil(l)
  PROVE  LaunchInv'
<1>1. /\ UNCHANGED cacheFiles /\ UNCHANGED known /\ step[l] = "anvil"
  BY DEF StartAnvil
<1>2. CASE step' = [step EXCEPT ![l] = "cleanup"] /\ UNCHANGED chain
  <2>1. step'[l] = "cleanup"
    BY <1>2 DEF LaunchInv, LaunchTypeOK
  <2>2. PlaceRight(l)'
    BY <2>1 DEF PlaceRight, Saving
  <2>. QED
    BY <1>1, <1>2, <2>2, OwnStays, OwnStep DEF Steps
<1>3. CASE ~ (step' = [step EXCEPT ![l] = "cleanup"] /\ UNCHANGED chain)
  <2>. DEFINE i == path[Wanted[l]]["state"].file
              c == IF LoadsState(l) THEN inode[i]["state"] ELSE Fresh
  <2>1. /\ step' = [step EXCEPT ![l] = "health"]
        /\ chain' = [chain EXCEPT ![l] = c]
    BY <1>3, KeyTypes DEF StartAnvil, To
  <2>2. Bare(l) /\ (LoadsState(l) => i # Nobody)
    BY <1>1 DEF LaunchInv, PlaceRight
  <2>3. /\ c \in ChainState
        /\ IF LoadsState(l) THEN c.body = "whole" => OnChain(l, c) ELSE c = Fresh
    <3>1. CASE LoadsState(l)
      <4>1. i \in Launches /\ InodeOf(Wanted[l], i)
        BY <2>2, <3>1, KeyTypes DEF LaunchInv, LaunchTypeOK, FilesRight
      <4>2. c \in ChainState /\ (c.body = "whole" => OnChain(i, c))
        BY <3>1, <4>1, KeyTypes DEF LaunchInv, LaunchTypeOK, FilesRight
      <4>3. l \in V2Launches
        BY <2>2, <3>1 DEF Bare
      <4>. QED
        BY <3>1, <4>1, <4>2, <4>3 DEF OnChain, InodeOf
    <3>2. CASE ~ LoadsState(l)
      BY <3>2, KeyTypes
    <3>. QED
      BY <3>1, <3>2
  <2>. HIDE DEF c
  <2>4. step'[l] = "health" /\ chain'[l] = c /\ known'[l] = known[l]
    BY <1>1, <2>1 DEF LaunchInv, LaunchTypeOK
  <2>5. PlaceRight(l)'
    BY <2>2, <2>3, <2>4 DEF PlaceRight, Bare, LoadsState, OnChain, Saving
  <2>. QED
    BY <1>1, <2>1, <2>3, <2>5, OwnStays, OwnStep DEF Steps
<1>. QED
  BY <1>2, <1>3

LEMMA AwaitInv ==
  ASSUME LaunchInv, NEW l \in Launches, AwaitAnvil(l)
  PROVE  LaunchInv'
<1>. DEFINE p == IF chain[l].body = "whole" THEN "contracts" ELSE "cleanup"
<1>1. /\ UNCHANGED cacheFiles /\ UNCHANGED known /\ UNCHANGED chain
      /\ step[l] = "health"
      /\ step' = [step EXCEPT ![l] = p]
  BY DEF AwaitAnvil, To, sandboxes
<1>2. step'[l] = p /\ known'[l] = known[l] /\ chain'[l] = chain[l]
  BY <1>1 DEF LaunchInv, LaunchTypeOK
<1>3. PlaceRight(l)'
  <2>1. CASE chain[l].body = "whole"
    <3>1. step'[l] = "contracts"
      BY <1>2, <2>1
    <3>2. Bare(l) /\ IF LoadsState(l) THEN OnChain(l, chain[l]) ELSE chain[l] = Fresh
      BY <1>1, <2>1 DEF LaunchInv, PlaceRight
    <3>3. Bare(l)' /\ (LoadsState(l)' <=> LoadsState(l))
      BY <1>2, <3>2 DEF Bare, LoadsState, OnChain
    <3>. QED
      BY <1>2, <2>1, <3>1, <3>2, <3>3 DEF PlaceRight, OnChain, Saving
  <2>2. CASE chain[l].body # "whole"
    <3>1. step'[l] = "cleanup"
      BY <1>2, <2>2
    <3>. QED
      BY <3>1 DEF PlaceRight, Saving
  <2>. QED
    BY <2>1, <2>2
<1>4. p \in Steps \ {"write_state", "write_addrs"}
  BY DEF Steps
<1>. QED
  BY <1>1, <1>3, <1>4, OwnStays, OwnStep

LEMMA ContractsInv ==
  ASSUME LaunchInv, NEW l \in Launches, DeployContracts(l)
  PROVE  LaunchInv'
<1>1. /\ UNCHANGED cacheFiles /\ step[l] = "contracts"
      /\ step' = [step EXCEPT ![l] = "tokens"]
  BY DEF DeployContracts, To
<1>2. /\ chain[l] \in ChainState /\ known[l] \in ChainState
      /\ Wanted[l] \in Versions
  BY KeyTypes DEF LaunchInv, LaunchTypeOK, Keys
<1>3. PICK c \in ChainState, d \in ChainState :
        /\ chain' = [chain EXCEPT ![l] = c] /\ known' = [known EXCEPT ![l] = d]
        /\ IF LoadsState(l) \/ Wanted[l] = NoVersion
           THEN c = chain[l] /\ d = known[l]
           ELSE /\ c = [chain[l] EXCEPT !.contracts = Wanted[l]]
                /\ d = [known[l] EXCEPT !.contracts = Wanted[l]]
  <2>1. CASE LoadsState(l) \/ Wanted[l] = NoVersion
    <3>1. UNCHANGED <<chain, known>>
      BY <2>1 DEF DeployContracts
    <3>2. chain = [chain EXCEPT ![l] = chain[l]] /\ known = [known EXCEPT ![l] = known[l]]
      BY DEF LaunchInv, LaunchTypeOK
    <3>. QED
      BY <1>2, <2>1, <3>1, <3>2
  <2>2. CASE ~ (LoadsState(l) \/ Wanted[l] = NoVersion)
    <3>1. /\ [chain[l] EXCEPT !.contracts = Wanted[l]] \in ChainState
          /\ [known[l] EXCEPT !.contracts = Wanted[l]] \in ChainState
      BY <1>2 DEF ChainState
    <3>2. /\ chain' = [chain EXCEPT ![l] = [chain[l] EXCEPT !.contracts = Wanted[l]]]
          /\ known' = [known EXCEPT ![l] = [known[l] EXCEPT !.contracts = Wanted[l]]]
      BY <2>2 DEF DeployContracts
    <3>. QED
      BY <2>2, <3>1, <3>2
  <2>. QED
    BY <2>1, <2>2
<1>4. step'[l] = "tokens" /\ chain'[l] = c /\ known'[l] = d
  BY <1>1, <1>3 DEF LaunchInv, LaunchTypeOK
<1>5. PlaceRight(l)'
  <2>1. /\ Bare(l) /\ chain[l].body = "whole"
        /\ IF LoadsState(l) THEN OnChain(l, chain[l]) ELSE chain[l] = Fresh
    BY <1>1 DEF LaunchInv, PlaceRight
  <2>2. CASE LoadsState(l)
    BY <1>3, <1>4, <2>1, <2>2 DEF PlaceRight, Bare, LoadsState, OnChain, Saving
  <2>3. CASE ~ LoadsState(l)
    <3>1. known[l] = NoState /\ chain[l] = Fresh
      BY <2>1, <2>3 DEF Bare
    <3>2. Half(l, c) /\ Half(l, d) /\ c.body = "whole" /\ d.body = "none"
      <4>1. /\ chain[l].body = "whole" /\ chain[l].contracts = NoVersion
            /\ ~ chain[l].tokens
            /\ known[l].body = "none" /\ known[l].contracts = NoVersion
            /\ ~ known[l].tokens
        BY <3>1 DEF NoState, Fresh
      <4>2. CASE Wanted[l] = NoVersion
        BY <1>3, <4>1, <4>2 DEF Half
      <4>3. CASE Wanted[l] # NoVersion
        <5>1. /\ c = [chain[l] EXCEPT !.contracts = Wanted[l]]
              /\ d = [known[l] EXCEPT !.contracts = Wanted[l]]
          BY <1>3, <2>3, <4>3
        <5>. QED
          BY <1>2, <4>1, <5>1 DEF Half, ChainState
      <4>. QED
        BY <4>2, <4>3
    <3>. QED
      BY <1>4, <3>2 DEF PlaceRight, LoadsState, Half, Saving
  <2>. QED
    BY <2>2, <2>3
<1>. QED
  BY <1>1, <1>3, <1>5, OwnStep DEF Steps

LEMMA TokensInv ==
  ASSUME LaunchInv, NEW l \in Launches, DeployTokens(l)
  PROVE  LaunchInv'
<1>1. UNCHANGED cacheFiles /\ step[l] = "tokens"
  BY DEF DeployTokens
<1>2. chain[l] \in ChainState /\ known[l] \in ChainState
  BY DEF LaunchInv, LaunchTypeOK
<1>3. /\ chain[l].body = "whole"
      /\ IF LoadsState(l)
         THEN l \in V2Launches /\ OnChain(l, known[l]) /\ OnChain(l, chain[l])
         ELSE Half(l, known[l]) /\ Half(l, chain[l])
  BY <1>1 DEF LaunchInv, PlaceRight
<1>4. CASE LoadsState(l) \/ l \notin V2Launches
  <2>1. UNCHANGED chain /\ UNCHANGED known /\ step' = [step EXCEPT ![l] = "node"]
    BY <1>4 DEF DeployTokens, To
  <2>2. step'[l] = "node" /\ chain'[l] = chain[l] /\ known'[l] = known[l]
    BY <2>1 DEF LaunchInv, LaunchTypeOK
  <2>3. OnChain(l, chain[l]) /\ OnChain(l, known[l])
    BY <1>2, <1>3, <1>4 DEF OnChain, Half, ChainState
  <2>4. PlaceRight(l)'
    BY <2>2, <2>3 DEF PlaceRight, OnChain, Saving
  <2>. QED
    BY <1>1, <2>1, <2>4, OwnStays, OwnStep DEF Steps
<1>5. CASE ~ (LoadsState(l) \/ l \notin V2Launches)
  <2>. DEFINE c == [chain[l] EXCEPT !.tokens = TRUE]
              d == [known[l] EXCEPT !.tokens = TRUE]
  <2>1. /\ chain' = [chain EXCEPT ![l] = c] /\ known' = [known EXCEPT ![l] = d]
        /\ step' = [step EXCEPT ![l] = "open_state"]
    BY <1>5 DEF DeployTokens, To
  <2>2. c \in ChainState /\ d \in ChainState
    BY <1>2 DEF ChainState
  <2>3. OnChain(l, c) /\ OnChain(l, d)
    BY <1>2, <1>3, <1>5 DEF OnChain, Half, ChainState
  <2>. HIDE DEF c, d
  <2>4. step'[l] = "open_state" /\ chain'[l] = c /\ known'[l] = d
    BY <2>1 DEF LaunchInv, LaunchTypeOK
  <2>5. PlaceRight(l)'
    BY <1>5, <2>3, <2>4 DEF PlaceRight, OnChain, Saving
  <2>. QED
    BY <1>1, <2>1, <2>2, <2>5, OwnStep DEF Steps, Saving
<1>. QED
  BY <1>4, <1>5

-----------------------------------------------------------------------------
(* Saving: the files change, and the chains do not. *)

LEMMA SavePlaces ==
  ASSUME LaunchInv, NEW l \in Launches, NEW p \in Saving \cup {"node"},
         step[l] \in Saving, step' = [step EXCEPT ![l] = p],
         UNCHANGED <<chain, known>>,
         \A k \in Keys : path[k]["state"].file # Nobody =>
                           path'[k]["state"].file # Nobody
  PROVE  \A m \in Launches : PlaceRight(m)'
<1>1. SUFFICES ASSUME NEW m \in Launches PROVE PlaceRight(m)'
  OBVIOUS
<1>2. CASE m = l
  <2>1. OnChain(l, known[l]) /\ OnChain(l, chain[l]) /\ l \in V2Launches
    BY DEF LaunchInv, PlaceRight
  <2>2. step'[l] = p /\ p \notin {"anvil", "health", "contracts", "tokens"}
    BY DEF LaunchInv, LaunchTypeOK, Saving
  <2>. QED
    BY <1>2, <2>1, <2>2 DEF PlaceRight, OnChain, Saving
<1>3. CASE m # l
  <2>1. step'[m] = step[m] /\ PlaceRight(m) /\ Wanted[m] \in Keys
    BY <1>3, KeyTypes DEF LaunchInv, LaunchTypeOK
  <2>. QED
    BY <2>1, PlaceKept
<1>. QED
  BY <1>2, <1>3

LEMMA OpenInv ==
  ASSUME LaunchInv, NEW l \in Launches, NEW f \in Files,
         NEW p \in {"write_state", "write_addrs"}, step[l] \in Saving,
         step' = [step EXCEPT ![l] = p], UNCHANGED <<chain, known>>,
         OpenTmp(l, f)
  PROVE  LaunchInv'
<1>1. PICK k \in Keys : k = Wanted[l] /\ l \in V2Launches
  BY KeyTypes DEF LaunchInv, PlaceRight
<1>2. PICK i \in Launches :
        /\ InodeOf(k, i) /\ i # Nobody
        /\ path' = [path EXCEPT ![k][f].tmp = i]
        /\ inode' = [inode EXCEPT ![i][f] = Blank]
        /\ handle' = [handle EXCEPT ![l] = i]
  <2>1. CASE path[k][f].tmp = Nobody
    BY <1>1, <2>1, KeyTypes DEF OpenTmp, InodeOf
  <2>2. CASE path[k][f].tmp # Nobody
    <3>1. InodeOf(k, path[k][f].tmp)
      BY <2>2 DEF LaunchInv, FilesRight
    <3>2. path[k][f].tmp \in Launches
      BY <3>1, KeyTypes DEF InodeOf
    <3>. QED
      BY <1>1, <2>2, <3>1, <3>2, KeyTypes DEF OpenTmp
  <2>. QED
    BY <2>1, <2>2
<1>3. path[k][f] \in [file : Launches \cup {Nobody}, tmp : Launches \cup {Nobody}]
  BY DEF LaunchInv, LaunchTypeOK
<1>4. LaunchTypeOK'
  <2>1. step' \in [Launches -> Steps] /\ handle' \in [Launches -> Launches \cup {Nobody}]
    BY <1>2, <1>3 DEF LaunchInv, LaunchTypeOK, Steps, Saving
  <2>2. inode' \in [Launches -> [Files -> ChainState]]
    BY <1>2, <1>3, KeyTypes DEF LaunchInv, LaunchTypeOK
  <2>3. path' \in [Keys -> [Files -> [file : Launches \cup {Nobody},
                                      tmp : Launches \cup {Nobody}]]]
    <3>1. [path[k][f] EXCEPT !.tmp = i] \in [file : Launches \cup {Nobody},
                                             tmp : Launches \cup {Nobody}]
      BY <1>3
    <3>. QED
      BY <1>2, <3>1 DEF LaunchInv, LaunchTypeOK
  <2>. QED
    BY <2>1, <2>2, <2>3 DEF LaunchInv, LaunchTypeOK
<1>5. \A j \in Keys, g \in Files :
        /\ path'[j][g].file = path[j][g].file
        /\ path'[j][g].tmp = IF j = k /\ g = f THEN i ELSE path[j][g].tmp
  <2>1. ASSUME NEW j \in Keys, NEW g \in Files
        PROVE  path'[j][g] = IF j = k /\ g = f THEN [path[k][f] EXCEPT !.tmp = i]
                             ELSE path[j][g]
    BY <1>1, <1>2 DEF LaunchInv, LaunchTypeOK
  <2>2. /\ [path[k][f] EXCEPT !.tmp = i].tmp = i
        /\ [path[k][f] EXCEPT !.tmp = i].file = path[k][f].file
    BY <1>3
  <2>. QED
    BY <2>1, <2>2
<1>6. FilesRight'
  <2>1. \A j \in Keys, g \in Files :
          /\ path'[j][g].file # Nobody => InodeOf(j, path'[j][g].file)
          /\ path'[j][g].tmp # Nobody => InodeOf(j, path'[j][g].tmp)
    BY <1>2, <1>5 DEF LaunchInv, FilesRight
  <2>2. ASSUME NEW j \in Launches, NEW g \in Files, inode'[j][g].body = "whole"
        PROVE  OnChain(j, inode'[j][g])
    <3>1. inode'[j][g] = IF j = i /\ g = f THEN Blank ELSE inode[j][g]
      BY <1>2, <1>3 DEF LaunchInv, LaunchTypeOK
    <3>2. Blank.body # "whole"
      BY DEF Blank, Fresh
    <3>. QED
      BY <2>2, <3>1, <3>2 DEF LaunchInv, FilesRight
  <2>. QED
    BY <2>1, <2>2 DEF FilesRight, InodeOf, OnChain
<1>7. HandlesRight'
  BY <1>1, <1>2 DEF LaunchInv, LaunchTypeOK, HandlesRight, InodeOf
<1>8. \A m \in Launches : PlaceRight(m)'
  BY <1>5, SavePlaces, KeyTypes DEF Saving
<1>. QED
  BY <1>4, <1>6, <1>7, <1>8 DEF LaunchInv

LEMMA WriteInv ==
  ASSUME LaunchInv, NEW l \in Launches, NEW f \in Files,
         NEW p \in {"replace_state", "replace_addrs"},
         step[l] \in {"write_state", "write_addrs"},
         step' = [step EXCEPT ![l] = p], UNCHANGED <<chain, known>>,
         WriteTmp(l, f)
  PROVE  LaunchInv'
<1>. DEFINE i    == handle[l]
            mine == IF f = "state" THEN chain[l] ELSE [known[l] EXCEPT !.body = "whole"]
            torn == [mine EXCEPT !.body = "torn"]
<1>1. UNCHANGED <<path, handle>>
      /\ \E c \in {mine, torn} : inode' = [inode EXCEPT ![i][f] = c]
  BY DEF WriteTmp
<1>2. i \in Launches /\ InodeOf(Wanted[l], i)
  BY KeyTypes DEF LaunchInv, HandlesRight, InodeOf
<1>3. l \in V2Launches /\ OnChain(l, known[l]) /\ OnChain(l, chain[l])
  BY DEF LaunchInv, PlaceRight, Saving
<1>4. mine \in ChainState /\ OnChain(i, mine)
  <2>1. chain[l] \in ChainState /\ known[l] \in ChainState
    BY DEF LaunchInv, LaunchTypeOK
  <2>2. [known[l] EXCEPT !.body = "whole"] \in ChainState
        /\ OnChain(l, [known[l] EXCEPT !.body = "whole"])
    BY <1>3, <2>1 DEF ChainState, OnChain
  <2>3. mine \in ChainState /\ OnChain(l, mine)
    BY <1>3, <2>1, <2>2
  <2>. HIDE DEF mine
  <2>. QED
    BY <1>2, <1>3, <2>3 DEF OnChain, InodeOf
<1>5. torn \in ChainState /\ torn.body = "torn"
  <2>. HIDE DEF mine
  <2>. QED
    BY <1>4 DEF ChainState
<1>. HIDE DEF mine, torn, i
<1>6. PICK c \in {mine, torn} : inode' = [inode EXCEPT ![i][f] = c]
  BY <1>1
<1>7. c \in ChainState /\ (c.body = "whole" => OnChain(i, c))
  BY <1>4, <1>5, <1>6
<1>8. LaunchTypeOK'
  BY <1>1, <1>2, <1>6, <1>7 DEF LaunchInv, LaunchTypeOK, Steps, Saving
<1>9. FilesRight'
  <2>1. ASSUME NEW j \in Launches, NEW g \in Files, inode'[j][g].body = "whole"
        PROVE  OnChain(j, inode'[j][g])
    <3>1. inode'[j][g] = IF j = i /\ g = f THEN c ELSE inode[j][g]
      BY <1>2, <1>6 DEF LaunchInv, LaunchTypeOK
    <3>. QED
      BY <1>7, <2>1, <3>1 DEF LaunchInv, FilesRight
  <2>. QED
    BY <1>1, <2>1 DEF LaunchInv, FilesRight, InodeOf, OnChain
<1>10. HandlesRight'
  BY <1>1 DEF LaunchInv, LaunchTypeOK, HandlesRight, InodeOf
<1>11. \A m \in Launches : PlaceRight(m)'
  BY <1>1, SavePlaces DEF Saving
<1>. QED
  BY <1>8, <1>9, <1>10, <1>11 DEF LaunchInv

LEMMA ReplaceInv ==
  ASSUME LaunchInv, NEW l \in Launches, NEW f \in Files,
         NEW p \in {"open_addrs", "node"}, step[l] \in Saving,
         step' = [step EXCEPT ![l] = p], UNCHANGED <<chain, known>>,
         ReplaceTmp(l, f)
  PROVE  LaunchInv'
<1>1. PICK k \in Keys : k = Wanted[l]
  BY KeyTypes
<1>2. /\ path[k][f].tmp # Nobody /\ UNCHANGED <<inode, handle>>
      /\ path' = [path EXCEPT ![k][f] = [file |-> path[k][f].tmp, tmp |-> Nobody]]
  BY <1>1, KeyTypes DEF ReplaceTmp
<1>3. /\ path[k][f].tmp \in Launches /\ path[k][f].tmp # Nobody
      /\ InodeOf(k, path[k][f].tmp)
  BY <1>2, KeyTypes DEF LaunchInv, LaunchTypeOK, FilesRight
<1>4. PICK t \in Launches :
        /\ t # Nobody /\ InodeOf(k, t)
        /\ path' = [path EXCEPT ![k][f] = [file |-> t, tmp |-> Nobody]]
  BY <1>2, <1>3
<1>5. LaunchTypeOK'
  <2>1. /\ step' \in [Launches -> Steps] /\ UNCHANGED <<chain, known>>
        /\ inode' \in [Launches -> [Files -> ChainState]]
        /\ handle' \in [Launches -> Launches \cup {Nobody}]
    BY <1>2 DEF LaunchInv, LaunchTypeOK, Steps, Saving
  <2>2. path' \in [Keys -> [Files -> [file : Launches \cup {Nobody},
                                      tmp : Launches \cup {Nobody}]]]
    <3>1. [file |-> t, tmp |-> Nobody] \in [file : Launches \cup {Nobody},
                                            tmp : Launches \cup {Nobody}]
      BY <1>4
    <3>. QED
      BY <1>4, <3>1 DEF LaunchInv, LaunchTypeOK
  <2>. QED
    BY <2>1, <2>2 DEF LaunchInv, LaunchTypeOK
<1>6. \A j \in Keys, g \in Files :
        path'[j][g] = IF j = k /\ g = f THEN [file |-> t, tmp |-> Nobody]
                      ELSE path[j][g]
  BY <1>4 DEF LaunchInv, LaunchTypeOK
<1>7. FilesRight'
  <2>1. ASSUME NEW j \in Keys, NEW g \in Files
        PROVE  /\ path'[j][g].file # Nobody => InodeOf(j, path'[j][g].file)
               /\ path'[j][g].tmp # Nobody => InodeOf(j, path'[j][g].tmp)
    <3>1. CASE j = k /\ g = f
      <4>1. path'[j][g].file = t /\ path'[j][g].tmp = Nobody
        BY <1>6, <3>1
      <4>. QED
        BY <1>4, <3>1, <4>1
    <3>2. CASE ~ (j = k /\ g = f)
      <4>1. path'[j][g] = path[j][g]
        BY <1>6, <3>2
      <4>. QED
        BY <4>1 DEF LaunchInv, FilesRight
    <3>. QED
      BY <3>1, <3>2
  <2>2. \A j \in Launches, g \in Files :
          inode'[j][g].body = "whole" => OnChain(j, inode'[j][g])
    BY <1>2 DEF LaunchInv, FilesRight
  <2>. QED
    BY <2>1, <2>2 DEF FilesRight, InodeOf, OnChain
<1>8. HandlesRight'
  BY <1>2 DEF LaunchInv, LaunchTypeOK, HandlesRight, InodeOf
<1>9. \A j \in Keys : path[j]["state"].file # Nobody => path'[j]["state"].file # Nobody
  <2>1. ASSUME NEW j \in Keys, path[j]["state"].file # Nobody
        PROVE  path'[j]["state"].file # Nobody
    <3>1. CASE j = k /\ f = "state"
      <4>1. path'[j]["state"] = [file |-> t, tmp |-> Nobody]
        BY <1>6, <3>1, KeyTypes
      <4>. QED
        BY <1>4, <4>1
    <3>2. CASE ~ (j = k /\ f = "state")
      <4>1. path'[j]["state"] = path[j]["state"]
        BY <1>6, <3>2, KeyTypes
      <4>. QED
        BY <2>1, <4>1
    <3>. QED
      BY <3>1, <3>2
  <2>. QED
    BY <2>1
<1>10. \A m \in Launches : PlaceRight(m)'
  BY <1>9, SavePlaces DEF Saving
<1>. QED
  BY <1>5, <1>7, <1>8, <1>10 DEF LaunchInv

LEMMA SaveInv ==
  ASSUME LaunchInv, NEW l \in Launches, SaveState(l)
  PROVE  LaunchInv'
<1>1. CASE SaveStep(l, "open_state", "write_state") /\ OpenTmp(l, "state")
  BY <1>1, OpenInv DEF SaveStep, To, sandboxes, Saving, Files
<1>2. CASE SaveStep(l, "write_state", "replace_state") /\ WriteTmp(l, "state")
  BY <1>2, WriteInv DEF SaveStep, To, sandboxes, Saving, Files
<1>3. CASE SaveStep(l, "replace_state", "open_addrs") /\ ReplaceTmp(l, "state")
  BY <1>3, ReplaceInv DEF SaveStep, To, sandboxes, Saving, Files
<1>4. CASE SaveStep(l, "open_addrs", "write_addrs") /\ OpenTmp(l, "addrs")
  BY <1>4, OpenInv DEF SaveStep, To, sandboxes, Saving, Files
<1>5. CASE SaveStep(l, "write_addrs", "replace_addrs") /\ WriteTmp(l, "addrs")
  BY <1>5, WriteInv DEF SaveStep, To, sandboxes, Saving, Files
<1>6. CASE SaveStep(l, "replace_addrs", "node") /\ ReplaceTmp(l, "addrs")
  BY <1>6, ReplaceInv DEF SaveStep, To, sandboxes, Saving, Files
<1>. QED
  BY <1>1, <1>2, <1>3, <1>4, <1>5, <1>6 DEF SaveState

-----------------------------------------------------------------------------
(* After the tokens: chain and addresses stay until the sandbox is gone.   *)
LEMMA NodeInv ==
  ASSUME LaunchInv, NEW l \in Launches,
         \/ SaveRaises(l) \/ StartNode(l) \/ NodeRaises(l) \/ DeployApp(l)
         \/ LaunchRaises(l)
  PROVE  LaunchInv'
<1>1. /\ UNCHANGED cacheFiles /\ UNCHANGED chain /\ UNCHANGED known
      /\ \E p \in {"node", "deploy", "ready", "cleanup"} :
           /\ step' = [step EXCEPT ![l] = p]
           /\ p # "cleanup" => step[l] \in Saving \cup {"node", "deploy"}
  BY DEF SaveRaises, StartNode, NodeRaises, DeployApp, LaunchRaises, To, sandboxes
<1>2. PICK p \in {"node", "deploy", "ready", "cleanup"} :
        /\ step' = [step EXCEPT ![l] = p]
        /\ p # "cleanup" => step[l] \in Saving \cup {"node", "deploy"}
  BY <1>1
<1>3. step'[l] = p /\ known'[l] = known[l] /\ chain'[l] = chain[l]
  BY <1>1, <1>2 DEF LaunchInv, LaunchTypeOK
<1>4. p # "cleanup" => OnChain(l, known[l]) /\ OnChain(l, chain[l])
  BY <1>2 DEF LaunchInv, PlaceRight
<1>5. PlaceRight(l)'
  BY <1>3, <1>4 DEF PlaceRight, OnChain, Saving
<1>. QED
  BY <1>1, <1>2, <1>5, OwnStays, OwnStep DEF Steps

LEMMA EndInv ==
  ASSUME LaunchInv, NEW l \in Launches, CleanUp(l) \/ CloseSandbox(l)
  PROVE  LaunchInv'
<1>1. PICK p \in {"failed", "closed"} : step' = [step EXCEPT ![l] = p]
  BY DEF CleanUp, CloseSandbox, To
<1>2. /\ UNCHANGED cacheFiles /\ UNCHANGED known
      /\ chain' = [chain EXCEPT ![l] = NoState]
  BY DEF CleanUp, CloseSandbox
<1>3. step'[l] = p
  BY <1>1 DEF LaunchInv, LaunchTypeOK
<1>4. PlaceRight(l)'
  BY <1>3 DEF PlaceRight, Saving
<1>. QED
  BY <1>1, <1>2, <1>4, KeyTypes, OwnStays, OwnStep DEF Steps

(* A crash forgets the launches under way and leaves the files.            *)
LEMMA CrashInv ==
  ASSUME LaunchInv, LaunchCrash
  PROVE  LaunchInv'
<1>1. /\ UNCHANGED <<chain, known, path, inode, handle>>
      /\ step' = [l \in Launches |-> IF step[l] \in Over THEN step[l] ELSE "dead"]
  BY DEF LaunchCrash, sandboxes, cacheFiles
<1>2. \A l \in Launches : step'[l] = step[l] \/ step'[l] = "dead"
  BY <1>1
<1>3. LaunchTypeOK'
  BY <1>1 DEF LaunchInv, LaunchTypeOK, Steps
<1>4. FilesRight'
  BY <1>1 DEF LaunchInv, FilesRight, InodeOf, OnChain
<1>5. HandlesRight'
  BY <1>1, <1>2 DEF LaunchInv, HandlesRight, InodeOf
<1>6. ASSUME NEW m \in Launches PROVE PlaceRight(m)'
  <2>1. CASE step'[m] = step[m]
    BY <1>1, <2>1, PlaceKept DEF LaunchInv
  <2>2. CASE step'[m] = "dead"
    BY <2>2 DEF PlaceRight, Saving
  <2>. QED
    BY <1>2, <2>1, <2>2
<1>. QED
  BY <1>3, <1>4, <1>5, <1>6 DEF LaunchInv

LEMMA LaunchStepInv == LaunchInv /\ [LaunchNext]_launchVars => LaunchInv'
<1>. SUFFICES ASSUME LaunchInv, [LaunchNext]_launchVars PROVE LaunchInv'
  OBVIOUS
<1>1. ASSUME NEW l \in Launches, BeginLaunch(l) PROVE LaunchInv'
  BY <1>1, BeginInv
<1>2. ASSUME NEW l \in Launches, LookUpState(l) PROVE LaunchInv'
  BY <1>2, LookUpInv
<1>3. ASSUME NEW l \in Launches, StartAnvil(l) \/ AwaitAnvil(l) PROVE LaunchInv'
  BY <1>3, AnvilInv, AwaitInv
<1>4. ASSUME NEW l \in Launches, DeployContracts(l) \/ DeployTokens(l) PROVE LaunchInv'
  BY <1>4, ContractsInv, TokensInv
<1>5. ASSUME NEW l \in Launches, SaveState(l) PROVE LaunchInv'
  BY <1>5, SaveInv
<1>6. ASSUME NEW l \in Launches,
             \/ SaveRaises(l) \/ StartNode(l) \/ NodeRaises(l) \/ DeployApp(l)
             \/ LaunchRaises(l)
      PROVE  LaunchInv'
  BY <1>6, NodeInv
<1>7. ASSUME NEW l \in Launches, CleanUp(l) \/ CloseSandbox(l) PROVE LaunchInv'
  BY <1>7, EndInv
<1>8. CASE LaunchCrash
  BY <1>8, CrashInv
<1>9. CASE UNCHANGED launchVars
  <2>1. UNCHANGED <<step, chain, known, path, inode, handle>>
    BY <1>9 DEF launchVars, sandboxes, cacheFiles
  <2>2. (LaunchTypeOK /\ FilesRight /\ HandlesRight)'
    BY <2>1 DEF LaunchInv, LaunchTypeOK, FilesRight, HandlesRight, InodeOf, OnChain
  <2>3. \A l \in Launches : PlaceRight(l)'
    BY <2>1, PlaceKept DEF LaunchInv
  <2>. QED
    BY <2>2, <2>3 DEF LaunchInv
<1>. QED
  BY <1>1, <1>2, <1>3, <1>4, <1>5, <1>6, <1>7, <1>8, <1>9
     DEF LaunchNext, LaunchStep

(* The services of a node run on a chain with the contracts of their       *)
(* release, and are given the addresses of that chain, whether it was      *)
(* deployed or loaded from files that other launches were writing          *)
(* (provisioner.py:376-490).                                               *)
THEOREM NodesAlwaysOnRightChain == LaunchSpec => []NodesOnRightChain
<1>1. LaunchInv => NodesOnRightChain
  BY DEF LaunchInv, NodesOnRightChain, PlaceRight
<1>. QED
  BY <1>1, LaunchInitInv, LaunchStepInv, PTL DEF LaunchSpec

-----------------------------------------------------------------------------
(* LogStreams.                                                             *)

Line == Streams \X Nat

LogTypeOK ==
  /\ place \in [Threads -> {"idle", "append", "flush", "hand", "ended"}]
  /\ read \in [Streams -> Nat]
  /\ appended \in [Streams -> Nat]
  /\ lines \in Seq(Line)
  /\ batch \in [Threads -> Seq(Line)]

(* How far a stream has read, against what it has appended. *)
NothingSkipped ==
  \A w \in Streams :
    read[w] <= IF place[w] = "append" THEN appended[w] + 1 ELSE appended[w]

(* Only a thread that hands over has a batch. *)
HandsEmpty ==
  /\ \A t \in Threads : place[t] # "hand" => batch[t] = <<>>
  /\ ~stopping => place["teardown"] = "idle"
  /\ \A t \in {"timer", "teardown"} : place[t] # "append"

LogInv == LogTypeOK /\ NothingSkipped /\ HandsEmpty /\ LinesKept

-----------------------------------------------------------------------------
(* What an appended line and an emptied list do to the set of lines. *)
LEMMA LinesOfAppended ==
  ASSUME NEW S, NEW s \in Seq(S), NEW x \in S
  PROVE  /\ s \o <<x>> \in Seq(S)
         /\ ToSet(s \o <<x>>) = ToSet(s) \cup {x}
<1>. DEFINE r == s \o <<x>>
<1>1. /\ r \in Seq(S)
      /\ Len(r) = Len(s) + 1
      /\ \A i \in 1..Len(s) : r[i] = s[i]
      /\ r[Len(s) + 1] = x
  OBVIOUS
<1>2. DOMAIN r = 1..(Len(s) + 1) /\ DOMAIN s = 1..Len(s)
  BY <1>1
<1>. HIDE DEF r
<1>3. ToSet(r) = ToSet(s) \cup {x}
  BY <1>1, <1>2 DEF ToSet
<1>. QED
  BY <1>1, <1>3 DEF r

LEMMA NoLines == ToSet(<<>>) = {}
  BY DEF ToSet

(* Streams and the two other threads are different ones. *)
LEMMA ThreadsApart ==
  /\ \A w \in Streams : w \in Threads /\ w # "timer" /\ w # "teardown"
  /\ "timer" \in Threads /\ "teardown" \in Threads
  BY LogAssumption DEF Threads

-----------------------------------------------------------------------------
LEMMA LogInitInv == LogInit => LogInv
<1>. SUFFICES ASSUME LogInit PROVE LogInv
  OBVIOUS
<1>1. LogTypeOK
  BY DEF LogInit, LogTypeOK
<1>2. NothingSkipped /\ HandsEmpty
  BY ThreadsApart DEF LogInit, NothingSkipped, HandsEmpty
<1>3. LinesKept
  BY DEF LogInit, LinesKept
<1>. QED
  BY <1>1, <1>2, <1>3 DEF LogInv

(* Reading, breaking off and stopping touch neither lines nor batches.     *)
LEMMA ReadInv ==
  ASSUME LogInv, NEW w \in Streams, ReadLine(w) \/ BreakOff(w)
  PROVE  LogInv'
<1>. USE DEF LogInv
<1>. w \in Threads /\ w # "teardown" /\ w # "timer"
  BY ThreadsApart
<1>1. UNCHANGED <<appended, lines, batch, sent, refused, streamStop, stopping>>
  BY DEF ReadLine, BreakOff, outcomes, stops
<1>2. PICK p \in {"idle", "append", "ended"}, n \in Nat :
        /\ place' = [place EXCEPT ![w] = p]
        /\ read' = [read EXCEPT ![w] = n]
        /\ n <= IF p = "append" THEN appended[w] + 1 ELSE appended[w]
  <2>1. place[w] = "idle" /\ read[w] \in Nat /\ appended[w] \in Nat
        /\ read[w] <= appended[w]
    BY DEF ReadLine, BreakOff, LogTypeOK, NothingSkipped
  <2>2. /\ place = [place EXCEPT ![w] = "idle"]
        /\ read = [read EXCEPT ![w] = read[w]]
    BY <2>1 DEF LogTypeOK
  <2>3. CASE ReadLine(w)
    BY <2>1, <2>2, <2>3 DEF ReadLine, Turn
  <2>4. CASE BreakOff(w)
    BY <2>1, <2>2, <2>4 DEF BreakOff, Turn
  <2>. QED
    BY <2>3, <2>4
<1>3. LogTypeOK'
  BY <1>1, <1>2 DEF LogTypeOK
<1>4. NothingSkipped'
  BY <1>1, <1>2, ThreadsApart DEF LogTypeOK, NothingSkipped
<1>5. HandsEmpty'
  <2>1. place[w] = "idle"
    BY DEF ReadLine, BreakOff
  <2>. QED
    BY <1>1, <1>2, <2>1 DEF LogTypeOK, HandsEmpty
<1>6. LinesKept'
  BY <1>1 DEF LinesKept, Held
<1>. QED
  BY <1>3, <1>4, <1>5, <1>6

LEMMA WakeInv ==
  ASSUME LogInv, TimerWakes \/ StopStreams \/ StopBuffer
  PROVE  LogInv'
<1>. USE DEF LogInv
<1>1. LogTypeOK'
  BY ThreadsApart DEF TimerWakes, StopStreams, StopBuffer, Turn, LogTypeOK
<1>2. NothingSkipped'
  BY ThreadsApart DEF TimerWakes, StopStreams, StopBuffer, Turn, LogTypeOK, NothingSkipped
<1>3. HandsEmpty'
  BY ThreadsApart
     DEF TimerWakes, StopStreams, StopBuffer, Turn, LogTypeOK, HandsEmpty, stops
<1>4. LinesKept'
  BY DEF TimerWakes, StopStreams, StopBuffer, LinesKept, Held, outcomes
<1>. QED
  BY <1>1, <1>2, <1>3, <1>4

(* The line that is appended is the next one, or one that was before.      *)
LEMMA AppendInv ==
  ASSUME LogInv, NEW w \in Streams, AppendLine(w)
  PROVE  LogInv'
<1>. USE DEF LogInv
<1>. DEFINE x == <<w, read[w]>>
<1>1. /\ place[w] = "append" /\ lines' = lines \o <<x>>
      /\ appended' = [appended EXCEPT ![w] = IF @ < read[w] THEN read[w] ELSE @]
      /\ UNCHANGED <<read, batch, sent, refused, stops>>
      /\ place' \in {[place EXCEPT ![w] = p] : p \in {"flush", "idle"}}
  BY DEF AppendLine, Turn, outcomes
<1>2. x \in Line /\ w \in Threads /\ w # "teardown" /\ w # "timer"
  BY ThreadsApart DEF LogTypeOK, Line
<1>3. lines' \in Seq(Line) /\ ToSet(lines') = ToSet(lines) \cup {x}
  BY <1>1, <1>2, LinesOfAppended DEF LogTypeOK
<1>4. LogTypeOK'
  BY <1>1, <1>2, <1>3 DEF LogTypeOK
<1>5. NothingSkipped'
  BY <1>1, <1>2, ThreadsApart DEF LogTypeOK, NothingSkipped
<1>6. HandsEmpty'
  BY <1>1, <1>2, ThreadsApart DEF LogTypeOK, HandsEmpty, stops
<1>7. LinesKept'
  <2>1. Held' = Held \cup {x}
    BY <1>1, <1>3 DEF Held
  <2>2. ASSUME NEW v \in Streams, NEW n \in 1..appended'[v]
        PROVE  n \in 1..appended[v] \/ <<v, n>> = x
    BY <1>1, <2>2 DEF LogTypeOK, NothingSkipped
  <2>. QED
    BY <1>1, <2>1, <2>2 DEF LinesKept
<1>. QED
  BY <1>4, <1>5, <1>6, <1>7

(* Taking a batch moves the lines; handing it over moves it on.            *)
LEMMA TakeInv ==
  ASSUME LogInv, NEW t \in Threads, TakeBatch(t)
  PROVE  LogInv'
<1>. USE DEF LogInv
<1>1. /\ place[t] = "flush" /\ lines' = <<>>
      /\ batch' = [batch EXCEPT ![t] = lines]
      /\ UNCHANGED <<read, appended, sent, refused, stopping>>
  BY DEF TakeBatch, outcomes, stops
<1>2. place' = [place EXCEPT ![t] = IF lines = <<>> THEN AfterFlush(t) ELSE "hand"]
  BY DEF TakeBatch, Turn
<1>3. LogTypeOK'
  BY <1>1, <1>2 DEF LogTypeOK, AfterFlush
<1>4. NothingSkipped'
  BY <1>1, <1>2, ThreadsApart DEF LogTypeOK, NothingSkipped, AfterFlush
<1>5. HandsEmpty'
  BY <1>1, <1>2, ThreadsApart DEF LogTypeOK, HandsEmpty, AfterFlush
<1>6. LinesKept'
  <2>1. batch[t] = <<>>
    BY <1>1 DEF HandsEmpty
  <2>2. Held \subseteq Held'
    <3>1. ToSet(lines) \subseteq ToSet(batch'[t])
      BY <1>1 DEF LogTypeOK
    <3>2. \A u \in Threads : ToSet(batch[u]) \subseteq ToSet(batch'[u])
      BY <1>1, <2>1, <3>1, NoLines DEF LogTypeOK
    <3>. QED
      BY <3>1, <3>2 DEF Held
  <2>. QED
    BY <1>1, <2>2 DEF LinesKept
<1>. QED
  BY <1>3, <1>4, <1>5, <1>6

LEMMA HandOverInv ==
  ASSUME LogInv, NEW t \in Threads, HandOver(t)
  PROVE  LogInv'
<1>. USE DEF LogInv
<1>1. /\ place[t] = "hand"
      /\ batch' = [batch EXCEPT ![t] = <<>>]
      /\ sent' \cup refused' = sent \cup refused \cup ToSet(batch[t])
      /\ UNCHANGED <<read, appended, lines, stopping>>
      /\ place' = [place EXCEPT ![t] = AfterFlush(t)]
  BY DEF HandOver, Turn, stops
<1>2. LogTypeOK'
  BY <1>1 DEF LogTypeOK, AfterFlush
<1>3. NothingSkipped'
  BY <1>1, ThreadsApart DEF LogTypeOK, NothingSkipped, AfterFlush
<1>4. HandsEmpty'
  BY <1>1, ThreadsApart DEF LogTypeOK, HandsEmpty, AfterFlush
<1>5. LinesKept'
  <2>1. Held \subseteq Held' \cup ToSet(batch[t])
    BY <1>1 DEF Held, LogTypeOK
  <2>. QED
    BY <1>1, <2>1 DEF LinesKept
<1>. QED
  BY <1>2, <1>3, <1>4, <1>5

-----------------------------------------------------------------------------
LEMMA LogStepInv == LogInv /\ [LogNext]_logVars => LogInv'
<1>. SUFFICES ASSUME LogInv, [LogNext]_logVars PROVE LogInv'
  OBVIOUS
<1>1. ASSUME NEW w \in Streams, ReadLine(w) \/ BreakOff(w) PROVE LogInv'
  BY <1>1, ReadInv
<1>2. ASSUME NEW w \in Streams, AppendLine(w) PROVE LogInv'
  BY <1>2, AppendInv
<1>3. CASE TimerWakes \/ StopStreams \/ StopBuffer
  BY <1>3, WakeInv
<1>4. ASSUME NEW t \in Threads, Flush(t) PROVE LogInv'
  BY <1>4, TakeInv, HandOverInv DEF Flush
<1>5. CASE UNCHANGED logVars
  BY <1>5 DEF LogInv, LogTypeOK, NothingSkipped, HandsEmpty, LinesKept, Held,
              logVars, outcomes, stops
<1>. QED
  BY <1>1, <1>2, <1>3, <1>4, <1>5 DEF LogNext

(* Every line a stream has appended is in the buffer, in one batch, handed *)
(* over or refused by the callback, whichever threads flush at once        *)
(* (log_buffer.py:83-125).                                                 *)
THEOREM LinesNeverLost == LogSpec => []LinesKept
<1>1. LogInv => LinesKept
  BY DEF LogInv
<1>. QED
  BY <1>1, LogInitInv, LogStepInv, PTL DEF LogSpec
=============================================================================
