--------------------------- MODULE ReleaseCatalog ---------------------------
(***************************************************************************)
(* The five tables of the version chain (schema github) and what every     *)
(* writer does to them:                                                    *)
(*                                                                         *)
(*   release.cli_tag -> cli.sdk_tag, cli.devnet_tag -> devnet.contracts    *)
(*                                                                         *)
(* The watcher and the routes of the orchestrator hold the same SQL twice; *)
(* both copies are these operators.  A row is a tag in "known"; a pointer  *)
(* of a row that does not exist is None.  A handler commits once, and its  *)
(* upserts lock the rows they read, so a transaction is one function of    *)
(* the catalog.  Only update_toolchain reads without a lock: what it read  *)
(* is an argument of its own (see Patch).                                  *)
(*                                                                         *)
(* Abstracted: channels, labels, dates, download counts and texts.         *)
(***************************************************************************)
EXTENDS Naturals, Sequences, SequencesExt

CONSTANTS
  Nodes, Clis, Sdks, Devnets, Contracts,  \* tags of the releases
  V2,                                     \* nodes of major version 2 or more
  None                                    \* SQL NULL, Python None

ASSUME CatalogAssumption ==
  /\ V2 \subseteq Nodes
  /\ None \notin Nodes \cup Clis \cup Sdks \cup Devnets \cup Contracts

Tags == Nodes \cup Clis \cup Sdks \cup Devnets \cup Contracts

Maybe(S) == S \cup {None}

(* The resolver takes the tag of any release that names the node for its   *)
(* CLI, one of the SDK too: rows of the CLI table can have such a tag.     *)
CliTags == Clis \cup Sdks

Fields == {"cli", "sdk", "devnet", "contracts"}

Chain == [cli : Maybe(CliTags), sdk : Maybe(Sdks),
          devnet : Maybe(Devnets), contracts : Maybe(Contracts)]

NoChain == [cli |-> None, sdk |-> None, devnet |-> None, contracts |-> None]

Catalog == [known : SUBSET Tags,
            active : SUBSET Nodes,
            cliOf : [Nodes -> Maybe(CliTags)],
            sdkOf : [CliTags -> Maybe(Sdks)],
            devnetOf : [CliTags -> Maybe(Devnets)],
            contractsOf : [Devnets -> Maybe(Contracts)]]

Coalesce(new, old) == IF new = None THEN old ELSE new

Put(table, key, value) ==
  [k \in DOMAIN table |-> IF k = key THEN Coalesce(value, table[k])
                          ELSE table[k]]

(* Mutant: a leaf is not inserted. *)
LinkChain_NoLeaf(cat, ch) ==
  [cat EXCEPT
     !.known = @ \cup ({ch.cli, ch.sdk, ch.devnet} \ {None}),
     !.sdkOf = Put(@, ch.cli, ch.sdk),
     !.devnetOf = Put(@, ch.cli, ch.devnet),
     !.contractsOf = Put(@, ch.devnet, ch.contracts)]

(* Leaf to root: the rows of a chain exist and what it knows is linked.    *)
LinkChain(cat, ch) ==
  [cat EXCEPT
     !.known = @ \cup ({ch.cli, ch.sdk, ch.devnet, ch.contracts} \ {None}),
     !.sdkOf = Put(@, ch.cli, ch.sdk),
     !.devnetOf = Put(@, ch.cli, ch.devnet),
     !.contractsOf = Put(@, ch.devnet, ch.contracts)]

(* A node release with the chain the resolver found.  revive: the manual   *)
(* route sets is_active on conflict, the watcher and the sync leave it.    *)
UpsertNode(cat, n, ch, revive) ==
  [LinkChain(cat, ch) EXCEPT
     !.known = @ \cup {n},
     !.active = IF n \in cat.known /\ ~revive THEN @ ELSE @ \cup {n},
     !.cliOf = Put(@, n, ch.cli)]

(* The CLI watcher: its chain, then the pointer of the node it bumps, if   *)
(* that node is in the catalog without one.                                *)
Backfilled(cat, n) == n \in cat.known /\ cat.cliOf[n] = None

UpsertCli(cat, ch, n) ==
  LET linked == LinkChain(cat, ch)
  IN  IF n # None /\ Backfilled(linked, n)
      THEN [linked EXCEPT !.cliOf[n] = ch.cli]
      ELSE linked

(* POST /releases/cli/sync and /releases/sync: every release of the page   *)
(* in one transaction; the first passes over releases that are no CLI.     *)
SyncClis(cat, chains) ==
  FoldLeft(LAMBDA c, ch : IF ch.cli \in Clis THEN LinkChain(c, ch) ELSE c,
           cat, chains)

SyncNodes(cat, nodes, resolved) ==
  FoldLeft(LAMBDA c, n : UpsertNode(c, n, resolved[n], FALSE), cat, nodes)

(* POST /releases/sdk/sync and /releases/contracts/sync, and the watcher   *)
(* of the contracts: rows without pointers.                                *)
AddLeaves(cat, tags) == [cat EXCEPT !.known = @ \cup tags]

(* DELETE /releases/{tag}: the row stays. *)
SoftDelete(cat, n) == [cat EXCEPT !.active = @ \ {n}]

(* The LEFT JOIN from a release along its pointers: the consumer of        *)
(* releases, trigger_run, the lists and update_toolchain read this.        *)
Toolchain(cat, n) ==
  LET cli    == cat.cliOf[n]
      sdk    == IF cli = None THEN None ELSE cat.sdkOf[cli]
      devnet == IF cli = None THEN None ELSE cat.devnetOf[cli]
  IN  [cli |-> cli, sdk |-> sdk, devnet |-> devnet,
       contracts |-> IF devnet = None THEN None ELSE cat.contractsOf[devnet]]

(* PATCH /releases/{tag}/toolchain.  old is the toolchain read before; the *)
(* payload gives some fields (an empty string clears one).  A field that   *)
(* is not given is filled from old, and all four are written, each to the  *)
(* row that the new pointers lead to.                                      *)
Filled(old, ask) == [f \in Fields |-> IF f \in ask.given THEN ask.to[f]
                                      ELSE old[f]]

Patch(cat, n, old, ask) ==
  LET new == Filled(old, ask)
  IN  [LinkChain(cat, new) EXCEPT !.cliOf[n] = new.cli]

(* Every pointer leads to a row. *)
Closed(cat) ==
  /\ \A n \in Nodes : cat.cliOf[n] \in cat.known \cup {None}
  /\ \A c \in CliTags : {cat.sdkOf[c], cat.devnetOf[c]} \subseteq cat.known \cup {None}
  /\ \A d \in Devnets : cat.contractsOf[d] \in cat.known \cup {None}

(***************************************************************************)
(* The resolver (sdk_resolver.py): scan the CLI releases, newest first,    *)
(* for those that name the node; each version is taken from the first      *)
(* release that has it, and the scan ends with the release at which both   *)
(* the CLI and the SDK are known.  cache holds the versions found before.  *)
(***************************************************************************)
Merge(a, b) == [f \in Fields |-> Coalesce(a[f], b[f])]

Scan(page, n) ==
  FoldLeft(LAMBDA found, rel :
             IF rel.node # n \/ (found.cli # None /\ found.sdk # None)
             THEN found
             ELSE Merge(found, [cli |-> rel.tag, sdk |-> rel.sdk,
                                devnet |-> rel.devnet,
                                contracts |-> rel.contracts]),
           NoChain, page)

Cached(cache, n) == cache[n].cli # None /\ cache[n].sdk # None

(* page is <<>> when GitHub does not answer. *)
ResolveVersions(cache, page, n) ==
  IF n \notin V2 THEN NoChain
  ELSE IF Cached(cache, n) THEN cache[n]
  ELSE Merge(cache[n], Scan(page, n))

(* What the process remembers of it. *)
Learn(cache, page, n) ==
  LET found == Scan(page, n)
  IN  IF n \in V2 /\ ~Cached(cache, n) /\ {found.cli, found.sdk} # {None}
      THEN [cache EXCEPT ![n] = Merge(found, @)]
      ELSE cache
=============================================================================
