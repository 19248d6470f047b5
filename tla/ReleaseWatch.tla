---------------------------- MODULE ReleaseWatch ----------------------------
(***************************************************************************)
(* From a release on GitHub to a queued run: the github-watcher (its       *)
(* poller and its webhook handlers, tasks of one process), the release     *)
(* tables both it and the orchestrator write, and the orchestrator's       *)
(* consumer of releases.orchestrator and routes under /releases.           *)
(*                                                                         *)
(* An action is the code between two awaits that another task can tell     *)
(* apart.  A task remembers in "node" the node release it works on and in  *)
(* "pages" the CLI releases it has fetched and not yet handled.             *)
(*                                                                         *)
(* Abstracted: pull requests and the texts of an event, the toolchain a    *)
(* run is requested with, signatures, the rate limit (a reply that does    *)
(* not come), and the rows of runs that were not triggered by a release    *)
(* (only whether a release has one).                                       *)
(***************************************************************************)
EXTENDS ReleaseCatalog

CONSTANTS
  NodeReleases,  \* node releases in the order GitHub publishes them
  CliReleases,   \* releases of the CLI repository in that order: records
                 \* of a tag, the node it bumps and the versions it names
  Handlers,      \* webhook requests that can be under way at once
  Seed,          \* the catalog of the first start
  Payloads,      \* what users send to PATCH /releases/{tag}/toolchain
  MaxExtras      \* bound: calls of the routes, manual runs, crashes and
                 \* failed calls, together

ASSUME ReleaseAssumption ==
  /\ NodeReleases \in Seq(Nodes)
  /\ CliReleases \in Seq([tag : CliTags, node : Maybe(Nodes), sdk : Maybe(Sdks),
                          devnet : Maybe(Devnets), contracts : Maybe(Contracts)])
  /\ "poller" \notin Handlers
  /\ Payloads \subseteq [given : SUBSET Fields, to : Chain]
  /\ Seed \in Catalog /\ Closed(Seed)
  /\ MaxExtras \in Nat

VARIABLES
  nodesOut,   \* how many node releases are published
  clisOut,    \* and how many of the CLI repository
  hooks,      \* webhook calls GitHub has still to make, by tag
  releases,   \* github.releases: the node releases taken for processed
  cat,        \* the catalog tables
  memo,       \* versions the resolver of each process remembers
  doing,      \* where each task of the watcher is
  node,       \* the node release it works on
  pages,      \* the CLI releases it has still to look at
  news,       \* releases.orchestrator
  consumer,   \* the handler of the message at its head
  runs,       \* runs triggered by a release, per node release
  manual,     \* releases a user has triggered a run for
  requested,  \* sandbox requests published for the runs of a release
  editor,     \* the handler of PATCH /releases/{tag}/toolchain
  edits,
  mishaps

taskVars     == <<doing, node, pages>>
watcherVars  == <<releases, taskVars>>
consumerVars == <<consumer, runs, requested>>
routeVars    == <<manual, editor, edits>>
githubVars   == <<nodesOut, clisOut, hooks>>
releaseVars  == <<githubVars, watcherVars, cat, memo, news, consumerVars,
                  routeVars, mishaps>>

Tasks == {"poller"} \cup Handlers
Procs == {"watcher", "orchestrator"}
Idle  == [at |-> "idle"]

EmptyCache == [n \in Nodes |-> NoChain]

(* The CLI page, newest first, or nothing when GitHub does not answer. *)
Page    == Reverse(SubSeq(CliReleases, 1, clisOut))
Replies == {Page, <<>>}
Latest  == IF nodesOut = 0 THEN None ELSE NodeReleases[nodesOut]

ReleaseTypeOK ==
  /\ nodesOut \in 0..Len(NodeReleases)
  /\ clisOut \in 0..Len(CliReleases)
  /\ hooks \subseteq Nodes \cup CliTags
  /\ releases \subseteq Nodes
  /\ cat \in Catalog
  /\ memo \in [Procs -> [Nodes -> Chain]]
  /\ doing \in [Tasks -> {"idle", "insert", "upsert", "publish", "fetch", "cli",
                       "link", "ask", "tell"}]
  /\ node \in [Tasks -> Maybe(Nodes)]
  /\ news \in Seq(Nodes)
  /\ consumer \in {"idle", "insert", "request"}
  /\ runs \in [Nodes -> Nat]
  /\ requested \in [Nodes -> Nat]
  /\ manual \subseteq Nodes
  /\ \/ editor = Idle
     \/ editor.at = "read" /\ editor.old \in Chain /\ editor.ask \in Payloads
  /\ edits \in 0..MaxExtras
  /\ mishaps \in 0..MaxExtras

ReleaseInit ==
  /\ nodesOut = 0
  /\ clisOut = 0
  /\ hooks = {}
  /\ releases = {}
  /\ cat = Seed
  /\ memo = [p \in Procs |-> EmptyCache]
  /\ doing = [t \in Tasks |-> "idle"]
  /\ node = [t \in Tasks |-> None]
  /\ pages = [t \in Tasks |-> <<>>]
  /\ news = <<>>
  /\ consumer = "idle"
  /\ runs = [n \in Nodes |-> 0]
  /\ manual = {}
  /\ requested = [n \in Nodes |-> 0]
  /\ editor = Idle
  /\ edits = 0
  /\ mishaps = 0

ReleaseFault == edits + mishaps < MaxExtras /\ mishaps' = mishaps + 1
Edit  == edits + mishaps < MaxExtras /\ edits' = edits + 1

ChainOf(rel) == [cli |-> rel.tag, sdk |-> rel.sdk, devnet |-> rel.devnet,
                 contracts |-> rel.contracts]

-----------------------------------------------------------------------------
(* GitHub: a release appears; its webhook call is due, or will never come. *)

PublishNode ==
  /\ nodesOut < Len(NodeReleases)
  /\ nodesOut' = nodesOut + 1
  /\ hooks' \in {hooks, hooks \cup {NodeReleases[nodesOut + 1]}}
  /\ UNCHANGED <<clisOut, watcherVars, cat, memo, news, consumerVars,
                 routeVars, mishaps>>

PublishCli ==
  /\ clisOut < Len(CliReleases)
  /\ clisOut' = clisOut + 1
  /\ hooks' \in {hooks, hooks \cup {CliReleases[clisOut + 1].tag}}
  /\ UNCHANGED <<nodesOut, watcherVars, cat, memo, news, consumerVars,
                 routeVars, mishaps>>

-----------------------------------------------------------------------------
(* The watcher. *)

Do(t, where) == doing' = [doing EXCEPT ![t] = where]

(* The poller fetches the latest node release and looks it up. *)
PollNode ==
  /\ doing["poller"] = "idle"
  /\ \/ /\ Latest # None
        /\ Latest \notin releases
        /\ node' = [node EXCEPT !["poller"] = Latest]
        /\ Do("poller", "insert")
     \/ Do("poller", "fetch") /\ UNCHANGED node
  /\ UNCHANGED <<githubVars, releases, pages, cat, memo, news, consumerVars,
                 routeVars, mishaps>>

(* A webhook of the node repository is processed without a look; one of    *)
(* the CLI repository is checked like a release of the page.               *)
Webhook(h) ==
  /\ doing[h] = "idle"
  /\ \E tag \in hooks :
       /\ hooks' = hooks \ {tag}
       /\ \/ /\ tag \in Nodes
             /\ node' = [node EXCEPT ![h] = tag]
             /\ Do(h, "insert")
             /\ UNCHANGED pages
          \/ \E i \in 1..clisOut :
               /\ CliReleases[i].tag = tag
               /\ pages' = [pages EXCEPT ![h] = <<CliReleases[i]>>]
               /\ Do(h, "cli")
               /\ UNCHANGED node
  /\ UNCHANGED <<nodesOut, clisOut, releases, cat, memo, news, consumerVars,
                 routeVars, mishaps>>

(* Mutant: the event is published before the catalog is written. *)
InsertRelease_PublishFirst(t) ==
  /\ doing[t] = "insert"
  /\ releases' = releases \cup {node[t]}
  /\ Do(t, "publish")
  /\ UNCHANGED <<githubVars, node, pages, cat, memo, news, consumerVars,
                 routeVars, mishaps>>

(* From here on the poller takes the release for processed. *)
InsertRelease(t) ==
  /\ doing[t] = "insert"
  /\ releases' = releases \cup {node[t]}
  /\ Do(t, "upsert")
  /\ UNCHANGED <<githubVars, node, pages, cat, memo, news, consumerVars,
                 routeVars, mishaps>>

UpsertNodeCatalog(t) ==
  /\ doing[t] = "upsert"
  /\ \E page \in Replies :
       /\ cat' = UpsertNode(cat, node[t],
                            ResolveVersions(memo["watcher"], page, node[t]), FALSE)
       /\ memo' = [memo EXCEPT !["watcher"] = Learn(@, page, node[t])]
  /\ Do(t, "publish")
  /\ UNCHANGED <<githubVars, releases, node, pages, news, consumerVars,
                 routeVars, mishaps>>

PublishRelease(t) ==
  /\ doing[t] = "publish"
  /\ news' = Append(news, node[t])
  /\ node' = [node EXCEPT ![t] = None]
  /\ Do(t, IF t = "poller" THEN "fetch" ELSE "idle")
  /\ UNCHANGED <<githubVars, releases, pages, cat, memo, consumerVars,
                 routeVars, mishaps>>

FetchClis ==
  /\ doing["poller"] = "fetch"
  /\ \E page \in Replies : pages' = [pages EXCEPT !["poller"] = page]
  /\ Do("poller", "cli")
  /\ UNCHANGED <<githubVars, releases, node, cat, memo, news, consumerVars,
                 routeVars, mishaps>>

(* Releases of the SDK and releases whose row exists are passed over. *)
CheckCli(t) ==
  /\ doing[t] = "cli"
  /\ pages[t] # <<>>
  /\ IF Head(pages[t]).tag \in Sdks \cup cat.known
     THEN pages' = [pages EXCEPT ![t] = Tail(@)] /\ UNCHANGED doing
     ELSE Do(t, "link") /\ UNCHANGED pages
  /\ UNCHANGED <<githubVars, releases, node, cat, memo, news, consumerVars,
                 routeVars, mishaps>>

(* After the last of them the poller looks for new contracts and sleeps. *)
EndClis(t) ==
  /\ doing[t] = "cli"
  /\ pages[t] = <<>>
  /\ Do(t, "idle")
  /\ \/ UNCHANGED cat
     \/ /\ t = "poller"
        /\ \E k \in Contracts \ cat.known : cat' = AddLeaves(cat, {k})
  /\ UNCHANGED <<githubVars, releases, node, pages, memo, news, consumerVars,
                 routeVars, mishaps>>

UpsertCliChain(t) ==
  /\ doing[t] = "link"
  /\ LET rel    == Head(pages[t])
         linked == LinkChain(cat, ChainOf(rel))
         hit    == rel.node # None /\ Backfilled(linked, rel.node)
     IN  /\ cat' = UpsertCli(cat, ChainOf(rel), rel.node)
         /\ node' = [node EXCEPT ![t] = IF hit THEN rel.node ELSE None]
         /\ Do(t, IF hit THEN "ask" ELSE "cli")
  /\ pages' = [pages EXCEPT ![t] = Tail(@)]
  /\ UNCHANGED <<githubVars, releases, memo, news, consumerVars, routeVars,
                 mishaps>>

(* A node that was completed is announced if it has never been run. *)
AskRuns(t) ==
  /\ doing[t] = "ask"
  /\ IF runs[node[t]] > 0 \/ node[t] \in manual
     THEN Do(t, "cli") /\ node' = [node EXCEPT ![t] = None]
     ELSE Do(t, "tell") /\ UNCHANGED node
  /\ UNCHANGED <<githubVars, releases, pages, cat, memo, news, consumerVars,
                 routeVars, mishaps>>

TellCompleted(t) ==
  /\ doing[t] = "tell"
  /\ news' = Append(news, node[t])
  /\ node' = [node EXCEPT ![t] = None]
  /\ Do(t, "cli")
  /\ UNCHANGED <<githubVars, releases, pages, cat, memo, consumerVars,
                 routeVars, mishaps>>

Drop(T) ==
  /\ doing' = [t \in Tasks |-> IF t \in T THEN "idle" ELSE doing[t]]
  /\ node' = [t \in Tasks |-> IF t \in T THEN None ELSE node[t]]
  /\ pages' = [t \in Tasks |-> IF t \in T THEN <<>> ELSE pages[t]]

(* A call raises: the poller logs it and sleeps, a webhook answers 500. *)
TaskFails(t) ==
  /\ ReleaseFault
  /\ doing[t] # "idle"
  /\ Drop({t})
  /\ UNCHANGED <<githubVars, releases, cat, memo, news, consumerVars, routeVars>>

WatcherCrash ==
  /\ ReleaseFault
  /\ Drop(Tasks)
  /\ memo' = [memo EXCEPT !["watcher"] = EmptyCache]
  /\ UNCHANGED <<githubVars, releases, cat, news, consumerVars, routeVars>>

-----------------------------------------------------------------------------
(* The orchestrator's consumer: one message at a time. *)

Done == consumer' = "idle" /\ news' = Tail(news)

(* Mutant: any release event gets a run. *)
ConsumerCheck_NoLookup ==
  /\ consumer = "idle" /\ news # <<>>
  /\ consumer' = "insert"
  /\ UNCHANGED <<githubVars, watcherVars, cat, memo, news, runs, requested,
                 routeVars, mishaps>>

(* Mutant: a run that a user triggered counts as the run of the release. *)
ConsumerCheck_AnyRun ==
  /\ consumer = "idle" /\ news # <<>>
  /\ IF runs[Head(news)] > 0 \/ Head(news) \in manual
     THEN Done
     ELSE /\ consumer' = "insert"
                  /\ UNCHANGED news
  /\ UNCHANGED <<githubVars, watcherVars, cat, memo, runs, requested,
                 routeVars, mishaps>>

(* A release that has a run of its own is passed over; for another the     *)
(* toolchain is read from the catalog.                                     *)
ConsumerCheck ==
  /\ consumer = "idle" /\ news # <<>>
  /\ IF runs[Head(news)] > 0
     THEN Done
     ELSE consumer' = "insert" /\ UNCHANGED news
  /\ UNCHANGED <<githubVars, watcherVars, cat, memo, runs, requested,
                 routeVars, mishaps>>

ConsumerInsert ==
  /\ consumer = "insert"
  /\ runs' = [runs EXCEPT ![Head(news)] = @ + 1]
  /\ consumer' = "request"
  /\ UNCHANGED <<githubVars, watcherVars, cat, memo, news, requested,
                 routeVars, mishaps>>

ConsumerRequest ==
  /\ consumer = "request"
  /\ requested' = [requested EXCEPT ![Head(news)] = @ + 1]
  /\ Done
  /\ UNCHANGED <<githubVars, watcherVars, cat, memo, runs, routeVars, mishaps>>

(* Any exception is logged and the message acknowledged. *)
ConsumerFails ==
  /\ ReleaseFault
  /\ consumer # "idle"
  /\ Done
  /\ UNCHANGED <<githubVars, watcherVars, cat, memo, runs, requested, routeVars>>

(* The message comes back after the restart. *)
ConsumerCrash ==
  /\ ReleaseFault
  /\ consumer' = "idle"
  /\ editor' = Idle
  /\ memo' = [memo EXCEPT !["orchestrator"] = EmptyCache]
  /\ UNCHANGED <<githubVars, watcherVars, cat, news, runs, requested, manual,
                 edits>>

-----------------------------------------------------------------------------
(* The orchestrator's routes. *)

RouteKeeps == UNCHANGED <<githubVars, watcherVars, news, consumerVars, mishaps>>

SyncNodeReleases ==
  /\ Edit
  /\ \E page \in Replies :
       LET known     == memo["orchestrator"]
           found     == [n \in Nodes |-> ResolveVersions(known, page, n)]
           published == Reverse(SubSeq(NodeReleases, 1, nodesOut))
       IN  /\ cat' = SyncNodes(cat, published, found)
           /\ memo' = [memo EXCEPT !["orchestrator"] =
                          FoldLeft(LAMBDA c, n : Learn(c, page, n), @, published)]
  /\ RouteKeeps /\ UNCHANGED <<manual, editor>>

SyncCliReleases ==
  /\ Edit
  /\ cat' = SyncClis(cat, [i \in DOMAIN Page |-> ChainOf(Page[i])])
  /\ RouteKeeps /\ UNCHANGED <<memo, manual, editor>>

SyncLeaves ==
  /\ Edit
  /\ \E tags \in {Sdks \cap {CliReleases[i].tag : i \in 1..clisOut}, Contracts} :
       cat' = AddLeaves(cat, tags)
  /\ RouteKeeps /\ UNCHANGED <<memo, manual, editor>>

(* A release added by hand, with the CLI the user names or the resolver's. *)
AddRelease ==
  /\ Edit
  /\ \E n \in Nodes, page \in Replies, cli \in Maybe(Clis) :
       LET asked == cli # None /\ n \in V2
           ch == IF asked THEN [NoChain EXCEPT !.cli = cli]
                 ELSE ResolveVersions(memo["orchestrator"], page, n)
       IN  /\ cat' = UpsertNode(cat, n, ch, TRUE)
           /\ memo' = IF asked THEN memo
                       ELSE [memo EXCEPT !["orchestrator"] = Learn(@, page, n)]
  /\ RouteKeeps /\ UNCHANGED <<manual, editor>>

RemoveRelease ==
  /\ Edit
  /\ \E n \in Nodes \cap cat.known : cat' = SoftDelete(cat, n)
  /\ RouteKeeps /\ UNCHANGED <<memo, manual, editor>>

(* update_toolchain reads the chain of the release ... *)
ReadToolchain ==
  /\ editor = Idle
  /\ Edit
  /\ \E n \in Nodes \cap cat.known, ask \in Payloads :
       editor' = [at |-> "read", node |-> n, old |-> Toolchain(cat, n),
                  ask |-> ask]
  /\ RouteKeeps /\ UNCHANGED <<cat, memo, manual>>

(* ... and writes all of it in another statement. *)
CommitToolchain ==
  /\ editor # Idle
  /\ cat' = Patch(cat, editor.node, editor.old, editor.ask)
  /\ editor' = Idle
  /\ RouteKeeps /\ UNCHANGED <<memo, manual, edits>>

TriggerManually ==
  /\ Edit
  /\ \E n \in Nodes \ manual : manual' = manual \cup {n}
  /\ RouteKeeps /\ UNCHANGED <<cat, memo, editor>>

-----------------------------------------------------------------------------
TaskStep(t) ==
  \/ InsertRelease(t) \/ UpsertNodeCatalog(t) \/ PublishRelease(t)
  \/ CheckCli(t) \/ UpsertCliChain(t) \/ AskRuns(t) \/ TellCompleted(t)
  \/ EndClis(t)
  \/ t = "poller" /\ FetchClis

ConsumerStep == ConsumerCheck \/ ConsumerInsert \/ ConsumerRequest

Route ==
  \/ SyncNodeReleases \/ SyncCliReleases \/ SyncLeaves \/ AddRelease
  \/ RemoveRelease \/ ReadToolchain \/ CommitToolchain \/ TriggerManually

ReleaseNext ==
  \/ PublishNode \/ PublishCli
  \/ PollNode
  \/ \E h \in Handlers : Webhook(h)
  \/ \E t \in Tasks : TaskStep(t) \/ TaskFails(t)
  \/ WatcherCrash
  \/ ConsumerStep \/ ConsumerFails \/ ConsumerCrash
  \/ Route

ReleaseSpec == ReleaseInit /\ [][ReleaseNext]_releaseVars

(* The loops of the two processes go on, and GitHub answers now and then   *)
(* (strong fairness of the poll that finds a release).                     *)
FairReleaseSpec ==
  /\ ReleaseSpec
  /\ WF_releaseVars(ConsumerStep)
  /\ \A t \in Tasks : WF_releaseVars(TaskStep(t))
  /\ SF_releaseVars(PollNode /\ node' # node)

-----------------------------------------------------------------------------
(* A release has at most one run of its own, however often the poller, the *)
(* webhooks and the CLI watcher announce it and the broker redelivers it:  *)
(* the look-up of the consumer and its insert are two statements           *)
(* (releases.py:61-156).                                                   *)
OneRunPerRelease == \A n \in Nodes : runs[n] <= 1

(* The consumer finds the row of every release it is told of: its fallback *)
(* for a "race between poller and consumer" (releases.py:104) never        *)
(* decides the toolchain of a run, since both writers of an event commit   *)
(* the catalog before they publish.                                        *)
CatalogBeforeRun == \A i \in DOMAIN news : news[i] \in cat.known

(* Every pointer of the chain leads to a row, in every commit of the       *)
(* watcher and of the routes: no insert runs into a foreign key            *)
(* (init.sql:447-497) and no join breaks off half way.                     *)
ChainClosed == Closed(cat)

(* A release that stays the latest gets a run and its sandbox request,     *)
(* whoever saw it first, unless a call fails or a process dies on the way. *)
LatestGetsRun ==
  \A n \in Nodes :
    (Latest = n) ~> (requested[n] > 0 \/ Latest # n \/ mishaps > 0)
=============================================================================
