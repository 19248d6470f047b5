------------------------ MODULE ReleaseWatch_proofs ------------------------
(***************************************************************************)
(* Proofs about ReleaseWatch, for any releases, handlers and mishaps.      *)
(*                                                                         *)
(* OneRunPerRelease needs that the message the consumer works on stays at  *)
(* the head of the queue while the tasks of the watcher append to it, and  *)
(* that between the look-up and the insert nobody else gives the release a *)
(* run: the consumer takes one message at a time.                          *)
(*                                                                         *)
(* The invariants of the catalog say of each writer that it leaves a       *)
(* catalog that is closed and has the rows it had (Wider), and, but for the *)
(* PATCH of a release, every pointer it had (Fuller).  RowsInv adds where  *)
(* the rows of the releases are that a task, the queue and the editor hold. *)
(*                                                                         *)
(* The syncs and the resolver fold over a page of any length.  There is a  *)
(* function of the parts of the page that is the fold (FoldExists), and a  *)
(* set that the start is in and no step leaves has the result (FoldStays,  *)
(* ScanInduction); Counting is the induction over Nat they rest on.        *)
(***************************************************************************)
EXTENDS ReleaseWatch, WellFoundedInduction, TLAPS

CliRelease == [tag : CliTags, node : Maybe(Nodes), sdk : Maybe(Sdks),
               devnet : Maybe(Devnets), contracts : Maybe(Contracts)]

Places == {"idle", "insert", "upsert", "publish", "fetch", "cli", "link", "ask",
           "tell"}

(* What a task holds: a node release where it needs one, and CLI releases. *)
TasksRight ==
  /\ nodesOut \in 0..Len(NodeReleases)
  /\ clisOut \in 0..Len(CliReleases)
  /\ doing \in [Tasks -> Places]
  /\ node \in [Tasks -> Maybe(Nodes)]
  /\ pages \in [Tasks -> Seq(CliRelease)]
  /\ \A t \in Tasks :
       /\ doing[t] \in {"insert", "upsert", "publish", "ask", "tell"} => node[t] \in Nodes
       /\ doing[t] = "link" => pages[t] # <<>>

QueueRight ==
  /\ news \in Seq(Nodes)
  /\ runs \in [Nodes -> Nat]
  /\ consumer \in {"idle", "insert", "request"}
  /\ consumer # "idle" => news # <<>>
  /\ consumer = "insert" => runs[Head(news)] = 0

WatchInv == TasksRight /\ QueueRight /\ OneRunPerRelease

-----------------------------------------------------------------------------
LEMMA WatchInit == ReleaseInit => WatchInv
<1>. SUFFICES ASSUME ReleaseInit PROVE WatchInv
  OBVIOUS
<1>1. TasksRight
  BY ReleaseAssumption DEF ReleaseInit, TasksRight, Places, Maybe
<1>2. QueueRight /\ OneRunPerRelease
  BY DEF ReleaseInit, QueueRight, OneRunPerRelease
<1>. QED
  BY <1>1, <1>2 DEF WatchInv

LEMMA PageTypes ==
  ASSUME clisOut \in 0..Len(CliReleases)
  PROVE  \A page \in Replies : page \in Seq(CliRelease)
<1>1. CliReleases \in Seq(CliRelease)
  BY ReleaseAssumption DEF CliRelease
<1>2. SubSeq(CliReleases, 1, clisOut) \in Seq(CliRelease)
  BY <1>1
<1>3. ASSUME NEW z \in Seq(CliRelease) PROVE Reverse(z) \in Seq(CliRelease)
  BY <1>3 DEF Reverse
<1>4. Page \in Seq(CliRelease)
  BY <1>2, <1>3 DEF Page
<1>5. <<>> \in Seq(CliRelease)
  OBVIOUS
<1>. QED
  BY <1>4, <1>5 DEF Replies

(* A task appends a release to the queue: its head and the runs stay.      *)
LEMMA QueueGrows ==
  ASSUME QueueRight, OneRunPerRelease, NEW n \in Nodes,
         news' = Append(news, n), UNCHANGED <<runs, consumer>>
  PROVE  (QueueRight /\ OneRunPerRelease)'
<1>1. news' \in Seq(Nodes) /\ (news # <<>> => news' # <<>> /\ Head(news') = Head(news))
  BY DEF QueueRight
<1>. QED
  BY <1>1 DEF QueueRight, OneRunPerRelease

LEMMA QueueKept ==
  ASSUME QueueRight, OneRunPerRelease, UNCHANGED <<news, runs, consumer>>
  PROVE  (QueueRight /\ OneRunPerRelease)'
  BY DEF QueueRight, OneRunPerRelease

LEMMA TasksKept ==
  ASSUME TasksRight, UNCHANGED <<nodesOut, clisOut, doing, node, pages>>
  PROVE  TasksRight'
  BY DEF TasksRight

(* One task moves, with the release and the page it then has.              *)
LEMMA TaskMoves ==
  ASSUME TasksRight, NEW t \in Tasks, NEW p \in Places, NEW n \in Maybe(Nodes),
         NEW page \in Seq(CliRelease), UNCHANGED <<nodesOut, clisOut>>,
         doing' = [doing EXCEPT ![t] = p], node' = [node EXCEPT ![t] = n],
         pages' = [pages EXCEPT ![t] = page],
         p \in {"insert", "upsert", "publish", "ask", "tell"} => n \in Nodes,
         p = "link" => page # <<>>
  PROVE  TasksRight'
  BY DEF TasksRight

LEMMA TaskHolds ==
  ASSUME TasksRight, NEW t \in Tasks
  PROVE  /\ node[t] \in Maybe(Nodes) /\ pages[t] \in Seq(CliRelease)
         /\ UNCHANGED doing => doing' = [doing EXCEPT ![t] = doing[t]]
         /\ UNCHANGED node => node' = [node EXCEPT ![t] = node[t]]
         /\ UNCHANGED pages => pages' = [pages EXCEPT ![t] = pages[t]]
         /\ None \in Maybe(Nodes)
  BY DEF TasksRight, Maybe

-----------------------------------------------------------------------------
(* GitHub publishes: the tasks and the queue do not notice.                *)
LEMMA PublishInv == ASSUME WatchInv, PublishNode \/ PublishCli PROVE WatchInv'
<1>1. UNCHANGED <<doing, node, pages, news, runs, consumer>>
  BY DEF PublishNode, PublishCli, watcherVars, taskVars, consumerVars
<1>2. nodesOut' \in 0..Len(NodeReleases) /\ clisOut' \in 0..Len(CliReleases)
  BY ReleaseAssumption DEF PublishNode, PublishCli, WatchInv, TasksRight
<1>. QED
  BY <1>1, <1>2, QueueKept DEF WatchInv, TasksRight

LEMMA PollInv == ASSUME WatchInv, PollNode PROVE WatchInv'
<1>. DEFINE t == "poller"
<1>1. t \in Tasks /\ TasksRight
  BY DEF Tasks, WatchInv
<1>2. UNCHANGED <<nodesOut, clisOut, pages, news, runs, consumer>>
  BY DEF PollNode, githubVars, consumerVars
<1>3. (QueueRight /\ OneRunPerRelease)'
  BY <1>2, QueueKept DEF WatchInv
<1>4. CASE Latest # None /\ node' = [node EXCEPT ![t] = Latest]
           /\ doing' = [doing EXCEPT ![t] = "insert"]
  <2>1. Latest \in Nodes
    BY <1>1, <1>4, ReleaseAssumption DEF Latest, TasksRight
  <2>. QED
    BY <1>1, <1>2, <1>3, <1>4, <2>1, TaskMoves, TaskHolds DEF WatchInv, Places, Maybe
<1>5. CASE UNCHANGED node /\ doing' = [doing EXCEPT ![t] = "fetch"]
  BY <1>1, <1>2, <1>3, <1>5, TaskMoves, TaskHolds DEF WatchInv, Places
<1>. QED
  BY <1>4, <1>5 DEF PollNode, Do

LEMMA WebhookInv == ASSUME WatchInv, NEW h \in Handlers, Webhook(h) PROVE WatchInv'
<1>1. h \in Tasks /\ TasksRight
  BY DEF Tasks, WatchInv
<1>2. UNCHANGED <<nodesOut, clisOut, news, runs, consumer>>
  BY DEF Webhook, consumerVars
<1>3. (QueueRight /\ OneRunPerRelease)'
  BY <1>2, QueueKept DEF WatchInv
<1>4. ASSUME NEW tag \in Nodes, node' = [node EXCEPT ![h] = tag], UNCHANGED pages,
             doing' = [doing EXCEPT ![h] = "insert"]
      PROVE  WatchInv'
  BY <1>1, <1>2, <1>3, <1>4, TaskMoves, TaskHolds DEF WatchInv, Places, Maybe
<1>5. ASSUME NEW i \in 1..clisOut, pages' = [pages EXCEPT ![h] = <<CliReleases[i]>>],
             UNCHANGED node, doing' = [doing EXCEPT ![h] = "cli"]
      PROVE  WatchInv'
  <2>1. CliReleases \in Seq(CliRelease) /\ i \in 1..Len(CliReleases)
    BY <1>1, <1>5, ReleaseAssumption DEF CliRelease, TasksRight
  <2>2. CliReleases[i] \in CliRelease
    BY <2>1
  <2>3. <<CliReleases[i]>> \in Seq(CliRelease)
    BY <2>2
  <2>. QED
    BY <1>1, <1>2, <1>3, <1>5, <2>3, TaskMoves, TaskHolds DEF WatchInv, Places
<1>. QED
  BY <1>4, <1>5 DEF Webhook, Do

(* The steps of a task that tell nobody.                                   *)
LEMMA TaskStepInv ==
  ASSUME WatchInv, NEW t \in Tasks,
         \/ InsertRelease(t) \/ UpsertNodeCatalog(t) \/ CheckCli(t)
         \/ UpsertCliChain(t) \/ AskRuns(t) \/ EndClis(t)
         \/ t = "poller" /\ FetchClis
  PROVE  WatchInv'
<1>. USE TaskHolds DEF Places
<1>1. TasksRight /\ UNCHANGED <<nodesOut, clisOut, news, runs, consumer>>
  BY DEF InsertRelease, UpsertNodeCatalog, CheckCli, UpsertCliChain, AskRuns,
         EndClis, FetchClis, githubVars, consumerVars, WatchInv
<1>2. (QueueRight /\ OneRunPerRelease)'
  BY <1>1, QueueKept DEF WatchInv
<1>3. SUFFICES TasksRight'
  BY <1>2 DEF WatchInv
<1>4. CASE InsertRelease(t)
  <2>1. /\ doing[t] = "insert" /\ doing' = [doing EXCEPT ![t] = "upsert"]
        /\ UNCHANGED node /\ UNCHANGED pages
    BY <1>4 DEF InsertRelease, Do
  <2>2. node[t] \in Nodes
    BY <1>1, <2>1 DEF TasksRight
  <2>. QED
    BY <1>1, <2>1, <2>2, TaskMoves
<1>5. CASE UpsertNodeCatalog(t)
  <2>1. /\ doing[t] = "upsert" /\ doing' = [doing EXCEPT ![t] = "publish"]
        /\ UNCHANGED node /\ UNCHANGED pages
    BY <1>5 DEF UpsertNodeCatalog, Do
  <2>2. node[t] \in Nodes
    BY <1>1, <2>1 DEF TasksRight
  <2>. QED
    BY <1>1, <2>1, <2>2, TaskMoves
<1>6. CASE CheckCli(t)
  <2>1. doing[t] = "cli" /\ pages[t] # <<>> /\ UNCHANGED node
    BY <1>6 DEF CheckCli
  <2>2. CASE pages' = [pages EXCEPT ![t] = Tail(@)] /\ UNCHANGED doing
    <3>1. pages' = [pages EXCEPT ![t] = Tail(pages[t])] /\ Tail(pages[t]) \in Seq(CliRelease)
      BY <1>1, <2>1, <2>2 DEF TasksRight
    <3>2. doing' = [doing EXCEPT ![t] = "cli"] /\ node' = [node EXCEPT ![t] = node[t]]
      BY <1>1, <2>1, <2>2 DEF TasksRight
    <3>. QED
      BY <1>1, <3>1, <3>2, TaskMoves
  <2>3. CASE doing' = [doing EXCEPT ![t] = "link"] /\ UNCHANGED pages
    BY <1>1, <2>1, <2>3, TaskMoves
  <2>. QED
    BY <1>6, <2>2, <2>3 DEF CheckCli, Do
<1>7. CASE UpsertCliChain(t)
  <2>. DEFINE rel == Head(pages[t])
              hit == rel.node # None /\ Backfilled(LinkChain(cat, ChainOf(rel)), rel.node)
  <2>1. /\ doing[t] = "link"
        /\ node' = [node EXCEPT ![t] = IF hit THEN rel.node ELSE None]
        /\ doing' = [doing EXCEPT ![t] = IF hit THEN "ask" ELSE "cli"]
        /\ pages' = [pages EXCEPT ![t] = Tail(pages[t])]
    BY <1>1, <1>7 DEF UpsertCliChain, Do, TasksRight
  <2>2. /\ Tail(pages[t]) \in Seq(CliRelease)
        /\ rel \in CliRelease
    BY <1>1, <2>1 DEF TasksRight
  <2>3. rel.node \in Maybe(Nodes)
    BY <2>2 DEF CliRelease
  <2>4. hit => rel.node \in Nodes
    BY <2>3 DEF Maybe
  <2>. HIDE DEF hit, rel
  <2>5. CASE hit
    BY <1>1, <2>1, <2>2, <2>3, <2>4, <2>5, TaskMoves
  <2>6. CASE ~ hit
    BY <1>1, <2>1, <2>2, <2>6, TaskMoves
  <2>. QED
    BY <2>5, <2>6
<1>8. CASE AskRuns(t)
  <2>1. doing[t] = "ask" /\ UNCHANGED pages
    BY <1>8 DEF AskRuns
  <2>2. node[t] \in Nodes
    BY <1>1, <2>1 DEF TasksRight
  <2>3. CASE doing' = [doing EXCEPT ![t] = "cli"] /\ node' = [node EXCEPT ![t] = None]
    BY <1>1, <2>1, <2>3, TaskMoves
  <2>4. CASE doing' = [doing EXCEPT ![t] = "tell"] /\ UNCHANGED node
    BY <1>1, <2>1, <2>2, <2>4, TaskMoves
  <2>. QED
    BY <1>8, <2>3, <2>4 DEF AskRuns, Do
<1>9. CASE EndClis(t)
  <2>1. doing' = [doing EXCEPT ![t] = "idle"] /\ UNCHANGED node /\ UNCHANGED pages
    BY <1>9 DEF EndClis, Do
  <2>. QED
    BY <1>1, <2>1, TaskMoves
<1>10. CASE t = "poller" /\ FetchClis
  <2>1. PICK page \in Replies : pages' = [pages EXCEPT ![t] = page]
    BY <1>10 DEF FetchClis
  <2>2. page \in Seq(CliRelease)
    BY <1>1, PageTypes DEF TasksRight
  <2>3. doing' = [doing EXCEPT ![t] = "cli"] /\ UNCHANGED node
    BY <1>10 DEF FetchClis, Do
  <2>. QED
    BY <1>1, <2>1, <2>2, <2>3, TaskMoves
<1>. QED
  BY <1>4, <1>5, <1>6, <1>7, <1>8, <1>9, <1>10

(* The two that put a release into the queue of the consumer.              *)
LEMMA TellInv ==
  ASSUME WatchInv, NEW t \in Tasks, PublishRelease(t) \/ TellCompleted(t)
  PROVE  WatchInv'
<1>1. /\ doing[t] \in {"publish", "tell"} /\ news' = Append(news, node[t])
      /\ node' = [node EXCEPT ![t] = None]
      /\ UNCHANGED <<nodesOut, clisOut, runs, consumer>> /\ UNCHANGED pages
  BY DEF PublishRelease, TellCompleted, githubVars, consumerVars
<1>2. PICK p \in {"fetch", "idle", "cli"} : doing' = [doing EXCEPT ![t] = p]
  BY DEF PublishRelease, TellCompleted, Do
<1>3. TasksRight /\ node[t] \in Nodes
  BY <1>1 DEF WatchInv, TasksRight
<1>4. TasksRight'
  BY <1>1, <1>2, <1>3, TaskMoves, TaskHolds DEF Places
<1>5. (QueueRight /\ OneRunPerRelease)'
  BY <1>1, <1>3, QueueGrows DEF WatchInv
<1>. QED
  BY <1>4, <1>5 DEF WatchInv

LEMMA DropInv ==
  ASSUME WatchInv, NEW T, Drop(T),
         UNCHANGED <<nodesOut, clisOut, news, runs, consumer>>
  PROVE  WatchInv'
<1>1. doing' \in [Tasks -> Places] /\ \A t \in Tasks : doing'[t] \in {"idle", doing[t]}
  BY DEF Drop, WatchInv, TasksRight, Places
<1>2. node' \in [Tasks -> Maybe(Nodes)] /\ pages' \in [Tasks -> Seq(CliRelease)]
  BY DEF Drop, WatchInv, TasksRight, Maybe
<1>3. \A t \in Tasks : doing'[t] # "idle" => node'[t] = node[t] /\ pages'[t] = pages[t]
  BY DEF Drop
<1>4. TasksRight'
  BY <1>1, <1>2, <1>3 DEF WatchInv, TasksRight
<1>. QED
  BY <1>4, QueueKept DEF WatchInv

(* The consumer: only it takes messages and inserts runs.                  *)
LEMMA ConsumerInv ==
  ASSUME WatchInv, ConsumerStep \/ ConsumerFails \/ ConsumerCrash
  PROVE  WatchInv'
<1>1. UNCHANGED <<nodesOut, clisOut, doing, node, pages>>
  BY DEF ConsumerStep, ConsumerCheck, ConsumerInsert, ConsumerRequest,
         ConsumerFails, ConsumerCrash, githubVars, watcherVars, taskVars
<1>2. SUFFICES (QueueRight /\ OneRunPerRelease)'
  BY <1>1, TasksKept DEF WatchInv
<1>3. CASE news # <<>> /\ Done /\ UNCHANGED runs
  <2>1. news' \in Seq(Nodes) /\ consumer' = "idle"
    BY <1>3 DEF Done, WatchInv, QueueRight
  <2>. QED
    BY <1>3, <2>1 DEF WatchInv, QueueRight, OneRunPerRelease
<1>4. CASE ConsumerCheck
  <2>1. CASE runs[Head(news)] > 0
    BY <1>3, <1>4, <2>1 DEF ConsumerCheck
  <2>2. CASE ~ (runs[Head(news)] > 0)
    <3>1. news # <<>> /\ UNCHANGED news /\ UNCHANGED runs /\ consumer' = "insert"
      BY <1>4, <2>2 DEF ConsumerCheck
    <3>2. Head(news) \in Nodes
      BY <3>1 DEF WatchInv, QueueRight
    <3>3. runs[Head(news)] = 0
      BY <2>2, <3>2 DEF WatchInv, QueueRight
    <3>. QED
      BY <3>1, <3>3 DEF WatchInv, QueueRight, OneRunPerRelease
  <2>. QED
    BY <2>1, <2>2
<1>5. CASE ConsumerInsert
  <2>1. /\ consumer = "insert" /\ consumer' = "request" /\ UNCHANGED news
        /\ runs' = [runs EXCEPT ![Head(news)] = runs[Head(news)] + 1]
    BY <1>5 DEF ConsumerInsert, WatchInv, QueueRight
  <2>2. news # <<>> /\ runs[Head(news)] = 0
    BY <2>1 DEF WatchInv, QueueRight
  <2>3. Head(news) \in Nodes
    BY <2>2 DEF WatchInv, QueueRight
  <2>4. /\ runs' \in [Nodes -> Nat]
        /\ \A n \in Nodes : runs'[n] <= 1
    BY <2>1, <2>2, <2>3 DEF WatchInv, QueueRight, OneRunPerRelease
  <2>. QED
    BY <2>1, <2>2, <2>4 DEF WatchInv, QueueRight, OneRunPerRelease
<1>6. CASE ConsumerRequest
  <2>1. news # <<>>
    BY <1>6 DEF ConsumerRequest, WatchInv, QueueRight
  <2>. QED
    BY <1>3, <1>6, <2>1 DEF ConsumerRequest
<1>7. CASE ConsumerFails
  <2>1. news # <<>>
    BY <1>7 DEF ConsumerFails, WatchInv, QueueRight
  <2>. QED
    BY <1>3, <1>7, <2>1 DEF ConsumerFails
<1>8. CASE ConsumerCrash
  BY <1>8 DEF ConsumerCrash, WatchInv, QueueRight, OneRunPerRelease
<1>. QED
  BY <1>4, <1>5, <1>6, <1>7, <1>8 DEF ConsumerStep

LEMMA RouteInv == ASSUME WatchInv, Route PROVE WatchInv'
<1>1. UNCHANGED <<githubVars, watcherVars, news, consumerVars>>
  BY DEF Route, SyncNodeReleases, SyncCliReleases, SyncLeaves, AddRelease,
         RemoveRelease, ReadToolchain, CommitToolchain, TriggerManually, RouteKeeps
<1>2. UNCHANGED <<nodesOut, clisOut, doing, node, pages, news, runs, consumer>>
  BY <1>1 DEF githubVars, watcherVars, taskVars, consumerVars
<1>. QED
  BY <1>2, TasksKept, QueueKept DEF WatchInv

LEMMA WatchStep == WatchInv /\ [ReleaseNext]_releaseVars => WatchInv'
<1>. SUFFICES ASSUME WatchInv, [ReleaseNext]_releaseVars PROVE WatchInv'
  OBVIOUS
<1>1. CASE PublishNode \/ PublishCli
  BY <1>1, PublishInv
<1>2. CASE PollNode
  BY <1>2, PollInv
<1>3. ASSUME NEW h \in Handlers, Webhook(h) PROVE WatchInv'
  BY <1>3, WebhookInv
<1>4. ASSUME NEW t \in Tasks, TaskStep(t) PROVE WatchInv'
  <2>1. CASE PublishRelease(t) \/ TellCompleted(t)
    BY <2>1, TellInv
  <2>2. CASE ~ (PublishRelease(t) \/ TellCompleted(t))
    BY <1>4, <2>2, TaskStepInv DEF TaskStep
  <2>. QED
    BY <2>1, <2>2
<1>5. ASSUME NEW t \in Tasks, TaskFails(t) PROVE WatchInv'
  BY <1>5, DropInv DEF TaskFails, githubVars, consumerVars
<1>6. CASE WatcherCrash
  BY <1>6, DropInv DEF WatcherCrash, githubVars, consumerVars
<1>7. CASE ConsumerStep \/ ConsumerFails \/ ConsumerCrash
  BY <1>7, ConsumerInv
<1>8. CASE Route
  BY <1>8, RouteInv
<1>9. CASE UNCHANGED releaseVars
  <2>1. UNCHANGED <<nodesOut, clisOut, doing, node, pages, news, runs, consumer>>
    BY <1>9 DEF releaseVars, githubVars, watcherVars, taskVars, consumerVars
  <2>. QED
    BY <2>1, TasksKept, QueueKept DEF WatchInv
<1>. QED
  BY <1>1, <1>2, <1>3, <1>4, <1>5, <1>6, <1>7, <1>8, <1>9 DEF ReleaseNext

(* A release never gets two runs of its own: however many tasks announce   *)
(* it and however often the message comes back, the look-up and the insert *)
(* are made while its message is at the head of the queue                  *)
(* (orchestrator/consumers/releases.py:61-156).                            *)
THEOREM OneRunAtMost == ReleaseSpec => []OneRunPerRelease
<1>1. WatchInv => OneRunPerRelease
  BY DEF WatchInv
<1>. QED
  BY <1>1, WatchInit, WatchStep, PTL DEF ReleaseSpec

-----------------------------------------------------------------------------
LEMMA PutType ==
  ASSUME NEW D, NEW S, NEW table \in [D -> Maybe(S)], NEW key, NEW value \in Maybe(S)
  PROVE  /\ Put(table, key, value) \in [D -> Maybe(S)]
         /\ \A d \in D : Put(table, key, value)[d] \in {table[d], value}
         /\ \A d \in D : Put(table, key, value)[d] # table[d] => value # None
         /\ \A d \in D : table[d] # None => Put(table, key, value)[d] # None
  BY DEF Put, Coalesce, Maybe

LEMMA LinkFields ==
  ASSUME NEW c \in Catalog, NEW ch \in Chain
  PROVE  LET l == LinkChain(c, ch)
         IN  /\ l \in Catalog
             /\ l.known = c.known \cup ({ch.cli, ch.sdk, ch.devnet, ch.contracts} \ {None})
             /\ l.active = c.active
             /\ l.cliOf = c.cliOf
             /\ l.sdkOf = Put(c.sdkOf, ch.cli, ch.sdk)
             /\ l.devnetOf = Put(c.devnetOf, ch.cli, ch.devnet)
             /\ l.contractsOf = Put(c.contractsOf, ch.devnet, ch.contracts)
<1>. DEFINE rows == {ch.cli, ch.sdk, ch.devnet, ch.contracts} \ {None}
            sdkOf == Put(c.sdkOf, ch.cli, ch.sdk)
            devnetOf == Put(c.devnetOf, ch.cli, ch.devnet)
            contractsOf == Put(c.contractsOf, ch.devnet, ch.contracts)
            l == LinkChain(c, ch)
<1>1. /\ c.known \in SUBSET Tags /\ c.active \in SUBSET Nodes
      /\ c.cliOf \in [Nodes -> Maybe(CliTags)]
      /\ c.sdkOf \in [CliTags -> Maybe(Sdks)]
      /\ c.devnetOf \in [CliTags -> Maybe(Devnets)]
      /\ c.contractsOf \in [Devnets -> Maybe(Contracts)]
  BY DEF Catalog
<1>2. /\ ch.cli \in Maybe(CliTags) /\ ch.sdk \in Maybe(Sdks)
      /\ ch.devnet \in Maybe(Devnets) /\ ch.contracts \in Maybe(Contracts)
  BY DEF Chain
<1>3. rows \subseteq Tags
  BY <1>2 DEF Maybe, Tags, CliTags
<1>4. /\ sdkOf \in [CliTags -> Maybe(Sdks)]
      /\ devnetOf \in [CliTags -> Maybe(Devnets)]
      /\ contractsOf \in [Devnets -> Maybe(Contracts)]
  BY <1>1, <1>2, PutType
<1>5. l = [c EXCEPT !.known = @ \cup rows, !.sdkOf = sdkOf,
                    !.devnetOf = devnetOf, !.contractsOf = contractsOf]
  BY DEF LinkChain
<1>. HIDE DEF rows, sdkOf, devnetOf, contractsOf, l
<1>6. l = [known |-> c.known \cup rows, active |-> c.active, cliOf |-> c.cliOf,
           sdkOf |-> sdkOf, devnetOf |-> devnetOf, contractsOf |-> contractsOf]
  BY <1>5 DEF Catalog
<1>7. l \in Catalog
  BY <1>1, <1>3, <1>4, <1>6 DEF Catalog
<1>. QED
  BY <1>6, <1>7 DEF rows, sdkOf, devnetOf, contractsOf, l

(* The catalogs a writer may leave behind: closed, and no row is gone.     *)
Wider(c) == {d \in Catalog : Closed(d) /\ c.known \subseteq d.known}

(* Those in which, besides, no pointer was cleared.                        *)
LowerKept(c, d) ==
  /\ \A k \in CliTags : /\ c.sdkOf[k] # None => d.sdkOf[k] # None
                        /\ c.devnetOf[k] # None => d.devnetOf[k] # None
  /\ \A k \in Devnets : c.contractsOf[k] # None => d.contractsOf[k] # None

Fuller(c) ==
  {d \in Wider(c) : /\ \A n \in Nodes : c.cliOf[n] # None => d.cliOf[n] # None
                    /\ LowerKept(c, d)}

LEMMA FullerTrans ==
  ASSUME NEW c, NEW d \in Fuller(c) PROVE Fuller(d) \subseteq Fuller(c)
  BY DEF Fuller, Wider, LowerKept

LEMMA FullerRefl ==
  ASSUME NEW c \in Catalog, Closed(c) PROVE c \in Fuller(c)
  BY DEF Fuller, Wider, LowerKept

LEMMA LinkFuller ==
  ASSUME NEW c \in Catalog, Closed(c), NEW ch \in Chain
  PROVE  /\ LinkChain(c, ch) \in Fuller(c)
         /\ ch.cli \in LinkChain(c, ch).known \cup {None}
         /\ LinkChain(c, ch).cliOf = c.cliOf
<1>. DEFINE l == LinkChain(c, ch)
<1>1. /\ l \in Catalog
      /\ l.known = c.known \cup ({ch.cli, ch.sdk, ch.devnet, ch.contracts} \ {None})
      /\ l.cliOf = c.cliOf
      /\ l.sdkOf = Put(c.sdkOf, ch.cli, ch.sdk)
      /\ l.devnetOf = Put(c.devnetOf, ch.cli, ch.devnet)
      /\ l.contractsOf = Put(c.contractsOf, ch.devnet, ch.contracts)
  BY LinkFields
<1>. HIDE DEF l
<1>2. /\ ch.sdk \in Maybe(Sdks) /\ ch.devnet \in Maybe(Devnets)
      /\ ch.contracts \in Maybe(Contracts)
  BY DEF Chain
<1>3. /\ c.sdkOf \in [CliTags -> Maybe(Sdks)]
      /\ c.devnetOf \in [CliTags -> Maybe(Devnets)]
      /\ c.contractsOf \in [Devnets -> Maybe(Contracts)]
  BY DEF Catalog
<1>4. /\ \A k \in CliTags : l.sdkOf[k] \in {c.sdkOf[k], ch.sdk}
      /\ \A k \in CliTags : l.devnetOf[k] \in {c.devnetOf[k], ch.devnet}
      /\ \A d \in Devnets : l.contractsOf[d] \in {c.contractsOf[d], ch.contracts}
  BY <1>1, <1>2, <1>3, PutType
<1>5. Closed(l)
  BY <1>1, <1>4 DEF Closed
<1>6. LowerKept(c, l)
  BY <1>1, <1>2, <1>3, PutType DEF LowerKept
<1>. QED
  BY <1>1, <1>5, <1>6 DEF Wider, Fuller, l

LEMMA UpsertNodeFuller ==
  ASSUME NEW c \in Catalog, Closed(c), NEW n \in Nodes, NEW ch \in Chain,
         NEW revive \in BOOLEAN
  PROVE  /\ UpsertNode(c, n, ch, revive) \in Fuller(c)
         /\ n \in UpsertNode(c, n, ch, revive).known
<1>. DEFINE l == LinkChain(c, ch)
            u == UpsertNode(c, n, ch, revive)
            active == IF n \in c.known /\ ~revive THEN l.active ELSE l.active \cup {n}
            cliOf == Put(l.cliOf, n, ch.cli)
<1>1. /\ l \in Fuller(c) /\ ch.cli \in l.known \cup {None}
  BY LinkFuller
<1>2. ch.cli \in Maybe(CliTags)
  BY DEF Chain
<1>3. u = [l EXCEPT !.known = @ \cup {n}, !.active = active, !.cliOf = cliOf]
  BY DEF UpsertNode
<1>4. /\ l \in Catalog /\ Closed(l) /\ c.known \subseteq l.known
      /\ l.known \in SUBSET Tags /\ l.active \in SUBSET Nodes
      /\ l.cliOf \in [Nodes -> Maybe(CliTags)]
  BY <1>1 DEF Wider, Fuller, Catalog
<1>5. /\ cliOf \in [Nodes -> Maybe(CliTags)]
      /\ \A m \in Nodes : cliOf[m] \in {l.cliOf[m], ch.cli}
      /\ \A m \in Nodes : l.cliOf[m] # None => cliOf[m] # None
  BY <1>2, <1>4, PutType
<1>6. active \in SUBSET Nodes /\ l.known \cup {n} \in SUBSET Tags
  BY <1>4 DEF Tags
<1>. HIDE DEF l, u, active, cliOf
<1>7. u = [known |-> l.known \cup {n}, active |-> active, cliOf |-> cliOf,
           sdkOf |-> l.sdkOf, devnetOf |-> l.devnetOf, contractsOf |-> l.contractsOf]
  BY <1>3, <1>4 DEF Catalog
<1>8. u \in Catalog
  BY <1>4, <1>5, <1>6, <1>7 DEF Catalog
<1>9. Closed(u)
  BY <1>1, <1>4, <1>5, <1>7 DEF Closed
<1>10. u \in Fuller(l) /\ n \in u.known
  BY <1>5, <1>7, <1>8, <1>9 DEF Wider, Fuller, LowerKept
<1>. QED
  BY <1>1, <1>10, FullerTrans DEF u

LEMMA PointerWider ==
  ASSUME NEW c \in Catalog, Closed(c), NEW n \in Nodes,
         NEW cli \in Maybe(CliTags), cli \in c.known \cup {None}
  PROVE  LET u == [c EXCEPT !.cliOf[n] = cli]
         IN  /\ u \in Wider(c) /\ LowerKept(c, u)
             /\ u.cliOf = [c.cliOf EXCEPT ![n] = cli]
<1>. DEFINE cliOf == [c.cliOf EXCEPT ![n] = cli]
            u == [c EXCEPT !.cliOf = cliOf]
<1>1. cliOf \in [Nodes -> Maybe(CliTags)]
  BY DEF Catalog
<1>2. \A m \in Nodes : cliOf[m] \in {c.cliOf[m], cli}
  BY DEF Catalog
<1>. HIDE DEF cliOf
<1>3. u = [known |-> c.known, active |-> c.active, cliOf |-> cliOf, sdkOf |-> c.sdkOf,
           devnetOf |-> c.devnetOf, contractsOf |-> c.contractsOf]
  BY DEF Catalog
<1>4. u \in Catalog
  BY <1>1, <1>3 DEF Catalog
<1>5. Closed(u)
  BY <1>2, <1>3 DEF Closed
<1>6. u \in Wider(c) /\ LowerKept(c, u) /\ u.cliOf = cliOf
  BY <1>3, <1>4, <1>5 DEF Wider, LowerKept
<1>7. [c EXCEPT !.cliOf[n] = cli] = u
  BY DEF cliOf
<1>. QED
  BY <1>6, <1>7 DEF cliOf

LEMMA UpsertCliFuller ==
  ASSUME NEW c \in Catalog, Closed(c), NEW n \in Maybe(Nodes), NEW ch \in Chain
  PROVE  UpsertCli(c, ch, n) \in Fuller(c)
<1>. DEFINE l == LinkChain(c, ch)
            u == [l EXCEPT !.cliOf[n] = ch.cli]
<1>1. l \in Fuller(c) /\ ch.cli \in l.known \cup {None}
  BY LinkFuller
<1>2. l \in Catalog /\ Closed(l) /\ ch.cli \in Maybe(CliTags)
  BY <1>1 DEF Fuller, Wider, Chain
<1>. HIDE DEF l
<1>3. ASSUME n # None, Backfilled(l, n) PROVE u \in Fuller(c)
  <2>1. n \in Nodes /\ l.cliOf[n] = None
    BY <1>3 DEF Maybe, Backfilled
  <2>2. /\ u \in Wider(l) /\ LowerKept(l, u)
        /\ u.cliOf = [l.cliOf EXCEPT ![n] = ch.cli]
    BY <1>1, <1>2, <2>1, PointerWider
  <2>3. l.cliOf \in [Nodes -> Maybe(CliTags)]
    BY <1>2 DEF Catalog
  <2>. HIDE DEF u
  <2>4. u \in Fuller(l)
    BY <2>1, <2>2, <2>3 DEF Fuller
  <2>. QED
    BY <1>1, <2>4, FullerTrans
<1>. QED
  BY <1>1, <1>3 DEF UpsertCli, l

(* A PATCH can clear the pointer of its own release and no other.          *)
LEMMA PatchWider ==
  ASSUME NEW c \in Catalog, Closed(c), NEW n \in Nodes, NEW old \in Chain,
         NEW ask, ask.given \in SUBSET Fields, ask.to \in Chain
  PROVE  LET u == Patch(c, n, old, ask)
         IN  /\ u \in Wider(c) /\ LowerKept(c, u)
             /\ u.cliOf = [c.cliOf EXCEPT ![n] = Filled(old, ask).cli]
<1>. DEFINE new == Filled(old, ask)
            l == LinkChain(c, new)
            u == [l EXCEPT !.cliOf[n] = new.cli]
<1>1. new \in Chain
  BY DEF Filled, Chain, Fields
<1>. HIDE DEF new
<1>2. /\ l \in Fuller(c) /\ new.cli \in l.known \cup {None}
      /\ l.cliOf = c.cliOf
  BY <1>1, LinkFuller
<1>3. l \in Catalog /\ Closed(l) /\ new.cli \in Maybe(CliTags)
  BY <1>1, <1>2 DEF Fuller, Wider, Chain
<1>. HIDE DEF l
<1>4. /\ u \in Wider(l) /\ LowerKept(l, u)
      /\ u.cliOf = [l.cliOf EXCEPT ![n] = new.cli]
  BY <1>2, <1>3, PointerWider
<1>5. Patch(c, n, old, ask) = u
  BY DEF Patch, new, l
<1>. HIDE DEF u
<1>6. u \in Wider(c) /\ LowerKept(c, u)
  BY <1>2, <1>4 DEF Fuller, Wider, LowerKept
<1>. QED
  BY <1>2, <1>4, <1>5, <1>6 DEF new

LEMMA LeavesFuller ==
  ASSUME NEW c \in Catalog, Closed(c), NEW tags \in SUBSET Tags
  PROVE  AddLeaves(c, tags) \in Fuller(c)
<1>. DEFINE known == c.known \cup tags
            u == [c EXCEPT !.known = known]
<1>1. known \in SUBSET Tags /\ c.known \subseteq known
  BY DEF Catalog
<1>. HIDE DEF known
<1>2. u = [known |-> known, active |-> c.active, cliOf |-> c.cliOf,
           sdkOf |-> c.sdkOf, devnetOf |-> c.devnetOf, contractsOf |-> c.contractsOf]
  BY DEF Catalog
<1>3. u \in Catalog
  BY <1>1, <1>2 DEF Catalog
<1>4. Closed(u)
  BY <1>1, <1>2 DEF Closed
<1>5. AddLeaves(c, tags) = u
  BY DEF AddLeaves, known
<1>. QED
  BY <1>1, <1>2, <1>3, <1>4, <1>5 DEF Wider, Fuller, LowerKept

LEMMA SoftDeleteFuller ==
  ASSUME NEW c \in Catalog, Closed(c), NEW n PROVE SoftDelete(c, n) \in Fuller(c)
<1>. DEFINE u == [c EXCEPT !.active = @ \ {n}]
<1>1. u = [known |-> c.known, active |-> c.active \ {n}, cliOf |-> c.cliOf,
           sdkOf |-> c.sdkOf, devnetOf |-> c.devnetOf, contractsOf |-> c.contractsOf]
  BY DEF Catalog
<1>2. u \in Catalog
  BY <1>1 DEF Catalog
<1>3. Closed(u)
  BY <1>1 DEF Closed
<1>. QED
  BY <1>1, <1>2, <1>3 DEF Wider, Fuller, LowerKept, SoftDelete

LEMMA ToolchainType ==
  ASSUME NEW c \in Catalog, NEW n \in Nodes PROVE Toolchain(c, n) \in Chain
<1>1. c.cliOf[n] \in Maybe(CliTags)
  BY DEF Catalog
<1>2. ASSUME NEW k \in CliTags
      PROVE  c.sdkOf[k] \in Maybe(Sdks) /\ c.devnetOf[k] \in Maybe(Devnets)
  BY DEF Catalog
<1>3. ASSUME NEW d \in Devnets PROVE c.contractsOf[d] \in Maybe(Contracts)
  BY DEF Catalog
<1>. QED
  BY <1>1, <1>2, <1>3 DEF Toolchain, Chain, Maybe

LEMMA Counting ==
  ASSUME NEW T \in SUBSET Nat, 0 \in T, \A n \in T : n + 1 \in T
  PROVE  T = Nat
<1>. DEFINE R == OpToRel(<, Nat)
            U == Nat \ T
<1>1. SUFFICES ASSUME U # {} PROVE FALSE
  OBVIOUS
<1>2. IsWellFoundedOn(R, Nat)
  BY NatLessThanWellFounded
<1>3. \E x \in U : \A y \in U : ~ (<<y, x>> \in R)
  <2>. HIDE DEF R
  <2>. QED BY <1>1, <1>2, WFMin
<1>4. PICK x \in U : \A y \in U : ~ (<<y, x>> \in R)
  BY <1>3
<1>5. \A y \in U : ~ (y < x)
  BY <1>4 DEF OpToRel
<1>6. x # 0 /\ x \in Nat /\ x - 1 \in Nat /\ x - 1 < x
  OBVIOUS
<1>7. x - 1 \in T
  BY <1>5, <1>6
<1>. QED
  BY <1>6, <1>7

(* A set of numbers up to N that is not empty has a greatest element.      *)
LEMMA Greatest ==
  ASSUME NEW N \in Nat, NEW s \in SUBSET (1..N), s # {}
  PROVE  Max(s) \in s /\ \A y \in s : y <= Max(s)
<1>. DEFINE Has(z) == \E x \in z : \A y \in z : x >= y
            T == {n \in Nat : \A z \in SUBSET (1..n) : z # {} => Has(z)}
<1>1. 0 \in T
  <2>1. 1..0 = {}
    OBVIOUS
  <2>. QED
    BY <2>1
<1>2. ASSUME NEW n \in T PROVE n + 1 \in T
  <2>1. SUFFICES ASSUME NEW z \in SUBSET (1..(n + 1)), z # {} PROVE Has(z)
    OBVIOUS
  <2>2. CASE n + 1 \in z
    BY <2>2
  <2>3. CASE n + 1 \notin z
    <3>1. z \in SUBSET (1..n)
      BY <2>3
    <3>. QED
      BY <3>1, <2>1
  <2>. QED
    BY <2>2, <2>3
<1>3. T = Nat
  <2>. HIDE DEF T
  <2>. T \in SUBSET Nat
    BY DEF T
  <2>. QED BY <1>1, <1>2, Counting
<1>4. Has(s)
  BY <1>3
<1>. QED
  BY <1>4 DEF Max

(* g gives for every set of numbers up to n the base, worked on by F for   *)
(* each of them in their order.                                            *)
IsFold(g, F, base, S, n) ==
  /\ g \in [SUBSET (1..n) -> S]
  /\ \A s \in SUBSET (1..n) :
       g[s] = IF s = {} THEN base ELSE F[Max(s)][g[s \ {Max(s)}]]

LEMMA FoldGrows ==
  ASSUME NEW S, NEW base \in S, NEW n \in Nat, NEW F, F[n + 1] \in [S -> S],
         NEW g, IsFold(g, F, base, S, n)
  PROVE  \E h : IsFold(h, F, base, S, n + 1)
<1>. DEFINE m == n + 1
            D == SUBSET (1..m)
            h == [s \in D |-> IF m \in s THEN F[m][g[s \ {m}]] ELSE g[s]]
<1>. USE DEF IsFold
<1>1. m \in Nat
  OBVIOUS
<1>2. ASSUME NEW s \in D
      PROVE  /\ s \ {m} \in SUBSET (1..n) /\ s \ {m} \in D
             /\ m \notin s => s = s \ {m}
  OBVIOUS
<1>3. ASSUME NEW s \in D, s # {}
      PROVE  /\ Max(s) \in s /\ s \ {Max(s)} \in D
             /\ m \in s => Max(s) = m
  <2>1. Max(s) \in s /\ \A y \in s : y <= Max(s)
    BY <1>1, <1>3, Greatest
  <2>2. s \in SUBSET Nat /\ \A y \in s : y <= m
    OBVIOUS
  <2>3. m \in s => Max(s) = m
    <3>1. Max(s) \in Nat /\ Max(s) <= m
      BY <2>1, <2>2
    <3>2. m \in s => m <= Max(s)
      BY <2>1
    <3>. HIDE DEF m, D
    <3>. QED
      BY <1>1, <3>1, <3>2
  <2>. QED
    BY <2>1, <2>3
<1>4. \A s \in D : h[s] = IF m \in s THEN F[m][g[s \ {m}]] ELSE g[s]
  OBVIOUS
<1>5. h \in [D -> S]
  BY <1>2
<1>. HIDE DEF h, D, m
<1>6. ASSUME NEW s \in D
      PROVE  h[s] = IF s = {} THEN base ELSE F[Max(s)][h[s \ {Max(s)}]]
  <2>1. CASE m \in s
    <3>1. h[s \ {m}] = g[s \ {m}]
      BY <1>2, <1>4
    <3>. QED
      BY <1>3, <1>4, <2>1, <3>1
  <2>2. CASE m \notin s
    <3>1. s \in SUBSET (1..n) /\ h[s] = g[s]
      BY <1>2, <1>4, <2>2
    <3>2. CASE s = {}
      BY <3>1, <3>2
    <3>3. CASE s # {}
      <4>1. h[s \ {Max(s)}] = g[s \ {Max(s)}]
        BY <1>3, <1>4, <2>2, <3>3
      <4>. QED
        BY <3>1, <3>3, <4>1
    <3>. QED
      BY <3>2, <3>3
  <2>. QED
    BY <2>1, <2>2
<1>7. IsFold(h, F, base, S, m)
  BY <1>5, <1>6 DEF D
<1>. QED
  BY <1>7 DEF m

(* There is a fold of any number of steps.                                 *)
LEMMA FoldExists ==
  ASSUME NEW S, NEW base \in S, NEW N \in Nat, NEW F \in [1..N -> [S -> S]]
  PROVE  \E g : IsFold(g, F, base, S, N)
<1>. DEFINE T == {n \in Nat : n <= N => \E g : IsFold(g, F, base, S, n)}
<1>1. \E g : IsFold(g, F, base, S, 0)
  <2>. DEFINE g == [s \in SUBSET (1..0) |-> base]
  <2>1. /\ g \in [SUBSET (1..0) -> S]
        /\ \A s \in SUBSET (1..0) : s = {} /\ g[s] = base
    OBVIOUS
  <2>2. IsFold(g, F, base, S, 0)
    BY <2>1 DEF IsFold
  <2>. QED
    BY <2>2
<1>2. ASSUME NEW n \in Nat, n + 1 <= N, NEW g, IsFold(g, F, base, S, n)
      PROVE  \E h : IsFold(h, F, base, S, n + 1)
  <2>1. F[n + 1] \in [S -> S]
    BY <1>2
  <2>. QED
    BY <1>2, <2>1, FoldGrows
<1>3. T = Nat
  <2>1. T \in SUBSET Nat /\ 0 \in T
    BY <1>1
  <2>2. ASSUME NEW n \in T PROVE n + 1 \in T
    BY <1>2
  <2>. HIDE DEF T
  <2>. QED
    BY <2>1, <2>2, Counting
<1>. QED
  BY <1>3

(* What holds of the base and is kept by each step holds of the fold.      *)
LEMMA FoldStays ==
  ASSUME NEW S, NEW N \in Nat, NEW h, h[{}] \in S,
         \A s \in SUBSET (1..N) :
           s # {} /\ h[s \ {Max(s)}] \in S => h[s] \in S
  PROVE  h[1..N] \in S
<1>. DEFINE T == {n \in Nat : n <= N => h[1..n] \in S}
<1>1. 1..0 = {}
  OBVIOUS
<1>2. ASSUME NEW n \in Nat, n + 1 <= N, h[1..n] \in S PROVE h[1..(n + 1)] \in S
  <2>. DEFINE s == 1..(n + 1)
  <2>1. s \in SUBSET (1..N) /\ n + 1 \in s
    BY <1>2
  <2>2. Max(s) \in s /\ \A y \in s : y <= Max(s)
    BY <2>1, Greatest
  <2>3. Max(s) = n + 1
    BY <2>1, <2>2
  <2>4. s \ {Max(s)} = 1..n
    BY <2>3
  <2>. HIDE DEF s
  <2>. QED
    BY <1>2, <2>1, <2>4 DEF s
<1>3. T = Nat
  <2>1. T \in SUBSET Nat /\ 0 \in T
    BY <1>1
  <2>2. ASSUME NEW n \in T PROVE n + 1 \in T
    BY <1>2
  <2>. HIDE DEF T
  <2>. QED
    BY <2>1, <2>2, Counting
<1>. QED
  BY <1>3

-----------------------------------------------------------------------------
(* POST /releases/cli/sync. *)
LEMMA SyncClisFuller ==
  ASSUME NEW c \in Catalog, Closed(c), NEW chains \in Seq(Chain)
  PROVE  SyncClis(c, chains) \in Fuller(c)
<1>. DEFINE N == Len(chains)
            S == Fuller(c)
            Op(x, i) == IF chains[i].cli \in Clis THEN LinkChain(x, chains[i]) ELSE x
            F == [i \in 1..N |-> [x \in S |-> Op(x, i)]]
            Step(x, s) == Op(x[s \ {Max(s)}], Max(s))
            h == CHOOSE x : x = [s \in SUBSET DOMAIN chains |->
                                   IF s = {} THEN c ELSE Step(x, s)]
<1>1. N \in Nat /\ DOMAIN chains = 1..N /\ c \in S
  BY FullerRefl
<1>2. ASSUME NEW x \in S, NEW i \in 1..N PROVE Op(x, i) \in S
  <2>1. x \in Catalog /\ Closed(x) /\ chains[i] \in Chain
    BY DEF Fuller, Wider
  <2>. QED
    BY <2>1, LinkFuller, FullerTrans
<1>3. SyncClis(c, chains) = h[DOMAIN chains]
  BY DEF SyncClis, FoldLeft, MapThenFoldSet
<1>. HIDE DEF Op
<1>4. \E g : g = [s \in SUBSET DOMAIN chains |-> IF s = {} THEN c ELSE Step(g, s)]
  <2>1. F \in [1..N -> [S -> S]]
    BY <1>2
  <2>2. \A i \in 1..N : \A x \in S : F[i][x] = Op(x, i)
    OBVIOUS
  <2>. HIDE DEF F, S
  <2>3. PICK g : IsFold(g, F, c, S, N)
    BY <1>1, <2>1, FoldExists
  <2>4. ASSUME NEW s \in SUBSET (1..N), s # {}
        PROVE  g[s] = Step(g, s)
    <3>1. Max(s) \in 1..N /\ s \ {Max(s)} \in SUBSET (1..N)
      BY <1>1, <2>4, Greatest
    <3>. QED
      BY <2>2, <2>3, <2>4, <3>1 DEF IsFold
  <2>. HIDE DEF N, Step
  <2>. QED
    BY <1>1, <2>3, <2>4 DEF IsFold
<1>5. h = [s \in SUBSET DOMAIN chains |-> IF s = {} THEN c ELSE Step(h, s)]
  <2>. HIDE DEF Step
  <2>. QED
    BY <1>4
<1>. HIDE DEF h, S, N
<1>6. h[1..N] \in S
  <2>1. h[{}] \in S
    BY <1>1, <1>5
  <2>2. ASSUME NEW s \in SUBSET (1..N), s # {}, h[s \ {Max(s)}] \in S
        PROVE  h[s] \in S
    <3>1. Max(s) \in 1..N
      BY <1>1, <2>2, Greatest
    <3>2. h[s] = Op(h[s \ {Max(s)}], Max(s))
      BY <1>1, <1>5, <2>2
    <3>. QED
      BY <1>2, <2>2, <3>1, <3>2
  <2>. QED
    BY <1>1, <2>1, <2>2, FoldStays
<1>. QED
  BY <1>1, <1>3, <1>6 DEF S

(* POST /releases/sync. *)
LEMMA SyncNodesFuller ==
  ASSUME NEW c \in Catalog, Closed(c), NEW nodes \in Seq(Nodes),
         NEW found \in [Nodes -> Chain]
  PROVE  SyncNodes(c, nodes, found) \in Fuller(c)
<1>. DEFINE N == Len(nodes)
            S == Fuller(c)
            Op(x, i) == UpsertNode(x, nodes[i], found[nodes[i]], FALSE)
            F == [i \in 1..N |-> [x \in S |-> Op(x, i)]]
            Step(x, s) == Op(x[s \ {Max(s)}], Max(s))
            h == CHOOSE x : x = [s \in SUBSET DOMAIN nodes |->
                                   IF s = {} THEN c ELSE Step(x, s)]
<1>1. N \in Nat /\ DOMAIN nodes = 1..N /\ c \in S
  BY FullerRefl
<1>2. ASSUME NEW x \in S, NEW i \in 1..N PROVE Op(x, i) \in S
  <2>1. x \in Catalog /\ Closed(x) /\ nodes[i] \in Nodes
    BY DEF Fuller, Wider
  <2>2. found[nodes[i]] \in Chain
    BY <2>1
  <2>3. UpsertNode(x, nodes[i], found[nodes[i]], FALSE) \in Fuller(x)
    BY <2>1, <2>2, UpsertNodeFuller
  <2>. QED
    BY <2>3, FullerTrans
<1>3. SyncNodes(c, nodes, found) = h[DOMAIN nodes]
  BY DEF SyncNodes, FoldLeft, MapThenFoldSet
<1>. HIDE DEF Op
<1>4. \E g : g = [s \in SUBSET DOMAIN nodes |-> IF s = {} THEN c ELSE Step(g, s)]
  <2>1. F \in [1..N -> [S -> S]]
    BY <1>2
  <2>2. \A i \in 1..N : \A x \in S : F[i][x] = Op(x, i)
    OBVIOUS
  <2>. HIDE DEF F, S
  <2>3. PICK g : IsFold(g, F, c, S, N)
    BY <1>1, <2>1, FoldExists
  <2>4. ASSUME NEW s \in SUBSET (1..N), s # {}
        PROVE  g[s] = Step(g, s)
    <3>1. Max(s) \in 1..N /\ s \ {Max(s)} \in SUBSET (1..N)
      BY <1>1, <2>4, Greatest
    <3>. QED
      BY <2>2, <2>3, <2>4, <3>1 DEF IsFold
  <2>. HIDE DEF N, Step
  <2>. QED
    BY <1>1, <2>3, <2>4 DEF IsFold
<1>5. h = [s \in SUBSET DOMAIN nodes |-> IF s = {} THEN c ELSE Step(h, s)]
  <2>. HIDE DEF Step
  <2>. QED
    BY <1>4
<1>. HIDE DEF h, S, N
<1>6. h[1..N] \in S
  <2>1. h[{}] \in S
    BY <1>1, <1>5
  <2>2. ASSUME NEW s \in SUBSET (1..N), s # {}, h[s \ {Max(s)}] \in S
        PROVE  h[s] \in S
    <3>1. Max(s) \in 1..N
      BY <1>1, <2>2, Greatest
    <3>2. h[s] = Op(h[s \ {Max(s)}], Max(s))
      BY <1>1, <1>5, <2>2
    <3>. QED
      BY <1>2, <2>2, <3>1, <3>2
  <2>. QED
    BY <1>1, <2>1, <2>2, FoldStays
<1>. QED
  BY <1>1, <1>3, <1>6 DEF S

LEMMA MergeType ==
  ASSUME NEW a \in Chain, NEW b \in Chain PROVE Merge(a, b) \in Chain
  BY DEF Merge, Chain, Fields, Coalesce, Maybe

LEMMA NoChainType == NoChain \in Chain
  BY DEF NoChain, Chain, Maybe

(* The scan of a page of CLI releases, release by release.                 *)
VersionsIn(rel) == [cli |-> rel.tag, sdk |-> rel.sdk, devnet |-> rel.devnet,
                    contracts |-> rel.contracts]

Scanned(found, rel, n) ==
  IF rel.node # n \/ (found.cli # None /\ found.sdk # None) THEN found
  ELSE Merge(found, VersionsIn(rel))

LEMMA ScannedType ==
  ASSUME NEW x \in Chain, NEW rel \in CliRelease, NEW n
  PROVE  Scanned(x, rel, n) \in Chain
<1>1. VersionsIn(rel) \in Chain
  BY DEF VersionsIn, CliRelease, Chain, Maybe
<1>. QED
  BY <1>1, MergeType DEF Scanned

LEMMA ScanFold ==
  ASSUME NEW page \in Seq(CliRelease), NEW n
  PROVE  \E f : /\ f[0] = NoChain /\ f[Len(page)] = Scan(page, n)
                /\ \A i \in 1..Len(page) : f[i] = Scanned(f[i - 1], page[i], n)
<1>. DEFINE N == Len(page)
            S == Chain
            Op(x, i) == Scanned(x, page[i], n)
            F == [i \in 1..N |-> [x \in S |-> Op(x, i)]]
            Step(x, s) == Op(x[s \ {Max(s)}], Max(s))
            h == CHOOSE x : x = [s \in SUBSET DOMAIN page |->
                                   IF s = {} THEN NoChain ELSE Step(x, s)]
            f == [i \in 0..N |-> h[1..i]]
<1>1. N \in Nat /\ DOMAIN page = 1..N /\ NoChain \in S
  BY NoChainType
<1>2. ASSUME NEW x \in S, NEW i \in 1..N PROVE Op(x, i) \in S
  <2>1. page[i] \in CliRelease
    OBVIOUS
  <2>. QED
    BY <2>1, ScannedType
<1>3. Scan(page, n) = h[DOMAIN page]
  BY DEF Scan, FoldLeft, MapThenFoldSet, Scanned, VersionsIn
<1>. HIDE DEF Op
<1>4. \E g : g = [s \in SUBSET DOMAIN page |-> IF s = {} THEN NoChain ELSE Step(g, s)]
  <2>1. F \in [1..N -> [S -> S]]
    BY <1>2
  <2>2. \A i \in 1..N : \A x \in S : F[i][x] = Op(x, i)
    OBVIOUS
  <2>. HIDE DEF F, S
  <2>3. PICK g : IsFold(g, F, NoChain, S, N)
    BY <1>1, <2>1, FoldExists
  <2>4. ASSUME NEW s \in SUBSET (1..N), s # {}
        PROVE  g[s] = Step(g, s)
    <3>1. Max(s) \in 1..N /\ s \ {Max(s)} \in SUBSET (1..N)
      BY <1>1, <2>4, Greatest
    <3>. QED
      BY <2>2, <2>3, <2>4, <3>1 DEF IsFold
  <2>. HIDE DEF N, Step
  <2>. QED
    BY <1>1, <2>3, <2>4 DEF IsFold
<1>5. h = [s \in SUBSET DOMAIN page |-> IF s = {} THEN NoChain ELSE Step(h, s)]
  <2>. HIDE DEF Step
  <2>. QED
    BY <1>4
<1>. HIDE DEF h, S, N
<1>6. ASSUME NEW i \in 1..N PROVE h[1..i] = Op(h[1..(i - 1)], i)
  <2>. DEFINE s == 1..i
  <2>1. s \in SUBSET (1..N) /\ i \in s /\ i \in Nat
    BY <1>1
  <2>2. Max(s) \in s /\ \A y \in s : y <= Max(s)
    BY <1>1, <2>1, Greatest
  <2>3. Max(s) = i /\ s \ {i} = 1..(i - 1)
    BY <2>1, <2>2
  <2>. HIDE DEF s
  <2>. QED
    BY <1>1, <1>5, <2>1, <2>3 DEF s
<1>7. f[0] = NoChain
  <2>1. 1..0 = {}
    OBVIOUS
  <2>. QED
    BY <1>1, <1>5, <2>1
<1>8. f[N] = Scan(page, n)
  BY <1>1, <1>3
<1>9. \A i \in 1..N : f[i] = Scanned(f[i - 1], page[i], n)
  BY <1>1, <1>6 DEF Op
<1>. HIDE DEF f
<1>. QED
  BY <1>7, <1>8, <1>9 DEF N

(* What holds before the first release and is kept by each holds of the    *)
(* page: R relates how many releases were scanned to what was found.       *)
LEMMA ScanInduction ==
  ASSUME NEW page \in Seq(CliRelease), NEW n, NEW R,
         <<0, NoChain>> \in R,
         \A i \in 1..Len(page), x \in Chain :
           <<i - 1, x>> \in R => <<i, Scanned(x, page[i], n)>> \in R
  PROVE  Scan(page, n) \in Chain /\ <<Len(page), Scan(page, n)>> \in R
<1>. DEFINE N == Len(page)
<1>1. PICK f : /\ f[0] = NoChain /\ f[N] = Scan(page, n)
               /\ \A i \in 1..N : f[i] = Scanned(f[i - 1], page[i], n)
  BY ScanFold
<1>. DEFINE T == {i \in Nat : i <= N => f[i] \in Chain /\ <<i, f[i]>> \in R}
<1>2. 0 \in T
  BY <1>1, NoChainType
<1>3. ASSUME NEW i \in T PROVE i + 1 \in T
  <2>1. SUFFICES ASSUME i + 1 <= N
                 PROVE  f[i + 1] \in Chain /\ <<i + 1, f[i + 1]>> \in R
    OBVIOUS
  <2>2. /\ i + 1 \in 1..N /\ (i + 1) - 1 = i
        /\ f[i] \in Chain /\ <<i, f[i]>> \in R
    BY <2>1
  <2>3. f[i + 1] = Scanned(f[i], page[i + 1], n) /\ page[i + 1] \in CliRelease
    BY <1>1, <2>2
  <2>4. f[i + 1] \in Chain
    BY <2>2, <2>3, ScannedType
  <2>5. <<i + 1, Scanned(f[i], page[i + 1], n)>> \in R
    BY <2>2
  <2>. QED
    BY <2>3, <2>4, <2>5
<1>4. T = Nat
  <2>1. T \in SUBSET Nat
    OBVIOUS
  <2>. HIDE DEF T
  <2>. QED
    BY <1>2, <1>3, <2>1, Counting
<1>5. N \in Nat
  OBVIOUS
<1>. QED
  BY <1>1, <1>4, <1>5

LEMMA ScanType ==
  ASSUME NEW page \in Seq(CliRelease), NEW n
  PROVE  Scan(page, n) \in Chain
<1>. DEFINE R == (0..Len(page)) \X Chain
<1>1. <<0, NoChain>> \in R
  BY NoChainType
<1>2. \A i \in 1..Len(page), x \in Chain :
        <<i - 1, x>> \in R => <<i, Scanned(x, page[i], n)>> \in R
  <2>1. \A i \in 1..Len(page) : page[i] \in CliRelease
    OBVIOUS
  <2>. QED
    BY <2>1, ScannedType
<1>. HIDE DEF R
<1>. QED
  BY <1>1, <1>2, ScanInduction

(* The first releases on a page that name a node, and that name it and     *)
(* give an SDK: all of it so far is what the scan can know.                *)
Names(page, n, i) == page[i].node = n
Gives(page, n, i) == Names(page, n, i) /\ page[i].sdk # None

(* After k releases: the CLI is that of the first release that names the   *)
(* node, the SDK that of the first that gives one, and all else comes from *)
(* a release that names the node.                                          *)
FoundIn(page, n, k, x) ==
  /\ (\A i \in 1..k : ~ Names(page, n, i)) => x = NoChain
  /\ (\A i \in 1..k : ~ Gives(page, n, i)) => x.sdk = None
  /\ \A i \in 1..k :
       /\ Names(page, n, i) /\ (\A j \in 1..(i - 1) : ~ Names(page, n, j)) =>
            x.cli = page[i].tag
       /\ Gives(page, n, i) /\ (\A j \in 1..(i - 1) : ~ Gives(page, n, j)) =>
            x.sdk = page[i].sdk
  /\ x.devnet # None =>
       \E i \in 1..k : Names(page, n, i) /\ page[i].devnet = x.devnet
  /\ x.contracts # None =>
       \E i \in 1..k : Names(page, n, i) /\ page[i].contracts = x.contracts

LEMMA FoundNext ==
  ASSUME NEW page \in Seq(CliRelease), NEW n, NEW k \in 1..Len(page),
         NEW x \in Chain, FoundIn(page, n, k - 1, x)
  PROVE  FoundIn(page, n, k, Scanned(x, page[k], n))
<1>. DEFINE y == Scanned(x, page[k], n)
            rel == page[k]
<1>1. /\ k \in Nat /\ k - 1 \in Nat /\ 1..k = 1..(k - 1) \cup {k}
      /\ \A i \in 1..(k - 1) : 1..(i - 1) \subseteq 1..(k - 1) /\ i # k
  OBVIOUS
<1>2. rel \in CliRelease /\ rel.tag # None
  <2>1. rel \in CliRelease
    OBVIOUS
  <2>. QED
    BY <2>1, CatalogAssumption DEF CliRelease, CliTags
<1>3. CASE ~ Names(page, n, k)
  <2>1. y = x /\ ~ Gives(page, n, k)
    BY <1>3 DEF Scanned, Names, Gives
  <2>. HIDE DEF y
  <2>. QED
    BY <1>1, <1>3, <2>1 DEF FoundIn, y
<1>4. CASE Names(page, n, k) /\ x.cli # None /\ x.sdk # None
  <2>1. y = x
    BY <1>4 DEF Scanned
  <2>2. /\ \E i \in 1..(k - 1) : Names(page, n, i)
        /\ \E i \in 1..(k - 1) : Gives(page, n, i)
    BY <1>4 DEF FoundIn, NoChain
  <2>. HIDE DEF y
  <2>. QED
    BY <1>1, <2>1, <2>2 DEF FoundIn, y
<1>5. CASE Names(page, n, k) /\ ~(x.cli # None /\ x.sdk # None)
  <2>1. y = Merge(x, VersionsIn(rel))
    BY <1>5 DEF Scanned, Names
  <2>2. /\ y.cli = Coalesce(x.cli, rel.tag)
        /\ y.sdk = Coalesce(x.sdk, rel.sdk)
        /\ y.devnet = Coalesce(x.devnet, rel.devnet)
        /\ y.contracts = Coalesce(x.contracts, rel.contracts)
    BY <2>1 DEF Merge, VersionsIn, Fields
  <2>. HIDE DEF y
  <2>3. (\A i \in 1..(k - 1) : ~ Names(page, n, i)) => y.cli = rel.tag
    BY <2>2 DEF FoundIn, NoChain, Coalesce
  <2>4. (\A i \in 1..(k - 1) : ~ Gives(page, n, i)) => y.sdk = rel.sdk
    BY <2>2 DEF FoundIn, Coalesce
  <2>5. \A i \in 1..(k - 1) :
          Names(page, n, i) /\ (\A j \in 1..(i - 1) : ~ Names(page, n, j)) =>
            y.cli = page[i].tag
    <3>1. \A i \in 1..(k - 1) : page[i] \in CliRelease
      BY <1>1
    <3>2. \A i \in 1..(k - 1) : page[i].tag # None
      BY <3>1, CatalogAssumption DEF CliRelease, CliTags
    <3>. QED
      BY <2>2, <3>2 DEF FoundIn, Coalesce
  <2>6. \A i \in 1..(k - 1) :
          Gives(page, n, i) /\ (\A j \in 1..(i - 1) : ~ Gives(page, n, j)) =>
            y.sdk = page[i].sdk
    BY <2>2 DEF FoundIn, Coalesce, Gives
  <2>7. (\A i \in 1..k : ~ Gives(page, n, i)) => y.sdk = None
    BY <1>1, <1>5, <2>2 DEF FoundIn, Coalesce, Gives
  <2>8. y.devnet # None =>
          \E i \in 1..k : Names(page, n, i) /\ page[i].devnet = y.devnet
    BY <1>1, <1>5, <2>2 DEF FoundIn, Coalesce
  <2>9. y.contracts # None =>
          \E i \in 1..k : Names(page, n, i) /\ page[i].contracts = y.contracts
    BY <1>1, <1>5, <2>2 DEF FoundIn, Coalesce
  <2>. QED
    BY <1>1, <1>5, <2>3, <2>4, <2>5, <2>6, <2>7, <2>8, <2>9 DEF FoundIn, y
<1>. QED
  BY <1>3, <1>4, <1>5

(* For any page, newest release first: the resolver answers nothing for a  *)
(* node that no release names; otherwise the CLI of the newest release     *)
(* that names it and the SDK of the newest of these that gives one, even   *)
(* of different releases (sdk_resolver.py:161-189, "Collect independently  *)
(* and stop only when both sdk+cli are in hand").                          *)
THEOREM ScanFindsNewest ==
  ASSUME NEW page \in Seq(CliRelease), NEW n \in Nodes
  PROVE  FoundIn(page, n, Len(page), Scan(page, n))
<1>. DEFINE R == {p \in (0..Len(page)) \X Chain : FoundIn(page, n, p[1], p[2])}
<1>1. <<0, NoChain>> \in R
  <2>1. 1..0 = {}
    OBVIOUS
  <2>2. FoundIn(page, n, 0, NoChain)
    BY <2>1 DEF FoundIn, NoChain
  <2>. QED
    BY <2>2, NoChainType
<1>2. \A i \in 1..Len(page), x \in Chain :
        <<i - 1, x>> \in R => <<i, Scanned(x, page[i], n)>> \in R
  <2>. SUFFICES ASSUME NEW i \in 1..Len(page), NEW x \in Chain, <<i - 1, x>> \in R
                PROVE  <<i, Scanned(x, page[i], n)>> \in R
    OBVIOUS
  <2>1. FoundIn(page, n, i - 1, x)
    OBVIOUS
  <2>2. page[i] \in CliRelease
    OBVIOUS
  <2>. QED
    BY <2>1, <2>2, FoundNext, ScannedType
<1>3. <<Len(page), Scan(page, n)>> \in R
  <2>. HIDE DEF R
  <2>. QED
    BY <1>1, <1>2, ScanInduction
<1>. QED
  BY <1>3

LEMMA ResolveType ==
  ASSUME NEW cache \in [Nodes -> Chain], NEW page \in Seq(CliRelease), NEW n \in Nodes
  PROVE  /\ ResolveVersions(cache, page, n) \in Chain
         /\ Learn(cache, page, n) \in [Nodes -> Chain]
<1>1. Scan(page, n) \in Chain /\ cache[n] \in Chain
  BY ScanType
<1>2. /\ Merge(cache[n], Scan(page, n)) \in Chain
      /\ Merge(Scan(page, n), cache[n]) \in Chain
  BY <1>1, MergeType
<1>3. ResolveVersions(cache, page, n) \in Chain
  BY <1>1, <1>2, NoChainType DEF ResolveVersions
<1>4. Learn(cache, page, n) \in [Nodes -> Chain]
  BY <1>2 DEF Learn
<1>. QED
  BY <1>3, <1>4

(* What the orchestrator remembers of a sync. *)
LEMMA LearnAllType ==
  ASSUME NEW cache \in [Nodes -> Chain], NEW page \in Seq(CliRelease),
         NEW nodes \in Seq(Nodes)
  PROVE  FoldLeft(LAMBDA k, n : Learn(k, page, n), cache, nodes) \in [Nodes -> Chain]
<1>. DEFINE N == Len(nodes)
            S == [Nodes -> Chain]
            Op(x, i) == Learn(x, page, nodes[i])
            F == [i \in 1..N |-> [x \in S |-> Op(x, i)]]
            Step(x, s) == Op(x[s \ {Max(s)}], Max(s))
            h == CHOOSE x : x = [s \in SUBSET DOMAIN nodes |->
                                   IF s = {} THEN cache ELSE Step(x, s)]
<1>1. N \in Nat /\ DOMAIN nodes = 1..N /\ cache \in S
  OBVIOUS
<1>2. ASSUME NEW x \in S, NEW i \in 1..N PROVE Op(x, i) \in S
  <2>1. nodes[i] \in Nodes
    OBVIOUS
  <2>. QED
    BY <2>1, ResolveType
<1>3. FoldLeft(LAMBDA k, n : Learn(k, page, n), cache, nodes) = h[DOMAIN nodes]
  BY DEF FoldLeft, MapThenFoldSet
<1>. HIDE DEF Op
<1>4. \E g : g = [s \in SUBSET DOMAIN nodes |-> IF s = {} THEN cache ELSE Step(g, s)]
  <2>1. F \in [1..N -> [S -> S]]
    BY <1>2
  <2>2. \A i \in 1..N : \A x \in S : F[i][x] = Op(x, i)
    OBVIOUS
  <2>. HIDE DEF F, S
  <2>3. PICK g : IsFold(g, F, cache, S, N)
    BY <1>1, <2>1, FoldExists
  <2>4. ASSUME NEW s \in SUBSET (1..N), s # {}
        PROVE  g[s] = Step(g, s)
    <3>1. Max(s) \in 1..N /\ s \ {Max(s)} \in SUBSET (1..N)
      BY <1>1, <2>4, Greatest
    <3>. QED
      BY <2>2, <2>3, <2>4, <3>1 DEF IsFold
  <2>. HIDE DEF N, Step
  <2>. QED
    BY <1>1, <2>3, <2>4 DEF IsFold
<1>5. h = [s \in SUBSET DOMAIN nodes |-> IF s = {} THEN cache ELSE Step(h, s)]
  <2>. HIDE DEF Step
  <2>. QED
    BY <1>4
<1>. HIDE DEF h, S, N
<1>6. h[1..N] \in S
  <2>1. h[{}] \in S
    BY <1>1, <1>5
  <2>2. ASSUME NEW s \in SUBSET (1..N), s # {}, h[s \ {Max(s)}] \in S
        PROVE  h[s] \in S
    <3>1. Max(s) \in 1..N
      BY <1>1, <2>2, Greatest
    <3>2. h[s] = Op(h[s \ {Max(s)}], Max(s))
      BY <1>1, <1>5, <2>2
    <3>. QED
      BY <1>2, <2>2, <3>1, <3>2
  <2>. QED
    BY <1>1, <2>1, <2>2, FoldStays
<1>. QED
  BY <1>1, <1>3, <1>6 DEF S

-----------------------------------------------------------------------------
(* The catalog is closed, what the two processes remember and what the     *)
(* PATCH has read are chains, and whoever announces a release, or has      *)
(* announced it, wrote its row first.                                      *)
Announcing == {"publish", "ask", "tell"}

CatalogRight ==
  /\ cat \in Catalog /\ ChainClosed
  /\ memo \in [Procs -> [Nodes -> Chain]]
  /\ \/ editor = Idle
     \/ editor.node \in Nodes /\ editor.old \in Chain /\ editor.ask \in Payloads
  /\ CatalogBeforeRun
  /\ \A t \in Tasks : doing[t] \in Announcing => node[t] \in cat.known

RowsInv == WatchInv /\ CatalogRight

LEMMA RowsInit == ReleaseInit => RowsInv
<1>. SUFFICES ASSUME ReleaseInit PROVE RowsInv
  OBVIOUS
<1>1. WatchInv
  BY WatchInit
<1>2. cat \in Catalog /\ ChainClosed
  BY ReleaseAssumption DEF ReleaseInit, ChainClosed
<1>3. memo \in [Procs -> [Nodes -> Chain]]
  BY NoChainType DEF ReleaseInit, EmptyCache
<1>4. CatalogBeforeRun /\ editor = Idle
  BY DEF ReleaseInit, CatalogBeforeRun
<1>5. \A t \in Tasks : doing[t] \notin Announcing
  BY DEF ReleaseInit, Announcing
<1>. QED
  BY <1>1, <1>2, <1>3, <1>4, <1>5 DEF RowsInv, CatalogRight

(* What is published of the node repository, newest first.                 *)
LEMMA PublishedType ==
  ASSUME nodesOut \in 0..Len(NodeReleases)
  PROVE  Reverse(SubSeq(NodeReleases, 1, nodesOut)) \in Seq(Nodes)
<1>1. SubSeq(NodeReleases, 1, nodesOut) \in Seq(Nodes)
  BY ReleaseAssumption
<1>2. ASSUME NEW z \in Seq(Nodes) PROVE Reverse(z) \in Seq(Nodes)
  BY <1>2 DEF Reverse
<1>. QED
  BY <1>1, <1>2

(* What the resolver of a process finds on a page, and then remembers.     *)
LEMMA Resolves ==
  ASSUME RowsInv, NEW p \in Procs, NEW page \in Replies, NEW n \in Nodes
  PROVE  /\ ResolveVersions(memo[p], page, n) \in Chain
         /\ Learn(memo[p], page, n) \in [Nodes -> Chain]
<1>1. page \in Seq(CliRelease)
  BY PageTypes DEF RowsInv, WatchInv, TasksRight
<1>2. memo[p] \in [Nodes -> Chain]
  BY DEF RowsInv, CatalogRight
<1>. QED
  BY <1>1, <1>2, ResolveType

(* The writers of the watcher leave a catalog that is closed and lose no   *)
(* row; so do the routes.                                                  *)
LEMMA WatcherWrites ==
  ASSUME RowsInv, NEW t \in Tasks, TaskStep(t) PROVE cat' \in Fuller(cat)
<1>. cat \in Catalog /\ Closed(cat)
  BY DEF RowsInv, CatalogRight, ChainClosed
<1>1. CASE UNCHANGED cat
  BY <1>1, FullerRefl
<1>2. CASE UpsertNodeCatalog(t)
  <2>1. node[t] \in Nodes
    BY <1>2 DEF UpsertNodeCatalog, RowsInv, WatchInv, TasksRight
  <2>2. PICK page \in Replies :
          cat' = UpsertNode(cat, node[t],
                            ResolveVersions(memo["watcher"], page, node[t]), FALSE)
    BY <1>2 DEF UpsertNodeCatalog
  <2>3. ResolveVersions(memo["watcher"], page, node[t]) \in Chain
    BY <2>1, Resolves DEF Procs
  <2>. QED
    BY <2>1, <2>2, <2>3, UpsertNodeFuller
<1>3. CASE UpsertCliChain(t)
  <2>. DEFINE rel == Head(pages[t])
  <2>1. rel \in CliRelease
    BY <1>3 DEF UpsertCliChain, RowsInv, WatchInv, TasksRight
  <2>2. cat' = UpsertCli(cat, ChainOf(rel), rel.node)
    BY <1>3 DEF UpsertCliChain
  <2>3. ChainOf(rel) \in Chain /\ rel.node \in Maybe(Nodes)
    BY <2>1 DEF CliRelease, ChainOf, Chain, Maybe
  <2>. HIDE DEF rel
  <2>. QED
    BY <2>2, <2>3, UpsertCliFuller
<1>4. CASE EndClis(t) /\ ~ UNCHANGED cat
  <2>1. PICK k \in Contracts : cat' = AddLeaves(cat, {k})
    BY <1>4 DEF EndClis
  <2>2. {k} \in SUBSET Tags
    BY DEF Tags
  <2>. QED
    BY <2>1, <2>2, LeavesFuller
<1>. QED
  BY <1>1, <1>2, <1>3, <1>4 DEF TaskStep, InsertRelease, PublishRelease, CheckCli, AskRuns,
     TellCompleted, FetchClis

(* The PATCH of release n has cleared its pointer. *)
Cleared(n) ==
  /\ editor # Idle /\ editor.node = n
  /\ editor' = Idle
  /\ Filled(editor.old, editor.ask).cli = None

(* Pointers of a chain may change, but none is cleared except the CLI of   *)
(* a release, by the PATCH of that release (releases.py:750-822).          *)
PointersKept ==
  /\ \A n \in Nodes :
       cat.cliOf[n] # None => cat'.cliOf[n] # None \/ Cleared(n)
  /\ LowerKept(cat, cat')

LEMMA RouteWrites ==
  ASSUME RowsInv, Route PROVE cat' \in Wider(cat) /\ PointersKept
<1>. USE DEF PointersKept, Fuller
<1>. cat \in Catalog /\ Closed(cat)
  BY DEF RowsInv, CatalogRight, ChainClosed
<1>. TasksRight
  BY DEF RowsInv, WatchInv
<1>1. CASE UNCHANGED cat
  BY <1>1, FullerRefl
<1>2. CASE SyncNodeReleases
  <2>. DEFINE published == Reverse(SubSeq(NodeReleases, 1, nodesOut))
              found(page) == [n \in Nodes |-> ResolveVersions(memo["orchestrator"], page, n)]
  <2>1. PICK page \in Replies : cat' = SyncNodes(cat, published, found(page))
    BY <1>2 DEF SyncNodeReleases
  <2>2. found(page) \in [Nodes -> Chain]
    BY Resolves DEF Procs
  <2>3. published \in Seq(Nodes)
    BY PublishedType DEF TasksRight
  <2>. HIDE DEF published, found
  <2>. QED
    BY <2>1, <2>2, <2>3, SyncNodesFuller
<1>3. CASE SyncCliReleases
  <2>. DEFINE chains == [i \in DOMAIN Page |-> ChainOf(Page[i])]
  <2>1. Page \in Seq(CliRelease)
    BY PageTypes DEF TasksRight, Replies
  <2>2. ASSUME NEW rel \in CliRelease PROVE ChainOf(rel) \in Chain
    BY DEF CliRelease, ChainOf, Chain, Maybe
  <2>3. chains \in Seq(Chain)
    BY <2>1, <2>2
  <2>4. cat' = SyncClis(cat, chains)
    BY <1>3 DEF SyncCliReleases
  <2>. HIDE DEF chains
  <2>. QED
    BY <2>3, <2>4, SyncClisFuller
<1>4. CASE SyncLeaves
  <2>1. PICK tags \in {Sdks \cap {CliReleases[i].tag : i \in 1..clisOut}, Contracts} :
          cat' = AddLeaves(cat, tags)
    BY <1>4 DEF SyncLeaves
  <2>2. tags \in SUBSET Tags
    BY DEF Tags
  <2>. QED
    BY <2>1, <2>2, LeavesFuller
<1>5. CASE AddRelease
  <2>1. PICK n \in Nodes, page \in Replies, cli \in Maybe(Clis) :
          cat' = UpsertNode(cat, n,
                   IF cli # None /\ n \in V2 THEN [NoChain EXCEPT !.cli = cli]
                   ELSE ResolveVersions(memo["orchestrator"], page, n), TRUE)
    BY <1>5 DEF AddRelease
  <2>2. [NoChain EXCEPT !.cli = cli] \in Chain
    BY DEF NoChain, Chain, Maybe, CliTags
  <2>3. ResolveVersions(memo["orchestrator"], page, n) \in Chain
    BY Resolves DEF Procs
  <2>. QED
    BY <2>1, <2>2, <2>3, UpsertNodeFuller
<1>6. CASE RemoveRelease
  BY <1>6, SoftDeleteFuller DEF RemoveRelease
<1>7. CASE CommitToolchain
  <2>1. editor.node \in Nodes /\ editor.old \in Chain /\ editor.ask \in Payloads
    BY <1>7 DEF CommitToolchain, RowsInv, CatalogRight
  <2>2. editor.ask.given \in SUBSET Fields /\ editor.ask.to \in Chain
    BY <2>1, ReleaseAssumption
  <2>3. /\ cat' = Patch(cat, editor.node, editor.old, editor.ask)
        /\ editor # Idle /\ editor' = Idle
    BY <1>7 DEF CommitToolchain
  <2>4. /\ cat' \in Wider(cat) /\ LowerKept(cat, cat')
        /\ cat'.cliOf = [cat.cliOf EXCEPT ![editor.node] =
                           Filled(editor.old, editor.ask).cli]
    BY <2>1, <2>2, <2>3, PatchWider
  <2>5. cat.cliOf \in [Nodes -> Maybe(CliTags)]
    BY DEF Catalog
  <2>. QED
    BY <2>1, <2>3, <2>4, <2>5 DEF Cleared
<1>. QED
  BY <1>1, <1>2, <1>3, <1>4, <1>5, <1>6, <1>7 DEF Route, ReadToolchain, TriggerManually

LEMMA CatalogWrites ==
  ASSUME RowsInv, [ReleaseNext]_releaseVars
  PROVE  cat' \in Wider(cat) /\ PointersKept
<1>1. CASE UNCHANGED cat
  BY <1>1, FullerRefl DEF RowsInv, CatalogRight, ChainClosed, Fuller, PointersKept
<1>2. ASSUME NEW t \in Tasks, TaskStep(t) PROVE cat' \in Wider(cat) /\ PointersKept
  BY <1>2, WatcherWrites DEF Fuller, PointersKept
<1>3. CASE Route
  BY <1>3, RouteWrites
<1>. QED
  BY <1>1, <1>2, <1>3
     DEF ReleaseNext, PublishNode, PublishCli, PollNode, Webhook, TaskFails, WatcherCrash,
         ConsumerStep, ConsumerCheck, ConsumerInsert, ConsumerRequest, ConsumerFails,
         ConsumerCrash, releaseVars

(* What the two resolvers remember.                                        *)
LEMMA MemoWrites ==
  ASSUME RowsInv, [ReleaseNext]_releaseVars
  PROVE  memo' \in [Procs -> [Nodes -> Chain]]
<1>1. memo \in [Procs -> [Nodes -> Chain]] /\ TasksRight
  BY DEF RowsInv, CatalogRight, WatchInv
<1>2. ASSUME NEW p \in Procs, NEW k \in [Nodes -> Chain], memo' = [memo EXCEPT ![p] = k]
      PROVE  memo' \in [Procs -> [Nodes -> Chain]]
  BY <1>1, <1>2
<1>3. "watcher" \in Procs /\ "orchestrator" \in Procs
  BY DEF Procs
<1>4. EmptyCache \in [Nodes -> Chain]
  BY NoChainType DEF EmptyCache
<1>5. CASE UNCHANGED memo
  BY <1>1, <1>5
<1>6. CASE WatcherCrash
  BY <1>2, <1>3, <1>4, <1>6 DEF WatcherCrash
<1>7. CASE ConsumerCrash
  BY <1>2, <1>3, <1>4, <1>7 DEF ConsumerCrash
<1>8. ASSUME NEW t \in Tasks, UpsertNodeCatalog(t)
      PROVE  memo' \in [Procs -> [Nodes -> Chain]]
  <2>1. node[t] \in Nodes
    BY <1>1, <1>8 DEF UpsertNodeCatalog, TasksRight
  <2>2. PICK page \in Replies :
          memo' = [memo EXCEPT !["watcher"] = Learn(memo["watcher"], page, node[t])]
    BY <1>8 DEF UpsertNodeCatalog
  <2>. QED
    BY <1>2, <1>3, <2>1, <2>2, Resolves
<1>9. CASE SyncNodeReleases
  <2>. DEFINE published == Reverse(SubSeq(NodeReleases, 1, nodesOut))
  <2>1. PICK page \in Replies :
          memo' = [memo EXCEPT !["orchestrator"] =
                     FoldLeft(LAMBDA k, n : Learn(k, page, n), memo["orchestrator"], published)]
    BY <1>9 DEF SyncNodeReleases
  <2>2. page \in Seq(CliRelease) /\ published \in Seq(Nodes)
    BY <1>1, PageTypes, PublishedType DEF TasksRight
  <2>3. memo["orchestrator"] \in [Nodes -> Chain]
    BY <1>1, <1>3
  <2>. HIDE DEF published
  <2>4. FoldLeft(LAMBDA k, n : Learn(k, page, n), memo["orchestrator"], published)
          \in [Nodes -> Chain]
    BY <2>2, <2>3, LearnAllType
  <2>. QED
    BY <1>2, <1>3, <2>1, <2>4
<1>10. CASE AddRelease
  <2>1. PICK n \in Nodes, page \in Replies :
          \/ memo' = memo
          \/ memo' = [memo EXCEPT !["orchestrator"] = Learn(memo["orchestrator"], page, n)]
    BY <1>10 DEF AddRelease
  <2>. QED
    BY <1>1, <1>2, <1>3, <2>1, Resolves
<1>. QED
  BY <1>5, <1>6, <1>7, <1>8, <1>9, <1>10
     DEF ReleaseNext, PublishNode, PublishCli, PollNode, Webhook, TaskFails, TaskStep,
         InsertRelease, PublishRelease, CheckCli, UpsertCliChain, AskRuns, TellCompleted,
         EndClis, FetchClis, ConsumerStep, ConsumerCheck, ConsumerInsert, ConsumerRequest,
         ConsumerFails, Route, SyncCliReleases, SyncLeaves, RemoveRelease, ReadToolchain,
         CommitToolchain, TriggerManually, releaseVars

(* The PATCH holds the node it edits, its old chain and the payload.       *)
LEMMA EditorWrites ==
  ASSUME RowsInv, [ReleaseNext]_releaseVars
  PROVE  \/ editor' = Idle
         \/ editor'.node \in Nodes /\ editor'.old \in Chain /\ editor'.ask \in Payloads
<1>1. CASE UNCHANGED editor
  BY <1>1 DEF RowsInv, CatalogRight
<1>2. CASE ReadToolchain
  <2>1. PICK n \in Nodes, ask \in Payloads :
          editor' = [at |-> "read", node |-> n, old |-> Toolchain(cat, n), ask |-> ask]
    BY <1>2 DEF ReadToolchain
  <2>2. Toolchain(cat, n) \in Chain
    BY ToolchainType DEF RowsInv, CatalogRight
  <2>. QED
    BY <2>1, <2>2
<1>3. CASE CommitToolchain \/ ConsumerCrash
  BY <1>3 DEF CommitToolchain, ConsumerCrash
<1>. QED
  BY <1>1, <1>2, <1>3
     DEF ReleaseNext, PublishNode, PublishCli, PollNode, Webhook, TaskFails, TaskStep,
         InsertRelease, UpsertNodeCatalog, PublishRelease, CheckCli, UpsertCliChain, AskRuns,
         TellCompleted, EndClis, FetchClis, WatcherCrash, ConsumerStep, ConsumerCheck,
         ConsumerInsert, ConsumerRequest, ConsumerFails, Route, SyncNodeReleases,
         SyncCliReleases, SyncLeaves, AddRelease, RemoveRelease, TriggerManually, routeVars,
         releaseVars

(* The queue of the consumer holds only releases that have a row.          *)
LEMMA NewsWrites ==
  ASSUME RowsInv, [ReleaseNext]_releaseVars PROVE CatalogBeforeRun'
<1>1. /\ news \in Seq(Nodes) /\ \A i \in DOMAIN news : news[i] \in cat.known
      /\ consumer # "idle" => news # <<>>
      /\ TasksRight
      /\ \A t \in Tasks : doing[t] \in Announcing => node[t] \in cat.known
  BY DEF RowsInv, CatalogRight, CatalogBeforeRun, WatchInv, QueueRight
<1>2. cat.known \subseteq cat'.known
  BY CatalogWrites DEF Wider
<1>3. CASE UNCHANGED news
  BY <1>1, <1>2, <1>3 DEF CatalogBeforeRun
<1>4. ASSUME NEW t \in Tasks, PublishRelease(t) \/ TellCompleted(t) PROVE CatalogBeforeRun'
  <2>1. news' = Append(news, node[t]) /\ node[t] \in cat.known /\ node[t] \in Nodes
    BY <1>1, <1>4 DEF PublishRelease, TellCompleted, Announcing, TasksRight
  <2>2. \A i \in DOMAIN news' : news'[i] \in cat.known
    BY <1>1, <2>1
  <2>. QED
    BY <1>2, <2>2 DEF CatalogBeforeRun
<1>5. CASE Done /\ news # <<>>
  <2>1. \A i \in DOMAIN news' : news'[i] \in cat.known
    BY <1>1, <1>5 DEF Done
  <2>. QED
    BY <1>2, <2>1 DEF CatalogBeforeRun
<1>6. CASE ConsumerStep \/ ConsumerFails \/ ConsumerCrash
  BY <1>1, <1>3, <1>5, <1>6 DEF ConsumerStep, ConsumerCheck, ConsumerInsert, ConsumerRequest,
     ConsumerFails, ConsumerCrash
<1>7. ASSUME NEW t \in Tasks, TaskStep(t) PROVE CatalogBeforeRun'
  BY <1>3, <1>4, <1>7 DEF TaskStep, InsertRelease, UpsertNodeCatalog, CheckCli,
     UpsertCliChain, AskRuns, EndClis, FetchClis
<1>8. CASE Route
  BY <1>3, <1>8 DEF Route, SyncNodeReleases, SyncCliReleases, SyncLeaves, AddRelease,
     RemoveRelease, ReadToolchain, CommitToolchain, TriggerManually, RouteKeeps
<1>. QED
  BY <1>3, <1>6, <1>7, <1>8
     DEF ReleaseNext, PublishNode, PublishCli, PollNode, Webhook, TaskFails, WatcherCrash,
         releaseVars

(* A task that is about to announce a release has seen its row.            *)
TellsKnown == \A t \in Tasks : doing[t] \in Announcing => node[t] \in cat.known

LEMMA OneTells ==
  ASSUME TasksRight, TellsKnown, cat.known \subseteq cat'.known,
         NEW t \in Tasks, NEW p, NEW n, p \in Announcing => n \in cat'.known,
         doing' = [doing EXCEPT ![t] = p], node' = [node EXCEPT ![t] = n]
  PROVE  TellsKnown'
  BY DEF TasksRight, TellsKnown

LEMMA TaskTells ==
  ASSUME RowsInv, NEW t \in Tasks, TaskStep(t) PROVE TellsKnown'
<1>. USE DEF Announcing
<1>1. TasksRight /\ TellsKnown /\ cat \in Catalog /\ Closed(cat)
  BY DEF RowsInv, CatalogRight, WatchInv, TellsKnown, ChainClosed
<1>2. cat.known \subseteq cat'.known
  BY WatcherWrites DEF Fuller, Wider
<1>3. UNCHANGED node => node' = [node EXCEPT ![t] = node[t]]
  BY <1>1 DEF TasksRight
<1>4. ASSUME NEW p \in {"idle", "upsert", "fetch", "cli", "link"},
             doing' = [doing EXCEPT ![t] = p],
             UNCHANGED node \/ node' = [node EXCEPT ![t] = None]
      PROVE  TellsKnown'
  BY <1>1, <1>2, <1>3, <1>4, OneTells
<1>5. CASE UNCHANGED <<doing, node>>
  BY <1>1, <1>2, <1>5 DEF TellsKnown
<1>6. CASE InsertRelease(t) \/ EndClis(t) \/ PublishRelease(t) \/ TellCompleted(t)
  BY <1>4, <1>6 DEF InsertRelease, EndClis, PublishRelease, TellCompleted, Do
<1>7. CASE CheckCli(t) \/ (t = "poller" /\ FetchClis)
  BY <1>4, <1>5, <1>7 DEF CheckCli, FetchClis, Do
<1>8. CASE UpsertNodeCatalog(t)
  <2>1. node[t] \in Nodes /\ UNCHANGED node /\ doing' = [doing EXCEPT ![t] = "publish"]
    BY <1>1, <1>8 DEF UpsertNodeCatalog, TasksRight, Do
  <2>2. PICK page \in Replies :
          cat' = UpsertNode(cat, node[t],
                            ResolveVersions(memo["watcher"], page, node[t]), FALSE)
    BY <1>8 DEF UpsertNodeCatalog
  <2>3. ResolveVersions(memo["watcher"], page, node[t]) \in Chain
    BY <2>1, Resolves DEF Procs
  <2>4. node[t] \in cat'.known
    BY <1>1, <2>1, <2>2, <2>3, UpsertNodeFuller
  <2>. QED
    BY <1>1, <1>2, <1>3, <2>1, <2>4, OneTells
<1>9. CASE UpsertCliChain(t)
  <2>. DEFINE rel    == Head(pages[t])
              linked == LinkChain(cat, ChainOf(rel))
              hit    == rel.node # None /\ Backfilled(linked, rel.node)
  <2>1. /\ cat' = UpsertCli(cat, ChainOf(rel), rel.node)
        /\ node' = [node EXCEPT ![t] = IF hit THEN rel.node ELSE None]
        /\ doing' = [doing EXCEPT ![t] = IF hit THEN "ask" ELSE "cli"]
    BY <1>9 DEF UpsertCliChain, Do
  <2>2. rel \in CliRelease
    BY <1>1, <1>9 DEF UpsertCliChain, TasksRight
  <2>3. ChainOf(rel) \in Chain /\ rel.node \in Maybe(Nodes)
    BY <2>2 DEF CliRelease, ChainOf, Chain, Maybe
  <2>4. /\ linked \in Catalog /\ Closed(linked)
        /\ ChainOf(rel).cli \in linked.known \cup {None}
        /\ ChainOf(rel).cli \in Maybe(CliTags)
    BY <1>1, <2>3, LinkFuller DEF Fuller, Wider, Chain
  <2>5. hit => rel.node \in linked.known /\ rel.node \in Nodes
               /\ cat' = [linked EXCEPT !.cliOf[rel.node] = ChainOf(rel).cli]
    BY <2>1, <2>3 DEF Backfilled, UpsertCli, Maybe
  <2>. HIDE DEF rel, linked, hit
  <2>6. hit => rel.node \in cat'.known
    BY <2>4, <2>5, PointerWider DEF Wider
  <2>7. CASE hit
    BY <1>1, <1>2, <2>1, <2>6, <2>7, OneTells
  <2>8. CASE ~ hit
    BY <1>4, <2>1, <2>8
  <2>. QED
    BY <2>7, <2>8
<1>10. CASE AskRuns(t)
  <2>1. doing[t] = "ask" /\ node[t] \in cat'.known
    BY <1>1, <1>2, <1>10 DEF AskRuns, TellsKnown
  <2>2. CASE doing' = [doing EXCEPT ![t] = "cli"] /\ node' = [node EXCEPT ![t] = None]
    BY <1>4, <2>2
  <2>3. CASE doing' = [doing EXCEPT ![t] = "tell"] /\ UNCHANGED node
    BY <1>1, <1>2, <1>3, <2>1, <2>3, OneTells
  <2>. QED
    BY <1>10, <2>2, <2>3 DEF AskRuns, Do
<1>. QED
  BY <1>6, <1>7, <1>8, <1>9, <1>10 DEF TaskStep

LEMMA TellsWrites ==
  ASSUME RowsInv, [ReleaseNext]_releaseVars PROVE TellsKnown'
<1>. USE DEF Announcing
<1>1. TasksRight /\ TellsKnown
  BY DEF RowsInv, CatalogRight, WatchInv, TellsKnown
<1>2. cat.known \subseteq cat'.known
  BY CatalogWrites DEF Wider
<1>3. CASE UNCHANGED <<doing, node>>
  BY <1>1, <1>2, <1>3 DEF TellsKnown
<1>4. ASSUME NEW t \in Tasks, TaskStep(t) PROVE TellsKnown'
  BY <1>4, TaskTells
<1>5. ASSUME NEW t \in Tasks, NEW p \in {"insert", "fetch", "cli"}, NEW n,
             doing' = [doing EXCEPT ![t] = p], node' = [node EXCEPT ![t] = n]
      PROVE  TellsKnown'
  BY <1>1, <1>2, <1>5, OneTells
<1>6. CASE PollNode
  <2>1. "poller" \in Tasks /\ (UNCHANGED node => node' = [node EXCEPT !["poller"] = node["poller"]])
    BY <1>1 DEF Tasks, TasksRight
  <2>. QED
    BY <1>5, <1>6, <2>1 DEF PollNode, Do
<1>7. ASSUME NEW h \in Handlers, Webhook(h) PROVE TellsKnown'
  <2>1. h \in Tasks /\ (UNCHANGED node => node' = [node EXCEPT ![h] = node[h]])
    BY <1>1 DEF Tasks, TasksRight
  <2>. QED
    BY <1>5, <1>7, <2>1 DEF Webhook, Do
<1>8. ASSUME NEW T, Drop(T) PROVE TellsKnown'
  <2>1. \A t \in Tasks : doing'[t] # "idle" => doing'[t] = doing[t] /\ node'[t] = node[t]
    BY <1>8 DEF Drop
  <2>. QED
    BY <1>1, <1>2, <2>1 DEF TellsKnown
<1>9. CASE ConsumerStep \/ ConsumerFails \/ ConsumerCrash \/ Route
  BY <1>3, <1>9 DEF ConsumerStep, ConsumerCheck, ConsumerInsert, ConsumerRequest,
     ConsumerFails, ConsumerCrash, Route, SyncNodeReleases, SyncCliReleases, SyncLeaves,
     AddRelease, RemoveRelease, ReadToolchain, CommitToolchain, TriggerManually, RouteKeeps,
     watcherVars, taskVars
<1>. QED
  BY <1>3, <1>4, <1>6, <1>7, <1>8, <1>9
     DEF ReleaseNext, PublishNode, PublishCli, TaskFails, WatcherCrash, watcherVars, taskVars,
         releaseVars

LEMMA RowsStep == RowsInv /\ [ReleaseNext]_releaseVars => RowsInv'
<1>. SUFFICES ASSUME RowsInv, [ReleaseNext]_releaseVars PROVE RowsInv'
  OBVIOUS
<1>1. WatchInv'
  BY WatchStep DEF RowsInv
<1>2. cat' \in Catalog /\ ChainClosed'
  BY CatalogWrites DEF Wider, ChainClosed
<1>. QED
  BY <1>1, <1>2, MemoWrites, EditorWrites, NewsWrites, TellsWrites
     DEF RowsInv, CatalogRight, TellsKnown

LEMMA RowsAlways == ReleaseSpec => []RowsInv
  BY RowsInit, RowsStep, PTL DEF ReleaseSpec

(* No pointer of the version chain ever leads nowhere: whatever order the  *)
(* watcher, the four syncs, the manual route and the two statements of the *)
(* PATCH come in, each writer inserts the rows it points to first          *)
(* (releases.py:387-962, poller.py:254-345, 394-530).                      *)
THEOREM ChainAlwaysClosed == ReleaseSpec => []ChainClosed
<1>1. RowsInv => ChainClosed
  BY DEF RowsInv, CatalogRight
<1>. QED
  BY <1>1, RowsAlways, PTL

(* The consumer finds the row of each release it is told of, by the poller,*)
(* a webhook or the CLI watcher, after any crash between the two commits   *)
(* (orchestrator/consumers/releases.py:104).                               *)
THEOREM RowBeforeMessage == ReleaseSpec => []CatalogBeforeRun
<1>1. RowsInv => CatalogBeforeRun
  BY DEF RowsInv, CatalogRight
<1>. QED
  BY <1>1, RowsAlways, PTL

(* A row of the catalog is never taken away: DELETE only hides a release,  *)
(* and no upsert replaces the rows it read (releases.py:955-963).          *)
THEOREM RowsNeverVanish == ReleaseSpec => [][cat.known \subseteq cat'.known]_cat
<1>1. RowsInv /\ [ReleaseNext]_releaseVars => [cat.known \subseteq cat'.known]_cat
  BY CatalogWrites DEF Wider
<1>. QED
  BY <1>1, RowsAlways, PTL DEF ReleaseSpec

(* What the catalog knows of a chain is not lost to a writer that knows    *)
(* less of it, a resolver whose page did not come included: COALESCE keeps *)
(* every pointer.  Only the PATCH of a release clears its CLI, when the    *)
(* user asks for it, or when it had none as the route read it, whatever    *)
(* was backfilled since (releases.py:750-871).                             *)
THEOREM PointersOnlyClearedByPatch == ReleaseSpec => [][PointersKept]_releaseVars
<1>1. RowsInv /\ [ReleaseNext]_releaseVars => [PointersKept]_releaseVars
  BY CatalogWrites
<1>. QED
  BY <1>1, RowsAlways, PTL DEF ReleaseSpec
=============================================================================
