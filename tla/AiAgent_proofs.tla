--------------------------- MODULE AiAgent_proofs ---------------------------
(***************************************************************************)
(* What is proved of the ai-agent: of its sessions (AiSession), of the     *)
(* history its loop sends to the model and of the verdicts its tools       *)
(* record (AgentLoop).                                                     *)
(*                                                                         *)
(* Sessions: the verdict table is complete because a coroutine that is     *)
(* about to write its last status came from RecordMissing, which either    *)
(* filled the table or was refused by the database, and a crashed loop     *)
(* costs one failure of its own (CrashesCounted).  Messages are not        *)
(* dropped because the queue of a session exists exactly while its         *)
(* coroutine does (QueuesRegistered).                                      *)
(*                                                                         *)
(* History: HistoryInv says that only the last message may wait for        *)
(* results, and that behind the first two messages of a session without a  *)
(* user there are only calls and results; four of them, the last being     *)
(* results, begin with calls.                                              *)
(*                                                                         *)
(* Verdicts: a verdict takes only rows without a name, so no later one     *)
(* takes them away; AuditInv adds the types this needs.                    *)
(***************************************************************************)
EXTENDS AiSession, AgentLoop, SequenceTheorems, TLAPS

-----------------------------------------------------------------------------
(* The sessions. *)

Places == Gone \cup {"new", "bootstrap", "ready", "open", "loop", "done",
                     "crashed", "save", "fail", "unfit"}

TypesRight ==
  /\ agent \in [Sessions -> Places]
  /\ verdicts \in [Sessions -> SUBSET UNION {Plan[s] : s \in Sessions}]
  /\ \A s \in Sessions : verdicts[s] \subseteq Plan[s]
  /\ unread \in [Sessions -> Nat]
  /\ requests \in Seq([to : Sessions, kind : {"start", "message"}])
  /\ failCount \in Nat

(* A coroutine that crashed, and is about to fail, has cost a failure.     *)
CrashesCounted ==
  \A s \in Sessions : agent[s] \in {"crashed", "fail"} => failCount >= 1

QueuesRegistered ==
  /\ \A s \in Sessions \ Autonomous : agent[s] \notin Gone => s \in inbox
  /\ \A i \in DOMAIN requests :
       requests[i].kind = "message" => requests[i].to \notin Autonomous

SessionInv == TypesRight /\ CrashesCounted /\ VerdictsComplete /\ QueuesRegistered

-----------------------------------------------------------------------------
LEMMA SessionInitInv == SessionInit => SessionInv
<1>. SUFFICES ASSUME SessionInit PROVE SessionInv
  OBVIOUS
<1>1. TypesRight
  BY DEF SessionInit, TypesRight, Places, Gone
<1>2. CrashesCounted /\ VerdictsComplete /\ QueuesRegistered
  BY SessionAssumption
     DEF SessionInit, CrashesCounted, VerdictsComplete, QueuesRegistered, Gone
<1>. QED
  BY <1>1, <1>2 DEF SessionInv

(* Steps of the routes and of sandboxes leave the coroutines alone.        *)
LEMMA RouteInv ==
  ASSUME SessionInv, UNCHANGED <<agent, inbox, unread, verdicts>>,
         failCount' \in Nat, failCount' >= failCount,
         \/ UNCHANGED requests
         \/ \E s \in Sessions : requests' = Append(requests, [to |-> s, kind |-> "start"])
         \/ \E s \in Sessions \ Autonomous :
              requests' = Append(requests, [to |-> s, kind |-> "message"])
  PROVE  SessionInv'
<1>1. TypesRight'
  <2>1. requests' \in Seq([to : Sessions, kind : {"start", "message"}])
    <3>1. \A s \in Sessions, k \in {"start", "message"} :
            [to |-> s, kind |-> k] \in [to : Sessions, kind : {"start", "message"}]
      OBVIOUS
    <3>2. ASSUME NEW m \in [to : Sessions, kind : {"start", "message"}]
          PROVE  Append(requests, m) \in Seq([to : Sessions, kind : {"start", "message"}])
      BY <3>2 DEF SessionInv, TypesRight
    <3>. QED
      BY <3>1, <3>2 DEF SessionInv, TypesRight
  <2>. QED
    BY <2>1 DEF SessionInv, TypesRight
<1>2. CrashesCounted'
  BY DEF SessionInv, TypesRight, CrashesCounted
<1>3. VerdictsComplete'
  BY DEF SessionInv, TypesRight, VerdictsComplete
<1>4. QueuesRegistered'
  <2>1. CASE UNCHANGED requests
    BY <2>1 DEF SessionInv, QueuesRegistered
  <2>2. ASSUME NEW m \in [to : Sessions, kind : {"start", "message"}],
               requests' = Append(requests, m),
               m.kind = "message" => m.to \notin Autonomous
        PROVE  QueuesRegistered'
    <3>1. \A i \in DOMAIN requests' :
            (i \in DOMAIN requests /\ requests'[i] = requests[i]) \/ requests'[i] = m
      BY <2>2 DEF SessionInv, TypesRight
    <3>. QED
      BY <2>2, <3>1 DEF SessionInv, QueuesRegistered
  <2>3. CASE \E s \in Sessions : requests' = Append(requests, [to |-> s, kind |-> "start"])
    <3>1. PICK s \in Sessions : requests' = Append(requests, [to |-> s, kind |-> "start"])
      BY <2>3
    <3>2. [to |-> s, kind |-> "start"].kind # "message"
      OBVIOUS
    <3>. QED
      BY <2>2, <3>1, <3>2
  <2>4. CASE \E s \in Sessions \ Autonomous :
               requests' = Append(requests, [to |-> s, kind |-> "message"])
    BY <2>2, <2>4
  <2>. QED
    BY <2>1, <2>3, <2>4
<1>. QED
  BY <1>1, <1>2, <1>3, <1>4 DEF SessionInv

-----------------------------------------------------------------------------
(* The consumer.                                                           *)
LEMMA TakeInv == ASSUME SessionInv, ConsumerTakes PROVE SessionInv'
<1>1. /\ requests # <<>> /\ requests' = Tail(requests)
      /\ UNCHANGED verdicts /\ UNCHANGED failCount
  BY DEF ConsumerTakes, TakeStart, TakeMessage
<1>2. /\ Head(requests) \in [to : Sessions, kind : {"start", "message"}]
      /\ requests' \in Seq([to : Sessions, kind : {"start", "message"}])
      /\ \A i \in DOMAIN requests' : requests'[i] = requests[i + 1] /\ i + 1 \in DOMAIN requests
  <2>. DEFINE R == [to : Sessions, kind : {"start", "message"}]
  <2>1. requests \in Seq(R)
    BY DEF SessionInv, TypesRight
  <2>. HIDE DEF R
  <2>2. /\ Head(requests) \in R /\ requests' \in Seq(R)
        /\ \A i \in DOMAIN requests' : requests'[i] = requests[i + 1] /\ i + 1 \in DOMAIN requests
    BY <1>1, <2>1
  <2>. QED
    BY <2>2 DEF R
<1>3. PICK s \in Sessions : s = Head(requests).to
  BY <1>2
<1>4. \A i \in DOMAIN requests' :
        requests'[i].kind = "message" => requests'[i].to \notin Autonomous
  BY <1>2 DEF SessionInv, QueuesRegistered
<1>5. CASE TakeStart
  <2>1. /\ agent' = [agent EXCEPT ![s] = "new"]
        /\ inbox' = inbox \cup ({s} \ Autonomous) /\ UNCHANGED unread
    BY <1>3, <1>5 DEF TakeStart, Move
  <2>2. /\ agent' \in [Sessions -> Places] /\ agent'[s] = "new"
        /\ \A z \in Sessions \ {s} : agent'[z] = agent[z]
    BY <2>1 DEF SessionInv, TypesRight, Places
  <2>3. TypesRight'
    BY <1>1, <1>2, <2>1, <2>2 DEF SessionInv, TypesRight
  <2>4. CrashesCounted' /\ VerdictsComplete'
    BY <1>1, <2>2, SessionAssumption DEF SessionInv, CrashesCounted, VerdictsComplete
  <2>5. QueuesRegistered'
    BY <1>4, <2>1, <2>2 DEF SessionInv, QueuesRegistered
  <2>. QED
    BY <2>3, <2>4, <2>5 DEF SessionInv
<1>6. CASE TakeMessage
  <2>1. UNCHANGED agent /\ UNCHANGED inbox /\ unread' \in [Sessions -> Nat]
    BY <1>3, <1>6 DEF TakeMessage, SessionInv, TypesRight
  <2>. QED
    BY <1>1, <1>2, <1>4, <2>1
       DEF SessionInv, TypesRight, CrashesCounted, VerdictsComplete, QueuesRegistered
<1>. QED
  BY <1>5, <1>6 DEF ConsumerTakes

-----------------------------------------------------------------------------
(* A step of one coroutine: it moves, keeps its queue or goes with it.     *)
CountGrows == failCount' \in Nat /\ failCount' >= failCount

QueueFollows(s, p) ==
  /\ unread' \in [Sessions -> Nat]
  /\ IF p \in Gone THEN inbox' = inbox \ {s} ELSE UNCHANGED inbox

LEMMA CoroutineInv ==
  ASSUME SessionInv, NEW s \in Sessions, NEW p \in Places, Move(s, p),
         agent[s] \notin Gone, UNCHANGED requests, QueueFollows(s, p), CountGrows,
         NEW V \in SUBSET Plan[s], verdicts' = [verdicts EXCEPT ![s] = V],
         p \in {"crashed", "fail"} => failCount' >= 1,
         p \in {"save", "fail"} /\ s \in Autonomous =>
           V = Plan[s] \/ failCount' > IF p = "fail" THEN 1 ELSE 0
  PROVE  SessionInv'
<1>1. /\ agent' \in [Sessions -> Places] /\ agent'[s] = p
      /\ \A z \in Sessions \ {s} : agent'[z] = agent[z]
  BY DEF SessionInv, TypesRight, Move
<1>2. /\ verdicts' \in [Sessions -> SUBSET UNION {Plan[z] : z \in Sessions}]
      /\ verdicts'[s] = V
      /\ \A z \in Sessions \ {s} : verdicts'[z] = verdicts[z]
  <2>1. V \in SUBSET UNION {Plan[z] : z \in Sessions}
    OBVIOUS
  <2>. QED
    BY <2>1 DEF SessionInv, TypesRight
<1>3. TypesRight'
  <2>1. failCount' \in Nat /\ unread' \in [Sessions -> Nat]
    BY DEF QueueFollows, CountGrows
  <2>2. TypesRight
    BY DEF SessionInv
  <2>3. \A z \in Sessions : verdicts'[z] \subseteq Plan[z]
    BY <1>2, <2>2 DEF TypesRight
  <2>4. requests' \in Seq([to : Sessions, kind : {"start", "message"}])
    BY <2>2 DEF TypesRight
  <2>. QED
    BY <1>1, <1>2, <2>1, <2>3, <2>4 DEF TypesRight
<1>4. CrashesCounted'
  <2>1. \A z \in Sessions : agent[z] \in {"crashed", "fail"} => failCount >= 1
    BY DEF SessionInv, CrashesCounted
  <2>2. failCount \in Nat /\ failCount' \in Nat /\ failCount' >= failCount
    BY DEF SessionInv, TypesRight, CountGrows
  <2>. QED
    BY <1>1, <2>1, <2>2 DEF CrashesCounted
<1>5. VerdictsComplete'
  <2>1. ASSUME NEW z \in Autonomous, agent'[z] \in {"save", "fail"}
        PROVE  verdicts'[z] = Plan[z] \/ failCount' > IF agent'[z] = "fail" THEN 1 ELSE 0
    <3>1. CASE z = s
      BY <1>1, <1>2, <2>1, <3>1
    <3>2. CASE z # s
      BY <1>1, <1>2, <2>1, <3>2, SessionAssumption
         DEF SessionInv, TypesRight, VerdictsComplete, CountGrows
    <3>. QED
      BY <3>1, <3>2
  <2>. QED
    BY <2>1 DEF VerdictsComplete
<1>6. QueuesRegistered'
  BY <1>1 DEF SessionInv, QueuesRegistered, QueueFollows
<1>. QED
  BY <1>3, <1>4, <1>5, <1>6 DEF SessionInv

(* A coroutine that moves and records nothing.                             *)
LEMMA MoveInv ==
  ASSUME SessionInv, NEW s \in Sessions, NEW p \in Places, Move(s, p),
         agent[s] \notin Gone, UNCHANGED requests, QueueFollows(s, p), CountGrows,
         UNCHANGED verdicts, p # "fail", p = "crashed" => failCount' >= 1,
         p = "save" => s \notin Autonomous
  PROVE  SessionInv'
<1>1. verdicts[s] \in SUBSET Plan[s] /\ verdicts' = [verdicts EXCEPT ![s] = verdicts[s]]
  BY DEF SessionInv, TypesRight
<1>. QED
  BY <1>1, CoroutineInv

LEMMA CoroutineHolds ==
  ASSUME SessionInv, NEW s \in Sessions
  PROVE  /\ UNCHANGED agent => Move(s, agent[s])
         /\ UNCHANGED failCount \/ Raises => CountGrows
         /\ Raises => failCount' >= 1 /\ failCount' = failCount + 1
         /\ agent[s] = "crashed" => failCount >= 1
         /\ failCount \in Nat
         /\ \A p : Leave(s, p) /\ p \in Gone => Move(s, p) /\ QueueFollows(s, p)
         /\ \A p : UNCHANGED <<inbox, unread>> /\ p \notin Gone => QueueFollows(s, p)
<1>1. failCount \in Nat /\ unread \in [Sessions -> Nat] /\ agent \in [Sessions -> Places]
  BY DEF SessionInv, TypesRight
<1>. QED
  BY <1>1 DEF SessionInv, CrashesCounted, Raises, CountGrows, Move, Leave, QueueFollows

(* Moves between the points of the coroutine before its loop.              *)
LEMMA ProceedInv ==
  ASSUME SessionInv, NEW s \in Sessions,
         \/ Begin(s) \/ SeesReady(s) \/ GivesUp(s) \/ BindSandbox(s) \/ Open(s)
  PROVE  SessionInv'
<1>1. PICK p \in {"bootstrap", "open", "ready", "unfit", "loop"} : Move(s, p)
  BY DEF Begin, SeesReady, GivesUp, BindSandbox, Open
<1>2. /\ agent[s] \in {"new", "bootstrap", "ready", "open"}
      /\ UNCHANGED requests /\ UNCHANGED <<inbox, unread>>
      /\ UNCHANGED verdicts /\ UNCHANGED failCount
  BY DEF Begin, SeesReady, GivesUp, BindSandbox, Open, RunKeeps
<1>3. p \in Places /\ p \notin Gone /\ agent[s] \notin Gone /\ p \notin {"crashed", "save", "fail"}
  BY <1>1, <1>2 DEF Places, Gone
<1>4. QueueFollows(s, p) /\ CountGrows
  BY <1>2, <1>3, CoroutineHolds
<1>. QED
  BY <1>1, <1>2, <1>3, <1>4, MoveInv

LEMMA LoopInv ==
  ASSUME SessionInv, NEW s \in Sessions,
         RecordVerdict(s) \/ Answer(s) \/ LoopEnds(s) \/ LoopRaises(s)
  PROVE  SessionInv'
<1>1. agent[s] = "loop" /\ UNCHANGED requests
  BY DEF RecordVerdict, Answer, LoopEnds, LoopRaises, RunKeeps
<1>2. agent[s] \notin Gone /\ "broken" \in Places /\ "broken" \in Gone
  BY <1>1 DEF Places, Gone
<1>3. \A p \in {"loop", "done", "save", "crashed"} : p \in Places /\ p \notin Gone
  BY DEF Places, Gone
<1>4. CASE RecordVerdict(s)
  <2>1. PICK V \in SUBSET Plan[s] : verdicts' = [verdicts EXCEPT ![s] = V]
    <3>1. PICK t \in Plan[s] : verdicts' = [verdicts EXCEPT ![s] = verdicts[s] \cup {t}]
      BY <1>4 DEF RecordVerdict, SessionInv, TypesRight
    <3>2. verdicts[s] \cup {t} \in SUBSET Plan[s]
      BY DEF SessionInv, TypesRight
    <3>. QED
      BY <3>1, <3>2
  <2>2. UNCHANGED agent /\ UNCHANGED <<inbox, unread>> /\ UNCHANGED failCount
    BY <1>4 DEF RecordVerdict
  <2>3. Move(s, "loop") /\ QueueFollows(s, "loop") /\ CountGrows
    BY <1>1, <1>3, <2>2, CoroutineHolds
  <2>. QED
    BY <1>1, <1>2, <1>3, <2>1, <2>3, CoroutineInv
<1>5. CASE Answer(s)
  <2>1. /\ UNCHANGED agent /\ UNCHANGED inbox /\ UNCHANGED verdicts /\ UNCHANGED failCount
        /\ unread[s] > 0 /\ unread' = [unread EXCEPT ![s] = unread[s] - 1]
    BY <1>5 DEF Answer, SessionInv, TypesRight
  <2>2. unread' \in [Sessions -> Nat]
    BY <2>1 DEF SessionInv, TypesRight
  <2>3. Move(s, "loop") /\ CountGrows
    BY <1>1, <2>1, CoroutineHolds
  <2>4. QueueFollows(s, "loop")
    BY <1>3, <2>1, <2>2 DEF QueueFollows
  <2>. QED
    BY <1>1, <1>2, <1>3, <2>1, <2>3, <2>4, MoveInv
<1>6. CASE LoopEnds(s)
  <2>1. PICK p \in {"done", "save"} : Move(s, p) /\ (p = "save" => s \notin Autonomous)
    BY <1>6 DEF LoopEnds
  <2>2. UNCHANGED <<inbox, unread>> /\ UNCHANGED verdicts /\ UNCHANGED failCount
    BY <1>6 DEF LoopEnds
  <2>3. QueueFollows(s, p) /\ CountGrows
    BY <1>3, <2>2, CoroutineHolds
  <2>. QED
    BY <1>1, <1>2, <1>3, <2>1, <2>2, <2>3, MoveInv
<1>7. CASE LoopRaises(s)
  <2>1. UNCHANGED verdicts /\ CountGrows /\ failCount' >= 1
    BY <1>7, CoroutineHolds DEF LoopRaises
  <2>2. CASE Move(s, "crashed") /\ UNCHANGED <<inbox, unread>>
    BY <1>1, <1>2, <1>3, <2>1, <2>2, CoroutineHolds, MoveInv
  <2>3. CASE Leave(s, "broken")
    BY <1>1, <1>2, <2>1, <2>3, CoroutineHolds, MoveInv
  <2>. QED
    BY <1>7, <2>2, <2>3 DEF LoopRaises
<1>. QED
  BY <1>4, <1>5, <1>6, <1>7

(* What has no verdict gets one; if the database refuses that costs one    *)
(* failure more.                                                           *)
LEMMA RecordMissingInv ==
  ASSUME SessionInv, NEW s \in Sessions, RecordMissing(s)
  PROVE  SessionInv'
<1>1. /\ agent[s] \in {"done", "crashed"}
      /\ UNCHANGED requests /\ UNCHANGED <<inbox, unread>>
  BY DEF RecordMissing, RunKeeps
<1>2. PICK p \in {"save", "fail"} : Move(s, p) /\ (p = "fail" => agent[s] = "crashed")
  BY <1>1 DEF RecordMissing
<1>3. p \in Places /\ p \notin Gone /\ agent[s] \notin Gone
  BY <1>1 DEF Places, Gone
<1>4. (p = "fail" => failCount >= 1) /\ QueueFollows(s, p) /\ failCount \in Nat
  BY <1>1, <1>2, <1>3, CoroutineHolds
<1>5. CASE verdicts' = [verdicts EXCEPT ![s] = Plan[s]] /\ UNCHANGED failCount
  <2>1. CountGrows /\ (p = "fail" => failCount' >= 1) /\ Plan[s] \in SUBSET Plan[s]
    BY <1>4, <1>5, CoroutineHolds
  <2>. QED
    BY <1>1, <1>2, <1>3, <1>4, <1>5, <2>1, CoroutineInv
<1>6. CASE Raises /\ UNCHANGED verdicts
  <2>1. failCount' = failCount + 1 /\ CountGrows
    BY <1>6, CoroutineHolds
  <2>2. (p = "fail" => failCount' > 1) /\ failCount' > 0
    BY <1>4, <2>1
  <2>3. verdicts[s] \in SUBSET Plan[s] /\ verdicts' = [verdicts EXCEPT ![s] = verdicts[s]]
    BY <1>6 DEF SessionInv, TypesRight
  <2>4. (p = "fail" => failCount' >= 1) /\ failCount' > IF p = "fail" THEN 1 ELSE 0
    BY <1>4, <2>1, <2>2
  <2>. QED
    BY <1>1, <1>2, <1>3, <1>4, <2>1, <2>3, <2>4, CoroutineInv
<1>. QED
  BY <1>5, <1>6 DEF RecordMissing

(* The coroutine ends and its queue with it.                               *)
LEMMA EndInv ==
  ASSUME SessionInv, NEW s \in Sessions,
         SeesAbort(s) \/ SaveSession(s) \/ CallRaises(s)
  PROVE  SessionInv'
<1>1. /\ agent[s] \in {"bootstrap", "save", "fail", "unfit", "ready", "open"}
      /\ UNCHANGED requests /\ UNCHANGED verdicts
      /\ UNCHANGED failCount \/ Raises
  BY DEF SeesAbort, SaveSession, CallRaises, RunKeeps
<1>2. CountGrows /\ agent[s] \notin Gone
  BY <1>1, CoroutineHolds DEF Gone
<1>3. ASSUME NEW p \in {"cancelled", "ended", "broken"}, Leave(s, p)
      PROVE  SessionInv'
  <2>1. p \in Places /\ p \in Gone /\ p \notin {"crashed", "fail", "save"}
    BY DEF Places, Gone
  <2>2. Move(s, p) /\ QueueFollows(s, p)
    BY <1>3, <2>1, CoroutineHolds
  <2>. QED
    BY <1>1, <1>2, <2>1, <2>2, MoveInv
<1>4. CASE Move(s, "unfit") /\ UNCHANGED <<inbox, unread>>
  <2>1. "unfit" \in Places /\ "unfit" \notin Gone
    BY DEF Places, Gone
  <2>2. QueueFollows(s, "unfit")
    BY <1>4, <2>1, CoroutineHolds
  <2>. QED
    BY <1>1, <1>2, <1>4, <2>1, <2>2, MoveInv
<1>. QED
  BY <1>3, <1>4 DEF SeesAbort, SaveSession, CallRaises

LEMMA CrashInv == ASSUME SessionInv, AgentCrash PROVE SessionInv'
<1>1. /\ UNCHANGED requests /\ UNCHANGED verdicts
      /\ failCount' \in Nat /\ failCount' >= failCount
      /\ agent' = [s \in Sessions |-> IF agent[s] \in Gone THEN agent[s] ELSE "lost"]
      /\ unread' = [s \in Sessions |-> 0]
  BY DEF AgentCrash, RunKeeps, Raises, SessionInv, TypesRight
<1>2. \A s \in Sessions : agent'[s] \in Gone
  BY <1>1 DEF Gone
<1>3. agent' \in [Sessions -> Places]
  BY <1>1, <1>2 DEF Places
<1>. QED
  BY <1>1, <1>2, <1>3, SessionAssumption
     DEF SessionInv, TypesRight, CrashesCounted, VerdictsComplete, QueuesRegistered, Gone

LEMMA SessionStepInv == SessionInv /\ [SessionNext]_sessionVars => SessionInv'
<1>. SUFFICES ASSUME SessionInv, [SessionNext]_sessionVars PROVE SessionInv'
  OBVIOUS
<1>0. failCount \in Nat
  BY DEF SessionInv, TypesRight
<1>1. ASSUME NEW s \in Sessions,
             \/ Create(s) \/ CreateFails(s) \/ SendMessage(s) \/ CancelSession(s)
             \/ SandboxComes(s) \/ SweepCloses(s)
      PROVE  SessionInv'
  <2>1. UNCHANGED <<agent, inbox, unread, verdicts>>
    BY <1>1 DEF Create, CreateRun, TagRun, InsertSession, SendRequest, CreateFails,
                SendMessage, CancelSession, SandboxComes, SweepCloses, agentState
  <2>2. failCount' \in Nat /\ failCount' >= failCount
    BY <1>0, <1>1 DEF Create, CreateRun, TagRun, InsertSession, SendRequest, CreateFails,
                SendMessage, CancelSession, SandboxComes, SweepCloses, Raises
  <2>3. \/ UNCHANGED requests
        \/ requests' = Append(requests, [to |-> s, kind |-> "start"])
        \/ s \notin Autonomous /\ requests' = Append(requests, [to |-> s, kind |-> "message"])
    BY <1>1 DEF Create, CreateRun, TagRun, InsertSession, SendRequest, CreateFails,
                SendMessage, CancelSession, SandboxComes, SweepCloses
  <2>. QED
    BY <2>1, <2>2, <2>3, RouteInv
<1>2. ASSUME NEW s \in Sessions, Proceed(s) PROVE SessionInv'
  BY <1>2, ProceedInv, LoopInv, RecordMissingInv, EndInv DEF Proceed
<1>3. ASSUME NEW s \in Sessions, RecordVerdict(s) \/ LoopRaises(s) \/ CallRaises(s)
      PROVE  SessionInv'
  BY <1>3, LoopInv, EndInv
<1>4. CASE ConsumerTakes
  BY <1>4, TakeInv
<1>5. CASE AgentCrash
  BY <1>5, CrashInv
<1>6. CASE UNCHANGED sessionVars
  BY <1>0, <1>6, RouteInv DEF sessionVars, agentState
<1>. QED
  BY <1>1, <1>2, <1>3, <1>4, <1>5, <1>6 DEF SessionNext

-----------------------------------------------------------------------------
(* When an autonomous session is about to write its last status, whether   *)
(* its loop ended or crashed, each test of its plan has a verdict, unless  *)
(* the database refused them (session_manager.py:205-233).                 *)
THEOREM VerdictTableComplete == SessionSpec => []VerdictsComplete
<1>1. SessionInv => VerdictsComplete
  BY DEF SessionInv
<1>. QED
  BY <1>1, SessionInitInv, SessionStepInv, PTL DEF SessionSpec

(* No message of a user is dropped while its session has a coroutine       *)
(* (session_manager.py and the consumer of ai.requests).                   *)
THEOREM NoMessageDropped == SessionSpec => MessagesReachSessions
<1>1. ASSUME SessionInv, NEW s \in Sessions, MessageDropped(s), SessionNext
      PROVE  agent[s] \in Gone
  <2>1. /\ requests # <<>> /\ Head(requests).kind = "message" /\ Head(requests).to = s
        /\ requests' = Tail(requests) /\ unread' = unread
    BY <1>1 DEF MessageDropped
  <2>2. s \notin Autonomous
    BY <1>1, <2>1 DEF SessionInv, TypesRight, QueuesRegistered
  <2>3. Len(requests) > 0 /\ requests \in Seq([to : Sessions, kind : {"start", "message"}])
    BY <1>1, <2>1 DEF SessionInv, TypesRight
  <2>4. requests' # requests
    BY <2>1, <2>3
  <2>5. CASE TakeMessage
    <3>1. s \notin inbox
      BY <1>1, <2>1, <2>5 DEF TakeMessage, SessionInv, TypesRight
    <3>. QED
      BY <1>1, <2>2, <3>1 DEF SessionInv, QueuesRegistered
  <2>6. ~ TakeStart
    BY <2>1 DEF TakeStart
  <2>7. ASSUME NEW z \in Sessions,
               \/ Create(z) \/ CreateFails(z) \/ SendMessage(z) \/ CancelSession(z)
               \/ SandboxComes(z) \/ SweepCloses(z)
        PROVE  Len(requests') >= Len(requests)
    BY <2>3, <2>7 DEF Create, CreateRun, TagRun, InsertSession, SendRequest, CreateFails,
                SendMessage, CancelSession, SandboxComes, SweepCloses
  <2>8. Len(requests') < Len(requests)
    BY <2>1, <2>3
  <2>9. ASSUME NEW z \in Sessions,
               Proceed(z) \/ RecordVerdict(z) \/ LoopRaises(z) \/ CallRaises(z)
        PROVE  UNCHANGED requests
    BY <2>9 DEF Proceed, Begin, SeesAbort, SeesReady, GivesUp, BindSandbox, Open, Answer,
                LoopEnds, RecordMissing, SaveSession, RecordVerdict, LoopRaises,
                CallRaises, RunKeeps
  <2>10. ~ AgentCrash
    BY <2>4 DEF AgentCrash, RunKeeps
  <2>. QED
    BY <1>1, <2>3, <2>4, <2>5, <2>6, <2>7, <2>8, <2>9, <2>10 DEF SessionNext, ConsumerTakes
<1>2. SessionInv /\ [SessionNext]_sessionVars
        => [\A s \in Sessions : MessageDropped(s) => agent[s] \in Gone]_sessionVars
  BY <1>1
<1>. QED
  BY <1>2, SessionInitInv, SessionStepInv, PTL DEF SessionSpec, MessagesReachSessions

-----------------------------------------------------------------------------
(* The history of the loop. *)

(* The history.  A message of calls has its results behind it, and results *)
(* have their calls before them; only the last message may wait.           *)
Answered(m, last) ==
  /\ \A i \in DOMAIN m : m[i].kind = "use" /\ i < last =>
       i < Len(m) /\ m[i + 1].kind = "results"
  /\ \A i \in DOMAIN m : m[i].kind = "results" => i > 1 /\ m[i - 1].kind = "use"

(* What comes after the first two messages of a session without a user.    *)
Turns(m, last) == \A i \in DOMAIN m : i > 2 /\ i < last => m[i].kind \in {"use", "results"}

EndOf(m) == m[Len(m)].kind

HistoryInv ==
  /\ solo \in BOOLEAN
  /\ messages \in Seq(Message)
  /\ phase \in {"idle", "check", "model", "tools", "over", "raised"}
  /\ phase = "check" => solo
  /\ phase = "idle" => ~ solo
  /\ phase \in {"idle", "check", "model"} => Answered(messages, Len(messages) + 1)
  /\ solo /\ phase \in {"check", "model"} =>
       /\ Turns(messages, Len(messages) + 1)
       /\ Len(messages) > 0 /\ (Len(messages) > 1 => EndOf(messages) = "results")
  /\ phase = "tools" =>
       /\ messages # <<>> /\ EndOf(messages) \in {"say", "use"}
       /\ Answered(messages, Len(messages))
       /\ stop = "tool_use" => EndOf(messages) = "use"
       /\ solo => Turns(messages, Len(messages))

(* n is m and one message behind it.                                       *)
Extends(m, n, k) ==
  /\ n \in Seq(Message) /\ Len(m) \in Nat /\ Len(n) = Len(m) + 1
  /\ DOMAIN m = 1..Len(m) /\ DOMAIN n = 1..(Len(m) + 1)
  /\ \A i \in 1..Len(m) : n[i] = m[i]
  /\ n[Len(m) + 1].kind = k

LEMMA Appended ==
  ASSUME NEW m \in Seq(Message), NEW n, NEW k \in {"ask", "say", "use", "results"},
         n = m \o Msg(k)
  PROVE  Extends(m, n, k)
<1>1. [kind |-> k] \in Message /\ [kind |-> k].kind = k
  BY DEF Message
<1>2. PICK x \in Message : x.kind = k /\ n = m \o <<x>>
  BY <1>1 DEF Msg
<1>3. /\ m \o <<x>> \in Seq(Message) /\ Len(m \o <<x>>) = Len(m) + 1
      /\ \A i \in 1..Len(m) : (m \o <<x>>)[i] = m[i]
      /\ (m \o <<x>>)[Len(m) + 1] = x
      /\ Len(m) \in Nat /\ DOMAIN m = 1..Len(m)
  OBVIOUS
<1>4. DOMAIN n = 1..Len(n)
  BY <1>2, <1>3
<1>. QED
  BY <1>2, <1>3, <1>4 DEF Extends

(* A message that is no result comes behind a history that waits for none. *)
LEMMA AnsweredBeforeTurn ==
  ASSUME NEW m, NEW n, NEW k \in {"ask", "say", "use"},
         Extends(m, n, k), Answered(m, Len(m) + 1)
  PROVE  Answered(n, Len(n)) /\ (k # "use" => Answered(n, Len(n) + 1))
BY DEF Extends, Answered

(* The results come behind their calls.                                    *)
LEMMA AnsweredAfterTurn ==
  ASSUME NEW m, NEW n, Extends(m, n, "results"), Len(m) > 0,
         Answered(m, Len(m)), EndOf(m) = "use"
  PROVE  Answered(n, Len(n) + 1)
BY DEF Extends, Answered, EndOf

LEMMA TurnsGrow ==
  ASSUME NEW m, NEW n, NEW k \in {"ask", "say", "use", "results"}, Extends(m, n, k)
  PROVE  /\ Turns(m, Len(m) + 1) => Turns(n, Len(n))
         /\ Turns(m, Len(m)) /\ EndOf(m) = "use" /\ k = "results" => Turns(n, Len(n) + 1)
BY DEF Extends, Turns, EndOf

LEMMA HistoryInit == LoopInit => HistoryInv
<1>. SUFFICES ASSUME LoopInit PROVE HistoryInv
  OBVIOUS
<1>1. CASE solo
  <2>1. messages = <<[kind |-> "ask"]>> /\ phase = "check"
    BY <1>1 DEF LoopInit, Msg
  <2>2. messages \in Seq(Message) /\ Len(messages) = 1 /\ messages[1].kind = "ask"
    BY <2>1 DEF Message
  <2>. QED
    BY <1>1, <2>1, <2>2 DEF HistoryInv, Answered, Turns
<1>2. CASE ~ solo
  BY <1>2 DEF LoopInit, HistoryInv, Answered
<1>. QED
  BY <1>1, <1>2

(* The last four messages begin with calls.                                *)
LEMMA CompressedAnswered ==
  ASSUME messages \in Seq(Message), Len(messages) > 6,
         Answered(messages, Len(messages) + 1), Turns(messages, Len(messages) + 1),
         EndOf(messages) = "results"
  PROVE  /\ Compressed \in Seq(Message)
         /\ Answered(Compressed, Len(Compressed) + 1)
         /\ Turns(Compressed, Len(Compressed) + 1)
         /\ Len(Compressed) > 1 /\ EndOf(Compressed) = "results"
<1>. DEFINE L == Len(messages)
            tail == SubSeq(messages, L - 3, L)
<1>1. /\ messages[L].kind = "results" /\ messages[L - 1].kind = "use"
      /\ messages[L - 2].kind = "results" /\ messages[L - 3].kind = "use"
  <2>1. L \in Nat /\ L > 6 /\ {L, L - 1, L - 2, L - 3} \subseteq DOMAIN messages
    OBVIOUS
  <2>2. messages[L].kind = "results"
    BY DEF EndOf
  <2>3. messages[L - 1].kind = "use"
    <3>1. \A i \in DOMAIN messages :
            messages[i].kind = "results" => messages[i - 1].kind = "use"
      BY DEF Answered
    <3>. QED
      BY <2>1, <2>2, <3>1
  <2>4. messages[L - 2].kind # "use"
    <3>1. (L - 2) + 1 = L - 1 /\ L - 2 < L + 1
      BY <2>1
    <3>. QED
      BY <2>1, <2>3, <3>1 DEF Answered
  <2>5. messages[L - 2].kind = "results"
    BY <2>1, <2>4 DEF Turns
  <2>6. messages[L - 3].kind = "use"
    <3>1. (L - 2) - 1 = L - 3
      BY <2>1
    <3>. QED
      BY <2>1, <2>5, <3>1 DEF Answered
  <2>. QED
    BY <2>2, <2>3, <2>5, <2>6
<1>2. /\ tail \in Seq(Message) /\ Len(tail) = 4
      /\ tail[1] = messages[L - 3] /\ tail[2] = messages[L - 2]
      /\ tail[3] = messages[L - 1] /\ tail[4] = messages[L]
  OBVIOUS
<1>. HIDE DEF tail, L
<1>3. /\ [kind |-> "ask"] \in Message /\ [kind |-> "say"] \in Message
      /\ [kind |-> "ask"].kind = "ask" /\ [kind |-> "say"].kind = "say"
  BY DEF Message
<1>4. PICK a \in Message, b \in Message :
        a.kind = "ask" /\ b.kind = "say" /\ Compressed = (<<a>> \o <<b>>) \o tail
  BY <1>3 DEF Compressed, Msg, tail, L
<1>5. /\ Compressed \in Seq(Message) /\ Len(Compressed) = 6
      /\ Compressed[1] = a /\ Compressed[2] = b
      /\ Compressed[3] = tail[1] /\ Compressed[4] = tail[2]
      /\ Compressed[5] = tail[3] /\ Compressed[6] = tail[4]
  <2>1. /\ <<a>> \o <<b>> \in Seq(Message) /\ Len(<<a>> \o <<b>>) = 2
        /\ (<<a>> \o <<b>>)[1] = a /\ (<<a>> \o <<b>>)[2] = b
    OBVIOUS
  <2>2. PICK ab \in Seq(Message) :
          Len(ab) = 2 /\ ab[1] = a /\ ab[2] = b /\ Compressed = ab \o tail
    BY <1>4, <2>1
  <2>3. /\ ab \o tail \in Seq(Message) /\ Len(ab \o tail) = 6
        /\ (ab \o tail)[1] = ab[1] /\ (ab \o tail)[2] = ab[2]
        /\ (ab \o tail)[3] = tail[1] /\ (ab \o tail)[4] = tail[2]
        /\ (ab \o tail)[5] = tail[3] /\ (ab \o tail)[6] = tail[4]
    <3>0. /\ ab \o tail \in Seq(Message) /\ Len(ab \o tail) = Len(ab) + Len(tail)
          /\ \A i \in 1..Len(ab) + Len(tail) :
               (ab \o tail)[i] = IF i <= Len(ab) THEN ab[i] ELSE tail[i - Len(ab)]
      BY <1>2, ConcatProperties, Zenon
    <3>1. /\ ab \o tail \in Seq(Message) /\ Len(ab \o tail) = 6
          /\ \A i \in 1..6 : (ab \o tail)[i] = IF i <= 2 THEN ab[i] ELSE tail[i - 2]
      BY <1>2, <2>2, <3>0
    <3>2. (ab \o tail)[1] = ab[1] /\ (ab \o tail)[2] = ab[2]
      BY <3>1
    <3>3. (ab \o tail)[3] = tail[1] /\ (ab \o tail)[4] = tail[2]
      BY <3>1
    <3>4. (ab \o tail)[5] = tail[3] /\ (ab \o tail)[6] = tail[4]
      BY <3>1
    <3>. QED
      BY <3>1, <3>2, <3>3, <3>4
  <2>. QED
    BY <2>2, <2>3
<1>6. /\ Compressed[1].kind = "ask" /\ Compressed[2].kind = "say"
      /\ Compressed[3].kind = "use" /\ Compressed[4].kind = "results"
      /\ Compressed[5].kind = "use" /\ Compressed[6].kind = "results"
  BY <1>1, <1>2, <1>4, <1>5
<1>. HIDE DEF Compressed
<1>7. DOMAIN Compressed = 1..6 /\ \A i \in 1..6 : i \in {1, 2, 3, 4, 5, 6}
  BY <1>5
<1>8. Answered(Compressed, 7)
  BY <1>5, <1>6, <1>7 DEF Answered
<1>9. Turns(Compressed, 7)
  BY <1>6, <1>7 DEF Turns
<1>. QED
  BY <1>5, <1>6, <1>8, <1>9 DEF EndOf

LEMMA HistoryStep == HistoryInv /\ [LoopNext]_loopVars => HistoryInv'
<1>. SUFFICES ASSUME HistoryInv, [LoopNext]_loopVars PROVE HistoryInv'
  OBVIOUS
<1>1. ASSUME UNCHANGED <<solo, messages, stop>>,
             UNCHANGED phase \/ phase' \in {"over", "raised"}
      PROVE  HistoryInv'
  BY <1>1 DEF HistoryInv, Answered, Turns, EndOf
<1>2. CASE TimePasses
  BY <1>1, <1>2 DEF TimePasses, historyVars, turnVars
<1>3. CASE Ask
  <2>1. /\ phase = "idle" /\ phase' = "model" /\ UNCHANGED solo
        /\ messages' = messages \o Msg("ask")
    BY <1>3 DEF Ask
  <2>2. messages \in Seq(Message) /\ Answered(messages, Len(messages) + 1) /\ ~ solo
    BY <2>1 DEF HistoryInv
  <2>3. Extends(messages, messages', "ask")
    BY <2>1, <2>2, Appended
  <2>4. Answered(messages', Len(messages') + 1) /\ messages' \in Seq(Message)
    BY <2>2, <2>3, AnsweredBeforeTurn DEF Extends
  <2>. QED
    BY <2>1, <2>2, <2>4 DEF HistoryInv
<1>4. CASE CheckLimits
  <2>1. phase = "check" /\ solo /\ UNCHANGED <<solo, stop>>
    BY <1>4 DEF CheckLimits, turnVars, HistoryInv
  <2>2. CASE phase' \in {"over", "raised"} /\ UNCHANGED messages
    BY <1>1, <2>1, <2>2
  <2>3. CASE phase' = "model" /\ UNCHANGED messages
    BY <2>1, <2>3 DEF HistoryInv, Answered, Turns, EndOf
  <2>4. CASE Len(messages) > 6 /\ messages' = Compressed /\ phase' = "model"
    <3>1. /\ messages \in Seq(Message) /\ Answered(messages, Len(messages) + 1)
          /\ Turns(messages, Len(messages) + 1) /\ EndOf(messages) = "results"
      BY <2>1, <2>4 DEF HistoryInv
    <3>2. /\ messages' \in Seq(Message)
          /\ Answered(messages', Len(messages') + 1)
          /\ Turns(messages', Len(messages') + 1)
          /\ Len(messages') > 1 /\ EndOf(messages') = "results"
      BY <2>4, <3>1, CompressedAnswered
    <3>. QED
      BY <2>1, <2>4, <3>2 DEF HistoryInv
  <2>. QED
    BY <1>4, <2>2, <2>3, <2>4 DEF CheckLimits, historyVars
<1>5. CASE ModelAnswers
  <2>1. /\ phase = "model" /\ phase' = "tools" /\ UNCHANGED solo
        /\ messages' = messages \o Msg(IF answer' = <<>> THEN "say" ELSE "use")
    BY <1>5 DEF ModelAnswers
  <2>2. stop' = "tool_use" => answer' # <<>>
    BY <1>5 DEF ModelAnswers
  <2>3. PICK k \in {"say", "use"} :
          messages' = messages \o Msg(k) /\ (stop' = "tool_use" => k = "use")
    BY <2>1, <2>2
  <2>4. messages \in Seq(Message) /\ Answered(messages, Len(messages) + 1)
    BY <2>1 DEF HistoryInv
  <2>5. Extends(messages, messages', k)
    BY <2>3, <2>4, Appended
  <2>6. /\ messages' \in Seq(Message) /\ messages' # <<>> /\ EndOf(messages') = k
    BY <2>5 DEF Extends, EndOf
  <2>7. Answered(messages', Len(messages'))
    BY <2>4, <2>5, AnsweredBeforeTurn
  <2>8. solo => Turns(messages', Len(messages'))
    BY <2>1, <2>5, TurnsGrow DEF HistoryInv
  <2>. QED
    BY <2>1, <2>3, <2>6, <2>7, <2>8 DEF HistoryInv
<1>6. CASE ModelFails
  BY <1>1, <1>6 DEF ModelFails, historyVars
<1>7. CASE ExecuteTool
  BY <1>1, <1>7 DEF ExecuteTool, historyVars
<1>8. CASE EndTurn
  <2>1. /\ phase = "tools" /\ UNCHANGED solo /\ UNCHANGED stop
        /\ messages' = IF Last(messages).kind = "use" THEN messages \o Msg("results")
                       ELSE messages
        /\ phase' = IF ~solo THEN "idle"
                    ELSE IF stop = "tool_use" THEN "check" ELSE "over"
    BY <1>8 DEF EndTurn, turnVars
  <2>2. /\ messages \in Seq(Message) /\ messages # <<>> /\ Answered(messages, Len(messages))
        /\ EndOf(messages) \in {"say", "use"} /\ Last(messages).kind = EndOf(messages)
        /\ stop = "tool_use" => EndOf(messages) = "use"
        /\ solo => Turns(messages, Len(messages))
        /\ solo \in BOOLEAN
    BY <2>1 DEF HistoryInv, Last, EndOf
  <2>3. CASE EndOf(messages) = "use"
    <3>1. messages' = messages \o Msg("results")
      BY <2>1, <2>2, <2>3
    <3>2. Extends(messages, messages', "results")
      BY <2>2, <3>1, Appended
    <3>3. Len(messages) > 0
      BY <2>2
    <3>4. /\ messages' \in Seq(Message) /\ EndOf(messages') = "results"
          /\ Len(messages') > 1
      BY <3>2, <3>3 DEF Extends, EndOf
    <3>5. Answered(messages', Len(messages') + 1)
      BY <2>2, <2>3, <3>2, <3>3, AnsweredAfterTurn
    <3>6. solo => Turns(messages', Len(messages') + 1)
      BY <2>2, <2>3, <3>2, TurnsGrow
    <3>. QED
      BY <2>1, <2>2, <3>4, <3>5, <3>6 DEF HistoryInv
  <2>4. CASE EndOf(messages) = "say"
    <3>1. UNCHANGED messages /\ phase' \in {"idle", "over"} /\ (phase' = "idle" => ~ solo)
      BY <2>1, <2>2, <2>4
    <3>2. Answered(messages, Len(messages) + 1)
      BY <2>2, <2>4 DEF Answered, EndOf
    <3>. QED
      BY <2>1, <2>2, <3>1, <3>2 DEF HistoryInv, Answered
  <2>. QED
    BY <2>2, <2>3, <2>4
<1>9. CASE UNCHANGED loopVars
  BY <1>1, <1>9 DEF loopVars, historyVars, turnVars
<1>. QED
  BY <1>2, <1>3, <1>4, <1>5, <1>6, <1>7, <1>8, <1>9 DEF LoopNext, LoopStep

(* Every history that is sent to the model pairs calls with results,       *)
(* whatever was compressed before (agent_loop.py).                         *)
THEOREM CallsAnswered == LoopSpec => []UsesAnswered
<1>1. HistoryInv => UsesAnswered
  BY DEF HistoryInv, UsesAnswered, Answered
<1>. QED
  BY <1>1, HistoryInit, HistoryStep, PTL DEF LoopSpec

-----------------------------------------------------------------------------
(* The verdicts and their trails. *)

(* A row of ai.tool_invocations.                                           *)
AuditRow == [tool : {"act", "open", "verdict"},
             during : Tests \cup {NoTest}, claim : Tests \cup {NoTest}]

(* The verdicts in j stand on the rows that bear their names.              *)
Backed(rows, j) ==
  \A t \in Tests :
    /\ j[t].trail \subseteq DOMAIN rows
    /\ \A i \in j[t].trail : rows[i].claim = t
    /\ j[t].verdict \in {"passed", "failed"} => j[t].trail # {}

AuditInv ==
  /\ answer \in Seq(ToolCalls)
  /\ slug \in Tests \cup {NoTest}
  /\ audit \in Seq(AuditRow)
  /\ DOMAIN judged = Tests
  /\ Backed(audit, judged)

(* A row at the end disturbs no trail.                                     *)
LEMMA AuditedBacked ==
  ASSUME NEW rows \in Seq(AuditRow), NEW j, Backed(rows, j),
         NEW tool \in {"act", "open", "verdict"}, NEW during \in Tests \cup {NoTest},
         Audited(rows, tool, during)
  PROVE  audit' \in Seq(AuditRow) /\ Backed(audit', j)
<1>1. [tool |-> tool, during |-> during, claim |-> NoTest] \in AuditRow
  BY DEF AuditRow
<1>2. PICK x \in AuditRow : audit' \in {rows, Append(rows, x)}
  BY <1>1 DEF Audited
<1>3. /\ Append(rows, x) \in Seq(AuditRow)
      /\ DOMAIN rows \subseteq DOMAIN Append(rows, x)
      /\ \A i \in DOMAIN rows : Append(rows, x)[i] = rows[i]
  OBVIOUS
<1>4. Backed(Append(rows, x), j)
  BY <1>3 DEF Backed
<1>. QED
  BY <1>2, <1>3, <1>4

(* What the verdict on t takes had no name before and bears t after it.    *)
LEMMA ClaimedRows ==
  ASSUME AuditInv, NEW t \in Tests
  PROVE  /\ Claimed(t) \in Seq(AuditRow) /\ DOMAIN Claimed(t) = DOMAIN audit
         /\ Trail \subseteq DOMAIN audit
         /\ \A i \in Trail : audit[i].claim = NoTest /\ Claimed(t)[i].claim = t
         /\ \A i \in DOMAIN audit \ Trail : Claimed(t)[i] = audit[i]
<1>1. Trail \subseteq DOMAIN audit /\ \A i \in Trail : audit[i].claim = NoTest
  BY DEF Trail, Oldest, Unclaimed
<1>2. DOMAIN Claimed(t) = DOMAIN audit
  BY DEF Claimed
<1>3. \A i \in DOMAIN audit :
        Claimed(t)[i] = IF i \in Trail THEN [audit[i] EXCEPT !.claim = t] ELSE audit[i]
  BY DEF Claimed
<1>4. \A i \in DOMAIN audit : audit[i] \in AuditRow
  BY DEF AuditInv
<1>5. \A i \in DOMAIN audit : Claimed(t)[i] \in AuditRow
  BY <1>3, <1>4 DEF AuditRow
<1>6. \A i \in Trail : Claimed(t)[i].claim = t
  BY <1>1, <1>3, <1>4 DEF AuditRow
<1>7. Claimed(t) \in Seq(AuditRow)
  <2>1. DOMAIN audit = 1..Len(audit) /\ Len(audit) \in Nat
    BY DEF AuditInv
  <2>2. Claimed(t) = [i \in 1..Len(audit) |-> Claimed(t)[i]]
    BY <2>1 DEF Claimed
  <2>3. Claimed(t) \in [1..Len(audit) -> AuditRow]
    BY <1>5, <2>1, <2>2
  <2>. QED
    BY <2>1, <2>3, SeqDef
<1>. QED
  BY <1>1, <1>2, <1>3, <1>6, <1>7

LEMMA JudgedBacked ==
  ASSUME AuditInv, NEW c, c.test \in Tests, JudgeTest(c)
  PROVE  DOMAIN judged' = Tests /\ Backed(Claimed(c.test), judged')
<1>1. PICK t \in Tests : t = c.test
  OBVIOUS
<1>2. DOMAIN judged' = Tests /\ judged'[t].trail = Trail
      /\ judged'[t].verdict = Gated(c.verdict, Trail)
      /\ \A u \in Tests \ {t} : judged'[u] = judged[u]
  BY <1>1 DEF JudgeTest, AuditInv
<1>3. Gated(c.verdict, Trail) \in {"passed", "failed"} => Trail # {}
  BY DEF Gated
<1>4. ASSUME NEW u \in Tests \ {t} PROVE judged[u].trail \cap Trail = {}
  BY ClaimedRows, LoopAssumption DEF AuditInv, Backed
<1>5. ASSUME NEW u \in Tests \ {t}
      PROVE  /\ judged'[u].trail \subseteq DOMAIN Claimed(t)
             /\ \A i \in judged'[u].trail : Claimed(t)[i].claim = u
             /\ judged'[u].verdict \in {"passed", "failed"} => judged'[u].trail # {}
  <2>1. /\ judged[u].trail \subseteq DOMAIN audit
        /\ \A i \in judged[u].trail : audit[i].claim = u
        /\ judged[u].verdict \in {"passed", "failed"} => judged[u].trail # {}
    BY DEF AuditInv, Backed
  <2>. QED
    BY <1>2, <1>4, <2>1, ClaimedRows
<1>. QED
  BY <1>1, <1>2, <1>3, <1>5, ClaimedRows DEF Backed

LEMMA AuditInit == LoopInit => AuditInv
BY DEF LoopInit, AuditInv, Backed, NotJudged

LEMMA ToolInv == ASSUME AuditInv, ExecuteTool PROVE AuditInv'
<1>1. PICK c \in ToolCalls : c = Head(answer)
  BY DEF AuditInv, ExecuteTool
<1>2. answer' \in Seq(ToolCalls)
  BY DEF AuditInv, ExecuteTool
<1>3. CASE c.tool = "act" /\ Audited(audit, "act", slug) /\ UNCHANGED <<slug, judged>>
  BY <1>2, <1>3, AuditedBacked DEF AuditInv
<1>4. CASE /\ c.tool = "open" /\ slug' = c.test
           /\ Audited(audit, "open", c.test) /\ UNCHANGED judged
  <2>1. c.test \in Tests
    BY <1>4 DEF ToolCalls
  <2>. QED
    BY <1>2, <1>4, <2>1, AuditedBacked DEF AuditInv
<1>5. CASE /\ c.tool = "verdict" /\ JudgeTest(c)
           /\ slug' = IF slug = c.test THEN NoTest ELSE slug
           /\ Audited(Claimed(c.test), "verdict", c.test)
  <2>1. c.test \in Tests
    BY <1>5 DEF ToolCalls
  <2>2. Claimed(c.test) \in Seq(AuditRow)
    BY <2>1, ClaimedRows
  <2>3. DOMAIN judged' = Tests /\ Backed(Claimed(c.test), judged')
    BY <1>5, <2>1, JudgedBacked
  <2>4. audit' \in Seq(AuditRow) /\ Backed(audit', judged')
    BY <1>5, <2>1, <2>2, <2>3, AuditedBacked
  <2>5. slug' \in Tests \cup {NoTest}
    BY <1>5 DEF AuditInv
  <2>. QED
    BY <1>2, <2>3, <2>4, <2>5 DEF AuditInv
<1>6. CASE UNCHANGED <<slug, audit, judged>>
  BY <1>2, <1>6 DEF AuditInv
<1>. QED
  BY <1>1, <1>3, <1>4, <1>5, <1>6 DEF ExecuteTool

LEMMA AuditStep == AuditInv /\ [LoopNext]_loopVars => AuditInv'
<1>. SUFFICES ASSUME AuditInv, [LoopNext]_loopVars PROVE AuditInv'
  OBVIOUS
<1>1. CASE ExecuteTool
  BY <1>1, ToolInv
<1>2. CASE UNCHANGED toolVars /\ answer' \in Seq(ToolCalls)
  BY <1>2 DEF toolVars, AuditInv
<1>3. CASE ModelAnswers
  <2>1. PICK n \in 0..MaxCallsPerTurn : answer' \in [1..n -> ToolCalls]
    BY <1>3 DEF ModelAnswers
  <2>2. n \in Nat
    BY LoopAssumption
  <2>3. answer' \in Seq(ToolCalls)
    BY <2>1, <2>2, SeqDef
  <2>. QED
    BY <1>2, <1>3, <2>3 DEF ModelAnswers
<1>4. CASE TimePasses \/ Ask \/ CheckLimits \/ ModelFails \/ EndTurn \/ UNCHANGED loopVars
  <2>1. UNCHANGED toolVars /\ UNCHANGED answer
    BY <1>4 DEF TimePasses, Ask, CheckLimits, ModelFails, EndTurn, loopVars, turnVars
  <2>. QED
    BY <1>2, <2>1 DEF AuditInv
<1>. QED
  BY <1>1, <1>3, <1>4 DEF LoopNext, LoopStep

(* However often verdicts are recorded again or rows are lost, each        *)
(* verdict's trail bears its name, and "passed" or "failed" has one        *)
(* (verdicts.py).                                                          *)
THEOREM VerdictsAlwaysBacked == LoopSpec => []VerdictsBacked
<1>1. AuditInv => VerdictsBacked
  BY DEF AuditInv, Backed, VerdictsBacked
<1>. QED
  BY <1>1, AuditInit, AuditStep, PTL DEF LoopSpec
=============================================================================
