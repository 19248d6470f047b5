----------------------------- MODULE AiSession -----------------------------
(***************************************************************************)
(* An AI session from POST /sessions to its last row: the routes of the    *)
(* orchestrator, the bootstrap run that provisions its sandbox, the queue  *)
(* ai.requests with its one consumer, and the coroutine of the             *)
(* SessionManager.  The turns of the agent are the module AgentLoop; here  *)
(* a turn is an instant that records a verdict, answers a message or       *)
(* raises.                                                                 *)
(*                                                                         *)
(* The coroutine writes "active", "completed" and "failed" without looking *)
(* at the row; a user can set "aborted" at any moment before the end.      *)
(*                                                                         *)
(* Abstracted: prompts, credentials, transcripts, tokens, the events of    *)
(* the dashboard, findings, and mode "chaos", which no request can ask     *)
(* for; "collaborative" is "interactive" with a first message of its own.  *)
(***************************************************************************)
EXTENDS Naturals, Sequences, FiniteSets

CONSTANTS
  Sessions,
  Autonomous,    \* the sessions of that mode; the others are interactive
  Bootstrapped,  \* sessions created without a sandbox
  Plan,          \* the selected tests of each session (ai_manual)
  MaxMessages,   \* bound: messages of users
  MaxAborts,     \* bound: cancels
  MaxFailures    \* bound: calls that raise, and crashes of the agent

ASSUME SessionAssumption ==
  /\ Autonomous \subseteq Sessions /\ Bootstrapped \subseteq Sessions
  /\ DOMAIN Plan = Sessions /\ \A s \in Sessions : IsFiniteSet(Plan[s])
  /\ \A n \in {MaxMessages, MaxAborts, MaxFailures} : n \in Nat

VARIABLES
  creating,   \* what create_session has done for each session
  tagged,     \* sessions whose run says ai_session
  sandbox,    \* the sandbox of the bootstrap run
  row,        \* ai.sessions.status, or "absent"
  requests,   \* the queue ai.requests
  agent,      \* where the coroutine of the session is
  inbox,      \* _message_queues: sessions that can be sent messages ...
  unread,     \* ... and how many wait in the queue of each
  verdicts,   \* ai.test_verdicts: the tests of each session that have one
  sentCount, abortCount, failCount

apiState     == <<creating, tagged, sentCount, abortCount>>
agentState   == <<agent, inbox, unread>>
sessionVars  == <<apiState, sandbox, row, requests, agentState, verdicts,
                  failCount>>

Final == {"completed", "failed", "aborted"}

(* The points of the coroutine that end it by themselves. *)
Gone == {"none", "ended", "cancelled", "broken", "lost"}

SessionTypeOK ==
  /\ creating \in [Sessions -> {"none", "run", "tagged", "row", "sent", "broken"}]
  /\ tagged \subseteq Bootstrapped
  /\ sandbox \in [Sessions -> {"none", "queued", "ready", "swept", "failed", "closed"}]
  /\ row \in [Sessions -> {"absent", "starting", "active"} \cup Final]
  /\ requests \in Seq([to : Sessions, kind : {"start", "message"}])
  /\ agent \in [Sessions -> Gone \cup
                  {"new", "bootstrap", "ready", "open", "loop", "done",
                   "crashed", "save", "fail", "unfit"}]
  /\ inbox \subseteq Sessions \ Autonomous
  /\ unread \in [Sessions -> 0..MaxMessages]
  /\ \A s \in Sessions : verdicts[s] \subseteq Plan[s]
  /\ sentCount \in 0..MaxMessages
  /\ abortCount \in 0..MaxAborts
  /\ failCount \in 0..MaxFailures

SessionInit ==
  /\ creating = [s \in Sessions |-> "none"]
  /\ tagged = {}
  /\ sandbox = [s \in Sessions |-> "none"]
  /\ row = [s \in Sessions |-> "absent"]
  /\ requests = <<>>
  /\ agent = [s \in Sessions |-> "none"]
  /\ inbox = {}
  /\ unread = [s \in Sessions |-> 0]
  /\ verdicts = [s \in Sessions |-> {}]
  /\ sentCount = 0
  /\ abortCount = 0
  /\ failCount = 0

Raises == failCount < MaxFailures /\ failCount' = failCount + 1

SetRow(s, status) == row' = [row EXCEPT ![s] = status]
Move(s, where)    == agent' = [agent EXCEPT ![s] = where]

-----------------------------------------------------------------------------
(* The routes. *)

(* create_session with bootstrap commits and requests a run (trigger_run), *)
(* says in another transaction that the run belongs to a session, inserts  *)
(* the row and publishes the request; without bootstrap only the last two. *)
CreateRun(s) ==
  /\ creating[s] = "none" /\ s \in Bootstrapped
  /\ creating' = [creating EXCEPT ![s] = "run"]
  /\ sandbox' = [sandbox EXCEPT ![s] = "queued"]
  /\ UNCHANGED <<tagged, sentCount, abortCount, row, requests, agentState,
                 verdicts, failCount>>

TagRun(s) ==
  /\ creating[s] = "run"
  /\ creating' = [creating EXCEPT ![s] = "tagged"]
  /\ tagged' = tagged \cup {s}
  /\ UNCHANGED <<sentCount, abortCount, sandbox, row, requests, agentState,
                 verdicts, failCount>>

InsertSession(s) ==
  /\ creating[s] = IF s \in Bootstrapped THEN "tagged" ELSE "none"
  /\ creating' = [creating EXCEPT ![s] = "row"]
  /\ SetRow(s, IF s \in Bootstrapped THEN "starting" ELSE "active")
  /\ UNCHANGED <<tagged, sentCount, abortCount, sandbox, requests, agentState,
                 verdicts, failCount>>

SendRequest(s) ==
  /\ creating[s] = "row"
  /\ creating' = [creating EXCEPT ![s] = "sent"]
  /\ requests' = Append(requests, [to |-> s, kind |-> "start"])
  /\ UNCHANGED <<tagged, sentCount, abortCount, sandbox, row, agentState,
                 verdicts, failCount>>

CreateFails(s) ==
  /\ creating[s] \in {"run", "tagged", "row"}
  /\ Raises
  /\ creating' = [creating EXCEPT ![s] = "broken"]
  /\ UNCHANGED <<tagged, sentCount, abortCount, sandbox, row, requests,
                 agentState, verdicts>>

(* send_message looks at the row and not at the agent. *)
SendMessage(s) ==
  /\ row[s] = "active" /\ s \notin Autonomous
  /\ sentCount < MaxMessages
  /\ sentCount' = sentCount + 1
  /\ requests' = Append(requests, [to |-> s, kind |-> "message"])
  /\ UNCHANGED <<creating, tagged, abortCount, sandbox, row, agentState,
                 verdicts, failCount>>

CancelSession(s) ==
  /\ row[s] \in {"starting", "active"}
  /\ abortCount < MaxAborts
  /\ abortCount' = abortCount + 1
  /\ SetRow(s, "aborted")
  /\ UNCHANGED <<creating, tagged, sentCount, sandbox, requests, agentState,
                 verdicts, failCount>>

(* The sandbox of the bootstrap run; one whose run was not tagged when it  *)
(* became ready is given the full sweep and closed after it.               *)
SandboxComes(s) ==
  /\ sandbox[s] = "queued"
  /\ \/ sandbox' = [sandbox EXCEPT ![s] = IF s \in tagged THEN "ready" ELSE "swept"]
     \/ sandbox' = [sandbox EXCEPT ![s] = "failed"]
  /\ UNCHANGED <<apiState, row, requests, agentState, verdicts, failCount>>

SweepCloses(s) ==
  /\ sandbox[s] = "swept"
  /\ sandbox' = [sandbox EXCEPT ![s] = "closed"]
  /\ UNCHANGED <<apiState, row, requests, agentState, verdicts, failCount>>

-----------------------------------------------------------------------------
(* The consumer: a request starts a coroutine, and is acknowledged with    *)
(* that; the queue of an interactive session is registered by the same     *)
(* handler.  A message for a session without a queue is dropped.           *)

AgentKeeps == UNCHANGED <<apiState, sandbox>>

(* Mutant: the handler registers no queue. *)
TakeStart_Unregistered ==
  /\ requests # <<>> /\ Head(requests).kind = "start"
  /\ Move(Head(requests).to, "new")
  /\ requests' = Tail(requests)
  /\ AgentKeeps /\ UNCHANGED <<row, inbox, unread, verdicts, failCount>>

TakeStart ==
  /\ requests # <<>> /\ Head(requests).kind = "start"
  /\ Move(Head(requests).to, "new")
  /\ requests' = Tail(requests)
  /\ inbox' = inbox \cup ({Head(requests).to} \ Autonomous)
  /\ AgentKeeps /\ UNCHANGED <<row, unread, verdicts, failCount>>

TakeMessage ==
  /\ requests # <<>> /\ Head(requests).kind = "message"
  /\ LET s == Head(requests).to
     IN  unread' = IF s \in inbox THEN [unread EXCEPT ![s] = @ + 1] ELSE unread
  /\ requests' = Tail(requests)
  /\ AgentKeeps /\ UNCHANGED <<row, agent, inbox, verdicts, failCount>>

-----------------------------------------------------------------------------
(* The coroutine. *)

RunKeeps == AgentKeeps /\ UNCHANGED requests

(* The finally of _run_and_cleanup: the queue goes with the coroutine. *)
Leave(s, where) ==
  /\ Move(s, where)
  /\ inbox' = inbox \ {s}
  /\ unread' = [unread EXCEPT ![s] = 0]

Begin(s) ==
  /\ agent[s] = "new"
  /\ Move(s, IF s \in Bootstrapped THEN "bootstrap" ELSE "open")
  /\ RunKeeps /\ UNCHANGED <<row, inbox, unread, verdicts, failCount>>

(* One round of _bootstrap_environment: an aborted session is left alone   *)
(* (CancelledError passes the handler of Exception); a failed sandbox, an  *)
(* error or 900 seconds fail the session; otherwise another round.         *)
SeesAbort(s) ==
  /\ agent[s] = "bootstrap" /\ row[s] = "aborted"
  /\ Leave(s, "cancelled")
  /\ RunKeeps /\ UNCHANGED <<row, verdicts, failCount>>

SeesReady(s) ==
  /\ agent[s] = "bootstrap" /\ row[s] # "aborted"
  /\ sandbox[s] \in {"ready", "swept"}
  /\ Move(s, "ready")
  /\ RunKeeps /\ UNCHANGED <<row, inbox, unread, verdicts, failCount>>

GivesUp(s) ==
  /\ agent[s] = "bootstrap"
  /\ Move(s, "unfit")
  /\ RunKeeps /\ UNCHANGED <<row, inbox, unread, verdicts, failCount>>

(* The row is written without another look at it. *)
BindSandbox(s) ==
  /\ agent[s] = "ready"
  /\ SetRow(s, "active")
  /\ Move(s, "open")
  /\ RunKeeps /\ UNCHANGED <<inbox, unread, verdicts, failCount>>

(* Ports, prompt and credentials, then _save_session("active"). *)
Open(s) ==
  /\ agent[s] = "open"
  /\ SetRow(s, "active")
  /\ Move(s, "loop")
  /\ RunKeeps /\ UNCHANGED <<inbox, unread, verdicts, failCount>>

RecordVerdict(s) ==
  /\ agent[s] = "loop"
  /\ \E t \in Plan[s] \ verdicts[s] :
       verdicts' = [verdicts EXCEPT ![s] = @ \cup {t}]
  /\ RunKeeps /\ UNCHANGED <<row, agent, inbox, unread, failCount>>

Answer(s) ==
  /\ agent[s] = "loop" /\ unread[s] > 0
  /\ unread' = [unread EXCEPT ![s] = @ - 1]
  /\ RunKeeps /\ UNCHANGED <<row, agent, inbox, verdicts, failCount>>

(* The agent has finished or reached a limit; an interactive session had   *)
(* no message for an hour.                                                 *)
LoopEnds(s) ==
  /\ agent[s] = "loop"
  /\ s \in Autonomous \/ unread[s] = 0
  /\ Move(s, IF s \in Autonomous THEN "done" ELSE "save")
  /\ RunKeeps /\ UNCHANGED <<row, inbox, unread, verdicts, failCount>>

(* A turn raises.  Only run_autonomous catches it. *)
LoopRaises(s) ==
  /\ agent[s] = "loop"
  /\ Raises
  /\ IF s \in Autonomous
     THEN Move(s, "crashed") /\ UNCHANGED <<inbox, unread>>
     ELSE Leave(s, "broken")
  /\ RunKeeps /\ UNCHANGED <<row, verdicts>>

(* Mutant: a session that crashed records no verdicts. *)
RecordMissing_DoneOnly(s) ==
  /\ agent[s] \in {"done", "crashed"}
  /\ verdicts' = [verdicts EXCEPT ![s] = IF agent[s] = "done" THEN Plan[s] ELSE @]
  /\ Move(s, IF agent[s] = "done" THEN "save" ELSE "fail")
  /\ RunKeeps /\ UNCHANGED <<row, inbox, unread, failCount>>

(* _record_missing_verdicts: what has no verdict is "blocked".  It never   *)
(* raises: a database error is logged.                                     *)
RecordMissing(s) ==
  /\ agent[s] \in {"done", "crashed"}
  /\ \/ verdicts' = [verdicts EXCEPT ![s] = Plan[s]] /\ UNCHANGED failCount
     \/ Raises /\ UNCHANGED verdicts
  /\ Move(s, IF agent[s] = "done" THEN "save" ELSE "fail")
  /\ RunKeeps /\ UNCHANGED <<row, inbox, unread>>

(* Mutant: the last save keeps the status of a session that is active. *)
SaveSession_KeepsActive(s) ==
  /\ agent[s] \in {"save", "fail", "unfit"}
  /\ SetRow(s, IF agent[s] = "save" THEN "completed"
               ELSE IF row[s] = "active" THEN "active" ELSE "failed")
  /\ Leave(s, "ended")
  /\ RunKeeps /\ UNCHANGED <<verdicts, failCount>>

SaveSession(s) ==
  /\ agent[s] \in {"save", "fail", "unfit"}
  /\ SetRow(s, IF agent[s] = "save" THEN "completed" ELSE "failed")
  /\ Leave(s, "ended")
  /\ RunKeeps /\ UNCHANGED <<verdicts, failCount>>

(* Any other call of the coroutine raises: after the bootstrap, and in its *)
(* own handler of errors, it ends with the row as it is.                   *)
CallRaises(s) ==
  /\ agent[s] \in {"ready", "open", "save", "fail", "unfit"}
  /\ Raises
  /\ IF agent[s] = "ready"
     THEN Move(s, "unfit") /\ UNCHANGED <<inbox, unread>>
     ELSE Leave(s, "broken")
  /\ RunKeeps /\ UNCHANGED <<row, verdicts>>

(* Coroutines and queues are memory; a request is acknowledged when its    *)
(* coroutine is created, so no session is taken up again.                  *)
AgentCrash ==
  /\ Raises
  /\ agent' = [s \in Sessions |-> IF agent[s] \in Gone THEN agent[s] ELSE "lost"]
  /\ inbox' = {}
  /\ unread' = [s \in Sessions |-> 0]
  /\ RunKeeps /\ UNCHANGED <<row, verdicts>>

-----------------------------------------------------------------------------
Create(s) == CreateRun(s) \/ TagRun(s) \/ InsertSession(s) \/ SendRequest(s)

ConsumerTakes == TakeStart \/ TakeMessage

(* What the coroutine does next by itself. *)
Proceed(s) ==
  \/ Begin(s) \/ SeesAbort(s) \/ SeesReady(s) \/ GivesUp(s)
  \/ BindSandbox(s) \/ Open(s) \/ Answer(s) \/ LoopEnds(s)
  \/ RecordMissing(s) \/ SaveSession(s)

SessionNext ==
  \/ \E s \in Sessions :
       \/ Create(s) \/ CreateFails(s) \/ SendMessage(s) \/ CancelSession(s)
       \/ SandboxComes(s) \/ SweepCloses(s)
       \/ Proceed(s) \/ RecordVerdict(s) \/ LoopRaises(s) \/ CallRaises(s)
  \/ ConsumerTakes \/ AgentCrash

SessionSpec == SessionInit /\ [][SessionNext]_sessionVars

(* The consumer loop and the coroutines are scheduled; the bootstrap, the  *)
(* turns and the waiting for messages have deadlines.                      *)
FairSessionSpec ==
  /\ SessionSpec
  /\ WF_sessionVars(ConsumerTakes)
  /\ \A s \in Sessions : WF_sessionVars(Proceed(s))

-----------------------------------------------------------------------------
(* "so the verdict table is always complete" (session_manager.py:211): an  *)
(* autonomous session whose loop ended or crashed writes its last status   *)
(* with a verdict for each test of its plan, unless the database refused   *)
(* them too.                                                               *)
VerdictsComplete ==
  \A s \in Autonomous :
    agent[s] \in {"save", "fail"} =>
      \/ verdicts[s] = Plan[s]
      \/ failCount > IF agent[s] = "fail" THEN 1 ELSE 0

(* A user's message is dropped only if the session has no coroutine: its   *)
(* start request is ahead in the same queue, and its handler registers the *)
(* queue before the coroutine first runs.                                  *)
MessageDropped(s) ==
  /\ requests # <<>> /\ Head(requests) = [to |-> s, kind |-> "message"]
  /\ requests' = Tail(requests) /\ unread' = unread

MessagesReachSessions ==
  [][\A s \in Sessions : MessageDropped(s) => agent[s] \in Gone]_sessionVars

(* A session that was requested gets a final status, whatever its turns    *)
(* raise in autonomous mode, if the agent does not die and the database    *)
(* calls around the loop succeed.                                          *)
SessionsEnd ==
  \A s \in Sessions :
    creating[s] = "sent" ~> row[s] \in Final \/ agent[s] \in {"broken", "lost"}
=============================================================================
