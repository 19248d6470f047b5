---------------------------- MODULE RunLifecycle ----------------------------
(***************************************************************************)
(* One validation run from POST /runs to its verdict: the orchestrator's   *)
(* API and its consumers of sandbox.events and tests.results, the          *)
(* test-runner's two lanes, and the part of the sandbox-manager that waits *)
(* for the tests, joined by the queues of RabbitMQ and by the tables       *)
(* orchestrator.runs and tests.results.                                    *)
(*                                                                         *)
(* Every consumer reads one message at a time and acknowledges it when its *)
(* handler returns or raises; a process that dies leaves its message at    *)
(* the head of the queue.  An action is the code between two awaits that   *)
(* another process can tell apart.                                         *)
(*                                                                         *)
(* Abstracted: other runs (they share only the consumers' time), step and  *)
(* log_batch events (they change no status), the text of a result, and the *)
(* filters that select the definitions of the run (Selected).  A run that  *)
(* bootstraps an AI session has Selected = {}.                             *)
(***************************************************************************)
EXTENDS SandboxStages, Integers, Sequences, FiniteSets

CONSTANTS
  Definitions,              \* active test definitions
  Selected,                 \* those the run dispatches
  PASS_THRESHOLD_COMPLETED, \* per cent of passed tests for "completed"
  PASS_THRESHOLD_WARNING,   \* and for "warning"
  MaxAiTests,               \* bound: tests an AI session triggers
  MaxFaults                 \* bound: crashes, failed calls and cache misses

ASSUME RunAssumption ==
  /\ IsFiniteSet(Definitions)
  /\ Selected \subseteq Definitions
  /\ PASS_THRESHOLD_COMPLETED \in Nat
  /\ PASS_THRESHOLD_WARNING \in Nat
  /\ MaxAiTests \in Nat
  /\ MaxFaults \in Nat

VARIABLES
  status,      \* orchestrator.runs.status ("none": no row)
  dispatched,  \* metadata.dispatched_count of the row, 0 when absent
  request,     \* the message on sandbox.queue
  canceller,   \* the handler of POST /runs/{id}/cancel
  stage,       \* the last lifecycle event of the sandbox
  waited,      \* why the wait for the tests ended
  events,      \* queue sandbox.events
  handler,     \* the handler of the event at its head
  todo,        \* definitions whose command it has still to publish
  cmds,        \* queues tests.commands and tests.commands.ai
  at,          \* the handler of the command at the head of each
  cur,         \* the row it writes
  rows,        \* tests.results of the run and its sandbox
  msgs,        \* messages on tests.results
  tally,       \* the handler of the first of them
  verdict,     \* the status it has computed
  starts,      \* history: how often the run was set to running
  notices,     \* history: verdicts announced
  asked,       \* tests the AI session has triggered
  faults       \* crashes and failed calls so far

apiVars     == <<request, canceller>>
sandboxVars == <<stage, waited>>
handlerVars == <<handler, todo>>
laneVars    == <<at, cur, rows>>
tallyVars   == <<tally, verdict>>
budgetVars  == <<asked, faults>>
runVars     == <<status, dispatched, starts, notices, apiVars, sandboxVars,
                 events, handlerVars, cmds, laneVars, msgs, tallyVars,
                 budgetVars>>

Lanes    == {"bulk", "ai"}
Verdicts == {"completed", "warning", "failed"}
Status   == {"none", "queued", "running", "cancelled"} \cup Verdicts

(* id: the result_id an AI session chose for its test, 0 for the others. *)
Command == [def : Definitions, id : 0..MaxAiTests]
Row     == [def : Definitions, id : 0..MaxAiTests,
            status : {"running", "passed", "failed", "skipped"}]

RunTypeOK ==
  /\ status \in Status
  /\ dispatched \in {0, Cardinality(Selected)}
  /\ request \in {"none", "pending", "sent", "lost"}
  /\ canceller \in {"idle", "read"}
  /\ stage \in Stage
  /\ waited \in {"no", "done", "cancelled", "over"}
  /\ events \in Seq(Stage \ {"none"})
  /\ handler \in {"idle", "apply", "dispatch", "tell"}
  /\ todo \subseteq Selected
  /\ cmds \in [Lanes -> Seq(Command)]
  /\ at \in [Lanes -> {"idle", "run", "publish", "ack"}]
  /\ cur \in [Lanes -> Nat]
  /\ rows \in Seq(Row)
  /\ msgs \in Nat
  /\ tally \in {"idle", "rate", "close", "notify"}
  /\ verdict \in Verdicts
  /\ starts \in Nat
  /\ notices \in Nat
  /\ asked \in 0..MaxAiTests
  /\ faults \in 0..MaxFaults

RunInit ==
  /\ status = "none"
  /\ dispatched = 0
  /\ request = "none"
  /\ canceller = "idle"
  /\ stage = "none"
  /\ waited = "no"
  /\ events = <<>>
  /\ handler = "idle"
  /\ todo = {}
  /\ cmds = [l \in Lanes |-> <<>>]
  /\ at = [l \in Lanes |-> "idle"]
  /\ cur = [l \in Lanes |-> 0]
  /\ rows = <<>>
  /\ msgs = 0
  /\ tally = "idle"
  /\ verdict = "failed"
  /\ starts = 0
  /\ notices = 0
  /\ asked = 0
  /\ faults = 0

-----------------------------------------------------------------------------
Rows(states) == {i \in DOMAIN rows : rows[i].status \in states}
InFlight     == Cardinality(Rows({"running"}))
Finished     == Cardinality(Rows({"passed", "failed", "skipped"}))

(* Mutant: the two thresholds are swapped. *)
FinalStatus_Swapped(passed, total) ==
  CASE passed * 100 >= PASS_THRESHOLD_WARNING * total -> "completed"
    [] OTHER -> "failed"

FinalStatus(passed, total) ==
  CASE passed * 100 >= PASS_THRESHOLD_COMPLETED * total -> "completed"
    [] passed * 100 >= PASS_THRESHOLD_WARNING * total
       /\ passed * 100 < PASS_THRESHOLD_COMPLETED * total -> "warning"
    [] OTHER -> "failed"

(* One more crash or failed call, within the bound. *)
Fault == faults < MaxFaults /\ faults' = faults + 1

-----------------------------------------------------------------------------
(* The orchestrator's API. *)

(* trigger_run commits the row of the run ... *)
TriggerRun ==
  /\ request = "none"
  /\ request' = "pending"
  /\ status' = "queued"
  /\ UNCHANGED <<dispatched, canceller, starts, notices, sandboxVars, events,
                 handlerVars, cmds, laneVars, msgs, tallyVars, budgetVars>>

(* ... and then publishes the request for its sandbox. *)
PublishRequest ==
  /\ request = "pending"
  /\ request' = "sent"
  /\ UNCHANGED <<status, dispatched, canceller, starts, notices, sandboxVars,
                 events, handlerVars, cmds, laneVars, msgs, tallyVars,
                 budgetVars>>

(* cancel_run loads the row and refuses a run that has ended ... *)
ReadForCancel ==
  /\ canceller = "idle"
  /\ status \in {"queued", "running", "warning"}
  /\ canceller' = "read"
  /\ UNCHANGED <<status, dispatched, request, starts, notices, sandboxVars,
                 events, handlerVars, cmds, laneVars, msgs, tallyVars,
                 budgetVars>>

(* Mutant: the status is misspelt. *)
CommitCancel_Typo ==
  /\ canceller = "read"
  /\ canceller' = "idle"
  /\ status' = "canceled"
  /\ UNCHANGED <<dispatched, request, starts, notices, sandboxVars, events,
                 handlerVars, cmds, laneVars, msgs, tallyVars, budgetVars>>

(* ... and commits the new status, whatever it has become. *)
CommitCancel ==
  /\ canceller = "read"
  /\ canceller' = "idle"
  /\ status' = "cancelled"
  /\ UNCHANGED <<dispatched, request, starts, notices, sandboxVars, events,
                 handlerVars, cmds, laneVars, msgs, tallyVars, budgetVars>>

-----------------------------------------------------------------------------
(* The sandbox-manager, as far as the run can see it. *)

(* Mutant: a test that has started counts as done. *)
AllTestsDone_Started == dispatched > 0 /\ Len(rows) >= dispatched

AllTestsDone ==
  /\ dispatched > 0
  /\ Len(rows) >= dispatched
  /\ InFlight = 0

(***************************************************************************)
(* The wait for the tests ends when the run is cancelled, when as many     *)
(* tests as were dispatched have started and none is running, or ("over")  *)
(* by its timeout, an error, or the end of the AI session.                 *)
(***************************************************************************)
WaitForTests ==
  /\ stage = "ready"
  /\ waited = "no"
  /\ \/ status = "cancelled" /\ waited' = "cancelled"
     \/ status # "cancelled" /\ AllTestsDone /\ waited' = "done"
     \/ waited' = "over"
  /\ UNCHANGED <<status, dispatched, starts, notices, apiVars, stage, events,
                 handlerVars, cmds, laneVars, msgs, tallyVars, budgetVars>>

(* The next event of the sandbox; a sandbox that was ready waits first. *)
SandboxEvent ==
  /\ request = "sent"
  /\ \E s \in Successors[stage] :
       /\ stage = "ready" => waited # "no"
       /\ stage = "ready" /\ s = "failed" => waited = "over"
       /\ stage' = s
       /\ events' = Append(events, s)
  /\ UNCHANGED <<status, dispatched, starts, notices, apiVars, waited,
                 handlerVars, cmds, laneVars, msgs, tallyVars, budgetVars>>

-----------------------------------------------------------------------------
(* The orchestrator's consumer of sandbox.events. *)

AckEvent ==
  /\ events' = Tail(events)
  /\ handler' = "idle"
  /\ todo' = {}

(* An event of a cancelled run is ignored; the others are handled next. *)
CheckEvent ==
  /\ handler = "idle"
  /\ events # <<>>
  /\ \/ status = "cancelled" /\ AckEvent
     \/ status # "cancelled" /\ handler' = "apply" /\ UNCHANGED <<events, todo>>
  /\ UNCHANGED <<status, dispatched, starts, notices, apiVars, sandboxVars,
                 cmds, laneVars, msgs, tallyVars, budgetVars>>

(* "ready": the run is running, whatever it was, and its tests go out. *)
ApplyReady ==
  /\ handler = "apply"
  /\ Head(events) = "ready"
  /\ status' = "running"
  /\ starts' = starts + 1
  /\ handler' = "dispatch"
  /\ todo' = Selected
  /\ UNCHANGED <<dispatched, notices, apiVars, sandboxVars, events, cmds,
                 laneVars, msgs, tallyVars, budgetVars>>

ApplyFailed ==
  /\ handler = "apply"
  /\ Head(events) = "failed"
  /\ status' = "failed"
  /\ AckEvent
  /\ UNCHANGED <<dispatched, starts, notices, apiVars, sandboxVars, cmds,
                 laneVars, msgs, tallyVars, budgetVars>>

(* "provisioning" and "closed" are stored and announced, nothing else. *)
ApplyOther ==
  /\ handler = "apply"
  /\ Head(events) \in {"provisioning", "closed"}
  /\ AckEvent
  /\ UNCHANGED <<status, dispatched, starts, notices, apiVars, sandboxVars,
                 cmds, laneVars, msgs, tallyVars, budgetVars>>

PublishCommand ==
  /\ handler = "dispatch"
  /\ \E d \in todo :
       /\ todo' = todo \ {d}
       /\ cmds' = [cmds EXCEPT !["bulk"] = Append(@, [def |-> d, id |-> 0])]
  /\ UNCHANGED <<status, dispatched, starts, notices, apiVars, sandboxVars,
                 events, handler, laneVars, msgs, tallyVars, budgetVars>>

(* Only after the last command is out does the row get their number. *)
WriteCount ==
  /\ handler = "dispatch"
  /\ todo = {}
  /\ dispatched' = Cardinality(Selected)
  /\ handler' = "tell"
  /\ UNCHANGED <<status, starts, notices, apiVars, sandboxVars, events, todo,
                 cmds, laneVars, msgs, tallyVars, budgetVars>>

TellReady ==
  /\ handler = "tell"
  /\ AckEvent
  /\ UNCHANGED <<status, dispatched, starts, notices, apiVars, sandboxVars,
                 cmds, laneVars, msgs, tallyVars, budgetVars>>

(* A failed call: the exception is logged, the event acknowledged. *)
EventRaises ==
  /\ handler \in {"apply", "dispatch"}
  /\ AckEvent
  /\ Fault
  /\ UNCHANGED <<status, dispatched, starts, notices, apiVars, sandboxVars,
                 cmds, laneVars, msgs, tallyVars, asked>>

-----------------------------------------------------------------------------
(* The test-runner: one lane for the sweep, one for AI sessions. *)

(* trigger_test of the AI agent: any definition, in a known sandbox. *)
TriggerTest ==
  /\ stage # "none"
  /\ asked < MaxAiTests
  /\ asked' = asked + 1
  /\ \E d \in Definitions :
       cmds' = [cmds EXCEPT !["ai"] = Append(@, [def |-> d, id |-> asked + 1])]
  /\ UNCHANGED <<status, dispatched, starts, notices, apiVars, sandboxVars,
                 events, handlerVars, laneVars, msgs, tallyVars, faults>>

Taking(l) == at[l] = "idle" /\ cmds[l] # <<>>

Enter(l, label) == at' = [at EXCEPT ![l] = label]

(* The lane inserts a row and remembers it. *)
InsertRow(l, id, state) ==
  /\ rows' = Append(rows, [def |-> Head(cmds[l]).def, id |-> id,
                           status |-> state])
  /\ cur' = [cur EXCEPT ![l] = Len(rows) + 1]

AckCommand(l) ==
  /\ cmds' = [cmds EXCEPT ![l] = Tail(@)]
  /\ Enter(l, "idle")

LaneFrame == UNCHANGED <<status, dispatched, starts, notices, apiVars,
                         sandboxVars, events, handlerVars, tallyVars, asked>>

(* The run is cancelled: the test is recorded as skipped, and reported. *)
SkipTest(l) ==
  /\ Taking(l)
  /\ status = "cancelled"
  /\ InsertRow(l, 0, "skipped")
  /\ Enter(l, "publish")
  /\ UNCHANGED <<cmds, msgs, faults>>
  /\ LaneFrame

(* The result_id of an AI test is a primary key. *)
IdTaken(id) == id # 0 /\ \E i \in DOMAIN rows : rows[i].id = id

StartTest(l) ==
  /\ Taking(l)
  /\ status # "cancelled"
  /\ ~IdTaken(Head(cmds[l]).id)
  /\ InsertRow(l, Head(cmds[l]).id, "running")
  /\ Enter(l, "run")
  /\ UNCHANGED <<cmds, msgs, faults>>
  /\ LaneFrame

(* A redelivered AI test cannot insert its row again and is dropped. *)
InsertConflicts(l) ==
  /\ Taking(l)
  /\ status # "cancelled"
  /\ IdTaken(Head(cmds[l]).id)
  /\ AckCommand(l)
  /\ UNCHANGED <<cur, rows, msgs, faults>>
  /\ LaneFrame

(* The test ends and its row is updated, or it raises, which is "failed". *)
EndTest(l) ==
  /\ at[l] = "run"
  /\ \E outcome \in {"passed", "failed"} :
       rows' = [rows EXCEPT ![cur[l]].status = outcome]
  /\ Enter(l, "publish")
  /\ UNCHANGED <<cur, cmds, msgs, faults>>
  /\ LaneFrame

PublishResult(l) ==
  /\ at[l] = "publish"
  /\ msgs' = msgs + 1
  /\ Enter(l, "ack")
  /\ UNCHANGED <<cur, rows, cmds, faults>>
  /\ LaneFrame

FinishCommand(l) ==
  /\ at[l] = "ack"
  /\ AckCommand(l)
  /\ UNCHANGED <<cur, rows, msgs, faults>>
  /\ LaneFrame

(***************************************************************************)
(* The command is acknowledged without a result: its definition is not in  *)
(* the loader's cache (no row yet), or a call failed.                      *)
(***************************************************************************)
CommandRaises(l) ==
  /\ Taking(l) \/ at[l] \in {"run", "publish"}
  /\ AckCommand(l)
  /\ Fault
  /\ UNCHANGED <<cur, rows, msgs>>
  /\ LaneFrame

-----------------------------------------------------------------------------
(* The orchestrator's consumer of tests.results. *)

AckResult ==
  /\ msgs' = msgs - 1
  /\ tally' = "idle"
  /\ verdict' = "failed"

TallyFrame == UNCHANGED <<dispatched, starts, apiVars, sandboxVars, events,
                          handlerVars, cmds, laneVars, asked>>

(* Mutant: only the rows in flight are checked. *)
CountResults_InFlightOnly ==
  /\ tally = "idle"
  /\ msgs > 0
  /\ IF InFlight > 0
       THEN AckResult
       ELSE tally' = "rate" /\ UNCHANGED <<msgs, verdict>>
  /\ UNCHANGED <<status, notices, faults>>
  /\ TallyFrame

(* Mutant: one result more than was dispatched is waited for. *)
CountResults_OneMore ==
  /\ tally = "idle"
  /\ msgs > 0
  /\ IF dispatched = 0 \/ InFlight > 0 \/ Finished <= dispatched
       THEN AckResult
       ELSE tally' = "rate" /\ UNCHANGED <<msgs, verdict>>
  /\ UNCHANGED <<status, notices, faults>>
  /\ TallyFrame

(* Every result recounts the rows; the run waits for the last of them. *)
CountResults ==
  /\ tally = "idle"
  /\ msgs > 0
  /\ IF dispatched = 0 \/ InFlight > 0 \/ Finished < dispatched
       THEN AckResult
       ELSE tally' = "rate" /\ UNCHANGED <<msgs, verdict>>
  /\ UNCHANGED <<status, notices, faults>>
  /\ TallyFrame

(* A second query, later: the share of the rows that passed. *)
ComputeRate ==
  /\ tally = "rate"
  /\ verdict' = FinalStatus(Cardinality(Rows({"passed"})), Len(rows))
  /\ tally' = "close"
  /\ UNCHANGED <<status, notices, msgs, faults>>
  /\ TallyFrame

(* Mutant: the UPDATE has no condition on the status. *)
CloseRun_Unguarded ==
  /\ tally = "close"
  /\ status' = verdict
  /\ tally' = "notify"
  /\ UNCHANGED <<notices, msgs, verdict, faults>>
  /\ TallyFrame

(* UPDATE ... WHERE status = 'running': whoever comes second does nothing. *)
CloseRun ==
  /\ tally = "close"
  /\ IF status = "running"
       THEN status' = verdict /\ tally' = "notify" /\ UNCHANGED <<msgs, verdict>>
       ELSE AckResult /\ UNCHANGED status
  /\ UNCHANGED <<notices, faults>>
  /\ TallyFrame

Notify ==
  /\ tally = "notify"
  /\ notices' = notices + 1
  /\ AckResult
  /\ UNCHANGED <<status, faults>>
  /\ TallyFrame

(* A failed query: the exception is logged, the result acknowledged. *)
ResultRaises ==
  /\ tally \in {"rate", "close"}
  /\ AckResult
  /\ Fault
  /\ UNCHANGED <<status, notices>>
  /\ TallyFrame

-----------------------------------------------------------------------------
(* Crashes: unacknowledged messages stay at the head of their queues. *)

OrchestratorCrash ==
  /\ Fault
  /\ handler' = "idle"
  /\ todo' = {}
  /\ tally' = "idle"
  /\ verdict' = "failed"
  /\ canceller' = "idle"
  /\ request' = IF request = "pending" THEN "lost" ELSE request
  /\ UNCHANGED <<status, dispatched, starts, notices, sandboxVars, events,
                 cmds, laneVars, msgs, asked>>

RunnerCrash ==
  /\ Fault
  /\ at' = [l \in Lanes |-> "idle"]
  /\ UNCHANGED <<status, dispatched, starts, notices, apiVars, sandboxVars,
                 events, handlerVars, cmds, cur, rows, msgs, tallyVars, asked>>

-----------------------------------------------------------------------------
ApiStep == TriggerRun \/ PublishRequest \/ ReadForCancel \/ CommitCancel

SandboxStep == WaitForTests \/ SandboxEvent

HandlerStep ==
  \/ CheckEvent \/ ApplyReady \/ ApplyFailed \/ ApplyOther
  \/ PublishCommand \/ WriteCount \/ TellReady \/ EventRaises

LaneStep(l) ==
  \/ SkipTest(l) \/ StartTest(l) \/ InsertConflicts(l) \/ EndTest(l)
  \/ PublishResult(l) \/ FinishCommand(l) \/ CommandRaises(l)

TallyStep ==
  CountResults \/ ComputeRate \/ CloseRun \/ Notify \/ ResultRaises

RunNext ==
  \/ ApiStep
  \/ SandboxStep
  \/ HandlerStep
  \/ TriggerTest
  \/ \E l \in Lanes : LaneStep(l)
  \/ TallyStep
  \/ OrchestratorCrash
  \/ RunnerCrash

RunSpec == RunInit /\ [][RunNext]_runVars

(***************************************************************************)
(* The consumers are loops that a message wakes up, and a test has a       *)
(* timeout: each keeps going.  Users, AI sessions and sandboxes need not.  *)
(***************************************************************************)
FairRunSpec ==
  /\ RunSpec
  /\ WF_runVars(HandlerStep)
  /\ \A l \in Lanes : WF_runVars(LaneStep(l))
  /\ WF_runVars(TallyStep)

-----------------------------------------------------------------------------
(* Properties. *)

(***************************************************************************)
(* Each start of the run leads to at most one final notification, even     *)
(* when results are redelivered after a crash: the guarded UPDATE of       *)
(* test_results.py lets one of the handlers through.                       *)
(***************************************************************************)
NotifiedOnce == notices <= starts

(* Every row is the only one of a dispatched definition. *)
OneRowEach ==
  /\ \A i, j \in DOMAIN rows : rows[i].def = rows[j].def => i = j
  /\ \A i \in DOMAIN rows : rows[i].def \in Selected

Has(d, states) ==
  \E i \in DOMAIN rows : rows[i].def = d /\ rows[i].status \in states

Judged == tally = "notify" \/ status \in {"completed", "warning"}

AllFinished == \A d \in Selected : Has(d, {"passed", "failed", "skipped"})

(***************************************************************************)
(* While no test ran twice or on behalf of an AI session, a run that is    *)
(* judged has a finished row for every test it dispatched: results that    *)
(* arrive before the last command is published, or before the count is     *)
(* stored, do not close it.                                                *)
(***************************************************************************)
JudgedWhenDone == OneRowEach /\ Judged => AllFinished

(***************************************************************************)
(* ... and its status is what the rows say: the rows do not change between *)
(* the query that found the run done and the one that computed its rate.   *)
(***************************************************************************)
CompletedMeansPassed ==
  OneRowEach /\ status = "completed" =>
    100 * Cardinality({d \in Selected : Has(d, {"passed"})})
      >= PASS_THRESHOLD_COMPLETED * Cardinality(Selected)

(***************************************************************************)
(* ... and its sandbox is not torn down for "all tests done" while a test  *)
(* of the sweep is still queued or executing against it.                   *)
(***************************************************************************)
SandboxOutlivesTests == OneRowEach /\ waited = "done" => AllFinished

(* RunLifecycle implements the contract of a run. *)
Promise == INSTANCE RunContract WITH owed <- (tally = "notify")

(***************************************************************************)
(* Whatever crashes or fails, the row of the run and its notifications     *)
(* change as RunContract says: only a running run is judged.               *)
(***************************************************************************)
ImplementsRunContract == Promise!RunContractSpec

(***************************************************************************)
(* Once the count is stored, a result that has still to be tallied, and    *)
(* with it all the tests done, ends the run: the last one closes it.       *)
(***************************************************************************)
ResultOutstanding == msgs > 0 \/ \E l \in Lanes : at[l] = "publish"

LastResultCloses ==
  (dispatched > 0 /\ ResultOutstanding /\ OneRowEach /\ AllFinished)
    ~> status # "running"

-----------------------------------------------------------------------------
(* What the documentation says and the code does not do. *)

(* README, "Full Run Flow": a run that is running gets a verdict. *)
RunsFinish == status = "running" ~> status # "running"

(* test_results.py: the count keeps results from closing the run early. *)
NoPrematureClose == Judged => AllFinished
=============================================================================
