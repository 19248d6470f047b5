------------------------- MODULE RunLifecycle_proofs -------------------------
(***************************************************************************)
(* Proofs about RunLifecycle, for any set of definitions, any selection,   *)
(* and any number of AI tests, crashes and failed calls.                   *)
(***************************************************************************)
EXTENDS RunLifecycle, FiniteSetTheorems, SequenceTheorems, TLAPS

(* A handler that is at work has its message at the head of its queue. *)
MessagesHeld ==
  /\ handler # "idle" => events # <<>>
  /\ \A l \in Lanes : at[l] # "idle" => cmds[l] # <<>>
  /\ tally # "idle" => msgs > 0

(* Whoever acts on the run, its row exists. *)
RowExists ==
  /\ request = "none" <=> status = "none"
  /\ events # <<>> \/ canceller = "read" => status # "none"

TypeInv == RunTypeOK /\ MessagesHeld /\ RowExists

-----------------------------------------------------------------------------
(* Publishing to one queue, and acknowledging the head of one. *)
LEMMA AckTypes ==
  ASSUME TypeInv, NEW l \in Lanes, cmds[l] # <<>>
  PROVE  /\ Head(cmds[l]) \in Command
         /\ [cmds EXCEPT ![l] = Tail(@)] \in [Lanes -> Seq(Command)]
<1>1. cmds \in [Lanes -> Seq(Command)] /\ cmds[l] \in Seq(Command)
  BY DEF TypeInv, RunTypeOK
<1>2. Head(cmds[l]) \in Command /\ Tail(cmds[l]) \in Seq(Command)
  BY <1>1, HeadTailProperties
<1> QED
  BY <1>1, <1>2

LEMMA PublishTypes ==
  ASSUME TypeInv, NEW l \in Lanes, NEW c \in Command,
         cmds' = [cmds EXCEPT ![l] = Append(@, c)]
  PROVE  /\ cmds' \in [Lanes -> Seq(Command)]
         /\ \A k \in Lanes : cmds[k] # <<>> => cmds'[k] # <<>>
<1>1. cmds \in [Lanes -> Seq(Command)]
  BY DEF TypeInv, RunTypeOK
<1>2. cmds[l] \in Seq(Command)
  BY <1>1
<1>3. Append(cmds[l], c) \in Seq(Command) /\ Append(cmds[l], c) # <<>>
  BY <1>2, AppendProperties
<1> QED
  BY <1>1, <1>3

LEMMA EventTypes ==
  ASSUME TypeInv, events # <<>>
  PROVE  Tail(events) \in Seq(Stage \ {"none"})
BY HeadTailProperties DEF TypeInv, RunTypeOK

LEMMA TypeInit == RunInit => TypeInv
BY RunAssumption DEF RunInit, TypeInv, RunTypeOK, MessagesHeld, RowExists, Status, Verdicts,
   Stage, Lanes, Command, Row

-----------------------------------------------------------------------------
(* The type invariant, one part of the system at a time. *)
LEMMA ApiTypes == TypeInv /\ ApiStep => TypeInv'
<1> SUFFICES ASSUME TypeInv, ApiStep PROVE TypeInv'
  OBVIOUS
<1> USE DEF TypeInv, RunTypeOK, MessagesHeld, RowExists, Status, Verdicts,
    sandboxVars, handlerVars, laneVars, tallyVars, budgetVars
<1>1. CASE TriggerRun
  BY <1>1 DEF TriggerRun
<1>2. CASE PublishRequest
  BY <1>2 DEF PublishRequest
<1>3. CASE ReadForCancel
  BY <1>3 DEF ReadForCancel
<1>4. CASE CommitCancel
  BY <1>4 DEF CommitCancel
<1> QED
  BY <1>1, <1>2, <1>3, <1>4 DEF ApiStep

LEMMA SuccessorsAreStages ==
  \A s \in Stage : Successors[s] \subseteq Stage \ {"none"}
BY DEF Stage, Successors

LEMMA SandboxTypes == TypeInv /\ SandboxStep => TypeInv'
<1> SUFFICES ASSUME TypeInv, SandboxStep PROVE TypeInv'
  OBVIOUS
<1> USE DEF TypeInv, RunTypeOK, MessagesHeld, RowExists, Status, Verdicts,
    apiVars, handlerVars, laneVars, tallyVars, budgetVars
<1>1. CASE WaitForTests
  BY <1>1 DEF WaitForTests
<1>2. CASE SandboxEvent
  <2>1. PICK s \in Successors[stage] :
          stage' = s /\ events' = Append(events, s)
    BY <1>2 DEF SandboxEvent
  <2>2. s \in Stage \ {"none"}
    BY <2>1, SuccessorsAreStages
  <2>3. events' \in Seq(Stage \ {"none"}) /\ events' # <<>>
    BY <2>1, <2>2, AppendProperties
  <2> QED
    BY <1>2, <2>1, <2>2, <2>3 DEF SandboxEvent
<1> QED
  BY <1>1, <1>2 DEF SandboxStep

LEMMA HandlerTypes == TypeInv /\ HandlerStep => TypeInv'
<1> SUFFICES ASSUME TypeInv, HandlerStep PROVE TypeInv'
  OBVIOUS
<1> USE DEF TypeInv, RunTypeOK, MessagesHeld, RowExists, Status, Verdicts,
    apiVars, sandboxVars, laneVars, tallyVars, budgetVars, AckEvent
<1>1. CASE CheckEvent
  <2>1. CASE status = "cancelled"
    BY <1>1, <2>1, EventTypes DEF CheckEvent
  <2>2. CASE status # "cancelled"
    BY <1>1, <2>2 DEF CheckEvent, handlerVars
  <2> QED
    BY <2>1, <2>2
<1>2. CASE ApplyReady
  BY <1>2 DEF ApplyReady
<1>3. CASE ApplyFailed
  BY <1>3, EventTypes DEF ApplyFailed
<1>4. CASE ApplyOther
  BY <1>4, EventTypes DEF ApplyOther
<1>5. CASE PublishCommand
  <2>1. PICK d \in todo :
          /\ todo' = todo \ {d}
          /\ cmds' = [cmds EXCEPT !["bulk"] =
                        Append(@, [def |-> d, id |-> 0])]
    BY <1>5 DEF PublishCommand
  <2>2. [def |-> d, id |-> 0] \in Command
    BY RunAssumption DEF Command
  <2>3. /\ cmds' \in [Lanes -> Seq(Command)]
        /\ \A k \in Lanes : cmds[k] # <<>> => cmds'[k] # <<>>
    <3> "bulk" \in Lanes
      BY DEF Lanes
    <3> QED
      BY <2>1, <2>2, PublishTypes
  <2> QED
    BY <1>5, <2>1, <2>3 DEF PublishCommand
<1>6. CASE WriteCount
  BY <1>6 DEF WriteCount
<1>7. CASE TellReady
  BY <1>7, EventTypes DEF TellReady
<1>8. CASE EventRaises
  BY <1>8, EventTypes, RunAssumption DEF EventRaises, Fault
<1> QED
  BY <1>1, <1>2, <1>3, <1>4, <1>5, <1>6, <1>7, <1>8 DEF HandlerStep

LEMMA TriggerTypes == TypeInv /\ TriggerTest => TypeInv'
<1> SUFFICES ASSUME TypeInv, TriggerTest PROVE TypeInv'
  OBVIOUS
<1> USE DEF TypeInv, RunTypeOK, MessagesHeld, RowExists, Status, Verdicts,
    apiVars, sandboxVars, handlerVars, laneVars, tallyVars
<1>1. PICK d \in Definitions :
        cmds' = [cmds EXCEPT !["ai"] = Append(@, [def |-> d, id |-> asked + 1])]
  BY DEF TriggerTest
<1>2. [def |-> d, id |-> asked + 1] \in Command
  BY RunAssumption DEF Command, TriggerTest
<1>3. /\ cmds' \in [Lanes -> Seq(Command)]
      /\ \A k \in Lanes : cmds[k] # <<>> => cmds'[k] # <<>>
  <2> "ai" \in Lanes
    BY DEF Lanes
  <2> QED
    BY <1>1, <1>2, PublishTypes
<1>4. /\ asked' \in 0..MaxAiTests
      /\ UNCHANGED <<status, dispatched, starts, notices, request, canceller,
                     stage, waited, events, handler, todo, at, cur, rows, msgs,
                     tally, verdict, faults>>
  BY RunAssumption DEF TriggerTest
<1> QED
  BY <1>3, <1>4

(* What a step of a lane may do to the rows. *)
RowsStep ==
  \/ rows' = rows
  \/ \E r \in Row : rows' = Append(rows, r)
  \/ \E i \in DOMAIN rows : \E o \in {"passed", "failed"} :
       rows' = [rows EXCEPT ![i] = [rows[i] EXCEPT !.status = o]]

LEMMA RowsTypes ==
  ASSUME TypeInv, RowsStep
  PROVE  /\ rows' \in Seq(Row)
         /\ OneRowEach' => OneRowEach
         /\ AllFinished => AllFinished'
<1> rows \in Seq(Row) /\ DOMAIN rows = 1..Len(rows) /\ Len(rows) \in Nat
  BY LenProperties DEF TypeInv, RunTypeOK
<1>1. CASE rows' = rows
  BY <1>1 DEF OneRowEach, AllFinished, Has
<1>2. CASE \E r \in Row : rows' = Append(rows, r)
  <2>1. PICK r \in Row : rows' = Append(rows, r)
    BY <1>2
  <2>2. /\ rows' \in Seq(Row)
        /\ Len(rows') = Len(rows) + 1
        /\ \A i \in 1..Len(rows) : rows'[i] = rows[i]
    BY <2>1, AppendProperties
  <2>3. DOMAIN rows' = 1..Len(rows')
    BY <2>2, LenProperties
  <2>4. \A i \in DOMAIN rows : i \in DOMAIN rows' /\ rows'[i] = rows[i]
    BY <2>2, <2>3
  <2> QED
    BY <2>2, <2>4 DEF OneRowEach, AllFinished, Has
<1>3. CASE \E i \in DOMAIN rows : \E o \in {"passed", "failed"} :
             rows' = [rows EXCEPT ![i] = [rows[i] EXCEPT !.status = o]]
  <2>1. PICK i \in DOMAIN rows, o \in {"passed", "failed"} :
          rows' = [rows EXCEPT ![i] = [rows[i] EXCEPT !.status = o]]
    BY <1>3
  <2>2. rows[i] \in Row
    BY ElementOfSeq
  <2>3. [rows[i] EXCEPT !.status = o] \in Row
    BY <2>2 DEF Row
  <2>4. /\ rows' \in Seq(Row)
        /\ DOMAIN rows' = DOMAIN rows
        /\ \A j \in DOMAIN rows :
             rows'[j] = IF j = i THEN [rows[i] EXCEPT !.status = o] ELSE rows[j]
    BY <2>1, <2>3, ExceptSeq
  <2>5. \A j \in DOMAIN rows :
          /\ rows'[j].def = rows[j].def
          /\ rows[j].status \in {"passed", "failed", "skipped"}
               => rows'[j].status \in {"passed", "failed", "skipped"}
    BY <2>2, <2>4 DEF Row
  <2> QED
    BY <2>4, <2>5 DEF OneRowEach, AllFinished, Has
<1> QED
  BY <1>1, <1>2, <1>3 DEF RowsStep

LEMMA LaneRows ==
  ASSUME TypeInv, NEW l \in Lanes, LaneStep(l)
  PROVE  RowsStep /\ cur' \in [Lanes -> Nat]
<1> USE DEF TypeInv, RunTypeOK, MessagesHeld
<1> DOMAIN rows = 1..Len(rows) /\ Len(rows) \in Nat
  BY LenProperties
<1>1. ASSUME NEW id \in 0..MaxAiTests,
             NEW state \in {"running", "skipped"},
             Taking(l), InsertRow(l, id, state)
      PROVE  RowsStep /\ cur' \in [Lanes -> Nat]
  <2>1. Head(cmds[l]) \in Command
    BY <1>1, AckTypes DEF Taking
  <2>2. [def |-> Head(cmds[l]).def, id |-> id, status |-> state] \in Row
    BY <2>1 DEF Command, Row
  <2>3. RowsStep
    BY <1>1, <2>2 DEF InsertRow, RowsStep
  <2>4. cur' \in [Lanes -> Nat]
    BY <1>1 DEF InsertRow
  <2> QED
    BY <2>3, <2>4
<1>2. CASE SkipTest(l)
  BY <1>1, <1>2, RunAssumption DEF SkipTest
<1>3. CASE StartTest(l)
  <2>1. Head(cmds[l]) \in Command
    BY <1>3, AckTypes DEF StartTest, Taking
  <2> QED
    BY <1>1, <1>3, <2>1 DEF StartTest, Command
<1>4. CASE EndTest(l)
  <2>1. PICK o \in {"passed", "failed"} :
          rows' = [rows EXCEPT ![cur[l]].status = o]
    BY <1>4 DEF EndTest
  <2>2. CASE cur[l] \in DOMAIN rows
    <3>1. rows' = [rows EXCEPT ![cur[l]] = [rows[cur[l]] EXCEPT !.status = o]]
      BY <2>1
    <3> QED
      BY <1>4, <2>2, <3>1 DEF EndTest, RowsStep
  <2>3. CASE cur[l] \notin DOMAIN rows
    <3>1. rows' = rows
      BY <2>1, <2>3
    <3> QED
      BY <1>4, <3>1 DEF EndTest, RowsStep
  <2> QED
    BY <2>2, <2>3
<1>5. CASE InsertConflicts(l) \/ PublishResult(l) \/ FinishCommand(l)
           \/ CommandRaises(l)
  BY <1>5 DEF InsertConflicts, PublishResult, FinishCommand, CommandRaises,
     RowsStep
<1> QED
  BY <1>2, <1>3, <1>4, <1>5 DEF LaneStep

LEMMA LaneTypes ==
  ASSUME TypeInv, NEW l \in Lanes, LaneStep(l)
  PROVE  TypeInv'
<1> USE DEF TypeInv, RunTypeOK, MessagesHeld, RowExists, Status, Verdicts
<1>1. rows' \in Seq(Row) /\ cur' \in [Lanes -> Nat]
  BY LaneRows, RowsTypes
<1>2. ASSUME AckCommand(l), cmds[l] # <<>>
      PROVE  /\ cmds' \in [Lanes -> Seq(Command)]
             /\ at' \in [Lanes -> {"idle", "run", "publish", "ack"}]
             /\ \A k \in Lanes : at'[k] # "idle" => cmds'[k] # <<>>
  BY <1>2, AckTypes DEF AckCommand, Enter
<1> USE DEF LaneFrame, apiVars, sandboxVars, handlerVars, tallyVars, Taking
<1>3. CASE SkipTest(l)
  BY <1>1, <1>3 DEF SkipTest, Enter
<1>4. CASE StartTest(l)
  BY <1>1, <1>4 DEF StartTest, Enter
<1>5. CASE InsertConflicts(l)
  BY <1>1, <1>2, <1>5 DEF InsertConflicts
<1>6. CASE EndTest(l)
  BY <1>1, <1>6 DEF EndTest, Enter
<1>7. CASE PublishResult(l)
  BY <1>1, <1>7 DEF PublishResult, Enter
<1>8. CASE FinishCommand(l)
  BY <1>1, <1>2, <1>8 DEF FinishCommand
<1>9. CASE CommandRaises(l)
  BY <1>1, <1>2, <1>9, RunAssumption DEF CommandRaises, Fault
<1> QED
  BY <1>3, <1>4, <1>5, <1>6, <1>7, <1>8, <1>9 DEF LaneStep

LEMMA TallyTypes == TypeInv /\ TallyStep => TypeInv'
<1> SUFFICES ASSUME TypeInv, TallyStep PROVE TypeInv'
  OBVIOUS
<1> USE DEF TypeInv, RunTypeOK, MessagesHeld, RowExists, Status, Verdicts,
    apiVars, sandboxVars, handlerVars, laneVars, TallyFrame, AckResult
<1>1. CASE CountResults
  BY <1>1 DEF CountResults
<1>2. CASE ComputeRate
  <2>1. FinalStatus(Cardinality(Rows({"passed"})), Len(rows)) \in Verdicts
    BY DEF FinalStatus
  <2> QED
    BY <1>2, <2>1 DEF ComputeRate
<1>3. CASE CloseRun
  BY <1>3 DEF CloseRun
<1>4. CASE Notify
  BY <1>4 DEF Notify
<1>5. CASE ResultRaises
  BY <1>5, RunAssumption DEF ResultRaises, Fault
<1> QED
  BY <1>1, <1>2, <1>3, <1>4, <1>5 DEF TallyStep

LEMMA CrashTypes ==
  TypeInv /\ (OrchestratorCrash \/ RunnerCrash) => TypeInv'
<1> SUFFICES ASSUME TypeInv, OrchestratorCrash \/ RunnerCrash PROVE TypeInv'
  OBVIOUS
<1> USE RunAssumption DEF TypeInv, RunTypeOK, MessagesHeld, RowExists, Status,
    Verdicts, apiVars, sandboxVars, handlerVars, laneVars, tallyVars, Fault
<1>1. CASE OrchestratorCrash
  BY <1>1 DEF OrchestratorCrash
<1>2. CASE RunnerCrash
  BY <1>2 DEF RunnerCrash
<1> QED
  BY <1>1, <1>2

LEMMA TypeStep == TypeInv /\ [RunNext]_runVars => TypeInv'
<1> SUFFICES ASSUME TypeInv, [RunNext]_runVars PROVE TypeInv'
  OBVIOUS
<1>1. CASE UNCHANGED runVars
  BY <1>1 DEF runVars, TypeInv, RunTypeOK, MessagesHeld, RowExists, apiVars,
     sandboxVars, handlerVars, laneVars, tallyVars, budgetVars
<1> QED
  BY <1>1, ApiTypes, SandboxTypes, HandlerTypes, TriggerTypes, LaneTypes,
     TallyTypes, CrashTypes DEF RunNext

(* The variables of a run keep their types, and no handler is at work      *)
(* without a message.                                                      *)
THEOREM RunTypeCorrect == RunSpec => []RunTypeOK
<1>1. TypeInv => RunTypeOK
  BY DEF TypeInv
<1> QED
  BY <1>1, TypeInit, TypeStep, PTL DEF RunSpec

-----------------------------------------------------------------------------
(* A verdict has at most one notification, and needs a start of its own. *)
NoticeInv ==
  notices + (IF tally = "notify" THEN 1 ELSE 0)
          + (IF status = "running" THEN 1 ELSE 0) <= starts

LEMMA NoticeStep ==
  TypeInv /\ NoticeInv /\ [RunNext]_runVars => NoticeInv'
<1> SUFFICES ASSUME TypeInv, NoticeInv, [RunNext]_runVars PROVE NoticeInv'
  OBVIOUS
<1> USE DEF TypeInv, RunTypeOK, RowExists, NoticeInv, Verdicts, tallyVars
<1>1. CASE ApiStep
  BY <1>1 DEF ApiStep, TriggerRun, PublishRequest, ReadForCancel, CommitCancel
<1>2. CASE SandboxStep
  BY <1>2 DEF SandboxStep, WaitForTests, SandboxEvent
<1>3. CASE HandlerStep
  BY <1>3 DEF HandlerStep, CheckEvent, ApplyReady, ApplyFailed, ApplyOther,
     PublishCommand, WriteCount, TellReady, EventRaises
<1>4. CASE TriggerTest
  BY <1>4 DEF TriggerTest
<1>5. ASSUME NEW l \in Lanes, LaneStep(l) PROVE NoticeInv'
  BY <1>5 DEF LaneStep, SkipTest, StartTest, InsertConflicts, EndTest,
     PublishResult, FinishCommand, CommandRaises, LaneFrame
<1>6. CASE TallyStep
  BY <1>6 DEF TallyStep, CountResults, ComputeRate, CloseRun, Notify,
     ResultRaises, AckResult, TallyFrame
<1>7. CASE OrchestratorCrash \/ RunnerCrash
  BY <1>7 DEF OrchestratorCrash, RunnerCrash
<1>8. CASE UNCHANGED runVars
  BY <1>8 DEF runVars
<1> QED
  BY <1>1, <1>2, <1>3, <1>4, <1>5, <1>6, <1>7, <1>8 DEF RunNext

(* However often messages are redelivered, a start of the run leads to at  *)
(* most one final notification.                                            *)
THEOREM RunNotifiedOnce == RunSpec => []NotifiedOnce
<1>1. RunInit => NoticeInv
  BY DEF RunInit, NoticeInv
<1>2. TypeInv /\ NoticeInv => NotifiedOnce
  BY DEF TypeInv, RunTypeOK, NoticeInv, NotifiedOnce
<1> QED
  BY TypeInit, TypeStep, NoticeStep, <1>1, <1>2, PTL DEF RunSpec

-----------------------------------------------------------------------------
(* Every step of a run is a step of its contract. *)
LEMMA PromiseStep ==
  TypeInv /\ [RunNext]_runVars
    => [Promise!RunContractNext]_(Promise!runContractVars)
<1> SUFFICES ASSUME TypeInv, [RunNext]_runVars
             PROVE  \/ Promise!RunContractNext
                    \/ UNCHANGED <<status, starts, notices, (tally = "notify")>>
  BY DEF Promise!runContractVars
<1> USE DEF TypeInv, RunTypeOK, RowExists, MessagesHeld, Verdicts, tallyVars,
    Promise!RunContractNext, Promise!Queued, Promise!Started, Promise!Ended,
    Promise!Judged, Promise!Announced, Promise!Forgotten, Promise!Verdicts
<1>1. CASE ApiStep
  BY <1>1 DEF ApiStep, TriggerRun, PublishRequest, ReadForCancel, CommitCancel
<1>2. CASE SandboxStep
  BY <1>2 DEF SandboxStep, WaitForTests, SandboxEvent
<1>3. CASE HandlerStep
  BY <1>3 DEF HandlerStep, CheckEvent, ApplyReady, ApplyFailed, ApplyOther,
     PublishCommand, WriteCount, TellReady, EventRaises
<1>4. CASE TriggerTest
  BY <1>4 DEF TriggerTest
<1>5. ASSUME NEW l \in Lanes, LaneStep(l)
      PROVE  UNCHANGED <<status, starts, notices, (tally = "notify")>>
  BY <1>5 DEF LaneStep, SkipTest, StartTest, InsertConflicts, EndTest,
     PublishResult, FinishCommand, CommandRaises, LaneFrame
<1>6. CASE TallyStep
  BY <1>6 DEF TallyStep, CountResults, ComputeRate, CloseRun, Notify,
     ResultRaises, AckResult, TallyFrame
<1>7. CASE OrchestratorCrash \/ RunnerCrash
  BY <1>7 DEF OrchestratorCrash, RunnerCrash
<1>8. CASE UNCHANGED runVars
  BY <1>8 DEF runVars
<1> QED
  BY <1>1, <1>2, <1>3, <1>4, <1>5, <1>6, <1>7, <1>8 DEF RunNext

(* The run, with its crashes, redeliveries and lost updates, implements    *)
(* RunContract: only a running run is judged, and only a judged run is     *)
(* announced.                                                              *)
THEOREM RunKeepsContract == RunSpec => ImplementsRunContract
<1>1. RunInit => Promise!RunContractInit
  BY DEF RunInit, Promise!RunContractInit
<1> QED
  BY <1>1, TypeInit, TypeStep, PromiseStep, PTL
     DEF RunSpec, ImplementsRunContract, Promise!RunContractSpec

-----------------------------------------------------------------------------
(* While each dispatched test has at most one row, as many finished rows   *)
(* as dispatched tests are all of them.                                    *)
LEMMA CountedIsAll ==
  ASSUME TypeInv, OneRowEach, NEW F \in SUBSET DOMAIN rows,
         \A i \in F : rows[i].status \in {"passed", "failed", "skipped"},
         Cardinality(F) >= Cardinality(Selected)
  PROVE  AllFinished
<1> DEFINE f == [i \in F |-> rows[i].def]
<1>1. IsFiniteSet(Selected) /\ Cardinality(Selected) \in Nat
  BY RunAssumption, FS_Subset, FS_CardinalityType
<1>2. f \in Injection(F, Selected)
  BY DEF OneRowEach, Injection, IsInjective
<1>3. IsFiniteSet(F) /\ Cardinality(F) <= Cardinality(Selected)
  BY <1>1, <1>2, FS_Injection
<1>4. Cardinality(F) \in Nat
  BY <1>3, FS_CardinalityType
<1>5. f \in Surjection(F, Selected)
  BY <1>1, <1>2, <1>3, <1>4, FS_Injection
<1>6. \A d \in Selected : \E i \in F : rows[i].def = d
  BY <1>5 DEF Surjection
<1> QED
  BY <1>6 DEF AllFinished, Has

LEMMA TalliedIsAll ==
  ASSUME TypeInv, OneRowEach, dispatched # 0, Finished >= dispatched
  PROVE  AllFinished
<1>1. dispatched = Cardinality(Selected)
  BY DEF TypeInv, RunTypeOK
<1> QED
  BY <1>1, CountedIsAll DEF Finished, Rows

LEMMA WaitedIsAll ==
  ASSUME TypeInv, OneRowEach, AllTestsDone
  PROVE  AllFinished
<1>1. dispatched = Cardinality(Selected)
  BY DEF TypeInv, RunTypeOK, AllTestsDone
<1>2. rows \in Seq(Row) /\ DOMAIN rows = 1..Len(rows) /\ Len(rows) \in Nat
  BY LenProperties DEF TypeInv, RunTypeOK
<1>3. IsFiniteSet(DOMAIN rows) /\ Cardinality(DOMAIN rows) = Len(rows)
  BY <1>2, FS_Interval
<1>4. Rows({"running"}) = {}
  <2>1. IsFiniteSet(Rows({"running"}))
    BY <1>3, FS_Subset DEF Rows
  <2> QED
    BY <2>1, FS_EmptySet DEF AllTestsDone, InFlight
<1>5. \A i \in DOMAIN rows : rows[i].status \in {"passed", "failed", "skipped"}
  <2>1. \A i \in DOMAIN rows : rows[i] \in Row
    BY <1>2, ElementOfSeq
  <2> QED
    BY <1>4, <2>1 DEF Rows, Row
<1> QED
  BY <1>1, <1>3, <1>5, CountedIsAll DEF AllTestsDone

(* What JudgedWhenDone and SandboxOutlivesTests need to be inductive: the  *)
(* rows are complete as soon as they were counted.                         *)
DoneInv ==
  OneRowEach =>
    /\ tally # "idle" \/ Judged => AllFinished
    /\ waited = "done" => AllFinished

LEMMA DoneStep == TypeInv /\ DoneInv /\ [RunNext]_runVars => DoneInv'
<1> SUFFICES ASSUME TypeInv, DoneInv, [RunNext]_runVars PROVE DoneInv'
  OBVIOUS
<1>0. ASSUME rows' = rows
      PROVE  (OneRowEach' <=> OneRowEach) /\ (AllFinished' <=> AllFinished)
  BY <1>0 DEF OneRowEach, AllFinished, Has
<1> USE DEF DoneInv, Judged, sandboxVars, laneVars, tallyVars
<1>1. CASE ApiStep
  BY <1>0, <1>1
     DEF ApiStep, TriggerRun, PublishRequest, ReadForCancel, CommitCancel
<1>2. CASE WaitForTests
  BY <1>0, <1>2, WaitedIsAll DEF WaitForTests
<1>3. CASE SandboxEvent
  BY <1>0, <1>3 DEF SandboxEvent
<1>4. CASE HandlerStep
  BY <1>0, <1>4 DEF HandlerStep, CheckEvent, ApplyReady, ApplyFailed,
     ApplyOther, PublishCommand, WriteCount, TellReady, EventRaises
<1>5. CASE TriggerTest
  BY <1>0, <1>5 DEF TriggerTest
<1>6. ASSUME NEW l \in Lanes, LaneStep(l) PROVE DoneInv'
  <2>1. UNCHANGED <<status, waited, tally>>
    BY <1>6 DEF LaneStep, SkipTest, StartTest, InsertConflicts, EndTest,
       PublishResult, FinishCommand, CommandRaises, LaneFrame
  <2>2. (OneRowEach' => OneRowEach) /\ (AllFinished => AllFinished')
    BY <1>6, LaneRows, RowsTypes
  <2> QED
    BY <2>1, <2>2
<1>7. CASE CountResults
  <2>1. UNCHANGED <<status, waited, rows>>
    BY <1>7 DEF CountResults, TallyFrame
  <2>2. CASE dispatched = 0 \/ InFlight > 0 \/ Finished < dispatched
    BY <1>0, <1>7, <2>1, <2>2 DEF CountResults, AckResult
  <2>3. CASE dispatched # 0 /\ Finished >= dispatched
    BY <1>0, <2>1, <2>3, TalliedIsAll
  <2>4. dispatched \in Nat /\ Finished \in Nat
    <3>1. IsFiniteSet(DOMAIN rows)
      BY LenProperties, FS_Interval DEF TypeInv, RunTypeOK
    <3>2. IsFiniteSet(Rows({"passed", "failed", "skipped"}))
      BY <3>1, FS_Subset DEF Rows
    <3>3. IsFiniteSet(Selected)
      BY RunAssumption, FS_Subset
    <3> QED
      BY <3>2, <3>3, FS_CardinalityType DEF Finished, TypeInv, RunTypeOK
  <2> QED
    BY <2>2, <2>3, <2>4
<1>8. CASE ComputeRate
  BY <1>0, <1>8 DEF ComputeRate, TallyFrame
<1>9. CASE CloseRun \/ Notify \/ ResultRaises
  BY <1>0, <1>9 DEF CloseRun, Notify, ResultRaises, AckResult, TallyFrame
<1>10. CASE OrchestratorCrash \/ RunnerCrash
  BY <1>0, <1>10 DEF OrchestratorCrash, RunnerCrash
<1>11. CASE UNCHANGED runVars
  BY <1>0, <1>11 DEF runVars
<1> QED
  BY <1>1, <1>2, <1>3, <1>4, <1>5, <1>6, <1>7, <1>8, <1>9, <1>10, <1>11
     DEF RunNext, SandboxStep, TallyStep

LEMMA DoneAlways == RunSpec => []DoneInv
<1>1. RunInit => DoneInv
  BY DEF RunInit, DoneInv, Judged
<1> QED
  BY <1>1, TypeInit, TypeStep, DoneStep, PTL DEF RunSpec

(* A run is never judged before all the tests it dispatched have finished, *)
(* as long as none of them has run twice and no AI session interferes.     *)
THEOREM RunJudgedWhenDone == RunSpec => []JudgedWhenDone
<1>1. DoneInv => JudgedWhenDone
  BY DEF DoneInv, JudgedWhenDone
<1> QED
  BY <1>1, DoneAlways, PTL

(* Nor is its sandbox torn down as finished before they have.              *)
THEOREM SandboxKeptForTests == RunSpec => []SandboxOutlivesTests
<1>1. DoneInv => SandboxOutlivesTests
  BY DEF DoneInv, SandboxOutlivesTests
<1> QED
  BY <1>1, DoneAlways, PTL

-----------------------------------------------------------------------------
(* The row a lane writes is its own, and the test of it has not ended.     *)
LaneRowsInv ==
  /\ \A l \in Lanes : at[l] = "run" =>
       cur[l] \in DOMAIN rows /\ rows[cur[l]].status = "running"
  /\ \A k, l \in Lanes : at[k] = "run" /\ at[l] = "run" /\ cur[k] = cur[l] => k = l

LEMMA LaneRowsStep == TypeInv /\ LaneRowsInv /\ [RunNext]_runVars => LaneRowsInv'
<1> SUFFICES ASSUME TypeInv, LaneRowsInv, [RunNext]_runVars PROVE LaneRowsInv'
  OBVIOUS
<1>0. /\ rows \in Seq(Row) /\ DOMAIN rows = 1..Len(rows) /\ Len(rows) \in Nat
      /\ cur \in [Lanes -> Nat]
      /\ at \in [Lanes -> {"idle", "run", "publish", "ack"}]
  BY LenProperties DEF TypeInv, RunTypeOK
<1>1. ASSUME NEW l \in Lanes, LaneStep(l) PROVE LaneRowsInv'
  <2>1. CASE StartTest(l)
    <3>1. PICK r : r.status = "running" /\ rows' = Append(rows, r)
      BY <2>1 DEF StartTest, InsertRow
    <3>2. /\ DOMAIN rows' = 1..(Len(rows) + 1)
          /\ rows'[Len(rows) + 1] = r
          /\ \A i \in DOMAIN rows : i \in DOMAIN rows' /\ rows'[i] = rows[i]
          /\ Len(rows) + 1 \notin DOMAIN rows
          /\ Len(rows) + 1 \in DOMAIN rows'
      BY <1>0, <3>1
    <3>3. /\ cur' = [cur EXCEPT ![l] = Len(rows) + 1]
          /\ at' = [at EXCEPT ![l] = "run"]
      BY <2>1 DEF StartTest, InsertRow, Enter
    <3>4. /\ cur'[l] = Len(rows) + 1
          /\ \A k \in Lanes \ {l} : cur'[k] = cur[k] /\ at'[k] = at[k]
      BY <1>0, <3>3
    <3>5. ASSUME NEW k \in Lanes, at'[k] = "run"
          PROVE  cur'[k] \in DOMAIN rows' /\ rows'[cur'[k]].status = "running"
      <4>1. CASE k = l
        BY <3>1, <3>2, <3>4, <4>1
      <4>2. CASE k # l
        BY <3>2, <3>4, <3>5, <4>2 DEF LaneRowsInv
      <4> QED
        BY <4>1, <4>2
    <3>6. ASSUME NEW j \in Lanes, NEW k \in Lanes,
                 at'[j] = "run", at'[k] = "run", cur'[j] = cur'[k]
          PROVE  j = k
      BY <3>2, <3>4, <3>6 DEF LaneRowsInv
    <3> QED
      BY <3>5, <3>6 DEF LaneRowsInv
  <2>2. CASE SkipTest(l)
    <3>1. PICK r : rows' = Append(rows, r)
      BY <2>2 DEF SkipTest, InsertRow
    <3>2. \A i \in DOMAIN rows : i \in DOMAIN rows' /\ rows'[i] = rows[i]
      BY <1>0, <3>1
    <3>3. \A k \in Lanes : at'[k] = "run" => at[k] = "run" /\ cur'[k] = cur[k]
      BY <1>0, <2>2 DEF SkipTest, InsertRow, Enter
    <3> QED
      BY <3>2, <3>3 DEF LaneRowsInv
  <2>3. CASE EndTest(l)
    <3>1. PICK o : rows' = [rows EXCEPT ![cur[l]].status = o]
      BY <2>3 DEF EndTest
    <3>2. /\ DOMAIN rows' = DOMAIN rows
          /\ \A i \in DOMAIN rows : i # cur[l] => rows'[i] = rows[i]
      BY <3>1
    <3>3. at' = [at EXCEPT ![l] = "publish"] /\ UNCHANGED cur /\ at[l] = "run"
      BY <2>3 DEF EndTest, Enter
    <3>4. \A k \in Lanes : at'[k] = "run" => k # l /\ at[k] = "run"
      BY <1>0, <3>3
    <3>5. \A k \in Lanes : at'[k] = "run" => cur[k] # cur[l]
      BY <3>3, <3>4 DEF LaneRowsInv
    <3> QED
      BY <3>2, <3>3, <3>4, <3>5 DEF LaneRowsInv
  <2>4. CASE \/ InsertConflicts(l) \/ PublishResult(l)
             \/ FinishCommand(l) \/ CommandRaises(l)
    <3>1. UNCHANGED <<rows, cur>>
      BY <2>4 DEF InsertConflicts, PublishResult, FinishCommand, CommandRaises
    <3>2. \A k \in Lanes : at'[k] = "run" => at[k] = "run"
      BY <1>0, <2>4 DEF InsertConflicts, PublishResult, FinishCommand, CommandRaises,
         AckCommand, Enter
    <3> QED
      BY <3>1, <3>2 DEF LaneRowsInv
  <2> QED
    BY <1>1, <2>1, <2>2, <2>3, <2>4 DEF LaneStep
<1>2. CASE RunnerCrash
  BY <1>2 DEF RunnerCrash, LaneRowsInv
<1>3. CASE ApiStep \/ SandboxStep \/ HandlerStep \/ TriggerTest \/ TallyStep
           \/ OrchestratorCrash \/ UNCHANGED runVars
  <2>1. UNCHANGED laneVars
    BY <1>3 DEF ApiStep, TriggerRun, PublishRequest, ReadForCancel, CommitCancel,
       SandboxStep, WaitForTests, SandboxEvent, HandlerStep, CheckEvent, ApplyReady,
       ApplyFailed, ApplyOther, PublishCommand, WriteCount, TellReady, EventRaises,
       TriggerTest, TallyStep, CountResults, ComputeRate, CloseRun, Notify,
       ResultRaises, TallyFrame, OrchestratorCrash, runVars
  <2> QED
    BY <2>1 DEF laneVars, LaneRowsInv
<1> QED
  BY <1>1, <1>2, <1>3 DEF RunNext

(* Once every dispatched test has its finished row, a lane can change no   *)
(* row and add only one that makes two of a test.                          *)
LEMMA FinishedRowsStay ==
  ASSUME TypeInv, LaneRowsInv, OneRowEach, AllFinished, OneRowEach',
         NEW l \in Lanes, LaneStep(l)
  PROVE  rows' = rows
<1>0. /\ rows \in Seq(Row) /\ DOMAIN rows = 1..Len(rows) /\ Len(rows) \in Nat
  BY LenProperties DEF TypeInv, RunTypeOK
<1>1. ASSUME NEW r, rows' = Append(rows, r) PROVE FALSE
  <2>1. /\ Len(rows) + 1 \in DOMAIN rows'
        /\ rows'[Len(rows) + 1] = r
        /\ \A i \in DOMAIN rows : i \in DOMAIN rows' /\ rows'[i] = rows[i]
        /\ Len(rows) + 1 \notin DOMAIN rows
    BY <1>0, <1>1
  <2>2. r.def \in Selected
    BY <2>1 DEF OneRowEach
  <2>3. PICK i \in DOMAIN rows : rows[i].def = r.def
    BY <2>2 DEF AllFinished, Has
  <2>4. i = Len(rows) + 1
    BY <2>1, <2>3 DEF OneRowEach
  <2> QED
    BY <2>1, <2>3, <2>4
<1>2. CASE SkipTest(l) \/ StartTest(l)
  BY <1>1, <1>2 DEF SkipTest, StartTest, InsertRow
<1>3. CASE EndTest(l)
  <2>1. cur[l] \in DOMAIN rows /\ rows[cur[l]].status = "running"
    BY <1>3 DEF EndTest, LaneRowsInv
  <2>2. rows[cur[l]].def \in Selected
    BY <2>1 DEF OneRowEach
  <2>3. PICK i \in DOMAIN rows :
          /\ rows[i].def = rows[cur[l]].def
          /\ rows[i].status \in {"passed", "failed", "skipped"}
    BY <2>2 DEF AllFinished, Has
  <2>4. i = cur[l]
    BY <2>1, <2>3 DEF OneRowEach
  <2> QED
    BY <2>1, <2>3, <2>4
<1>4. CASE \/ InsertConflicts(l) \/ PublishResult(l)
           \/ FinishCommand(l) \/ CommandRaises(l)
  BY <1>4 DEF InsertConflicts, PublishResult, FinishCommand, CommandRaises
<1> QED
  BY <1>2, <1>3, <1>4 DEF LaneStep

(* Then counting rows is counting tests.                                   *)
LEMMA RowsAreTests ==
  ASSUME TypeInv, OneRowEach, AllFinished
  PROVE  /\ Len(rows) = Cardinality(Selected)
         /\ Cardinality(Rows({"passed"}))
              = Cardinality({d \in Selected : Has(d, {"passed"})})
         /\ Cardinality(Rows({"passed"})) \in Nat
<1>0. /\ rows \in Seq(Row) /\ DOMAIN rows = 1..Len(rows) /\ Len(rows) \in Nat
  BY LenProperties DEF TypeInv, RunTypeOK
<1>1. IsFiniteSet(DOMAIN rows) /\ Cardinality(DOMAIN rows) = Len(rows)
  BY <1>0, FS_Interval
<1>2. Len(rows) = Cardinality(Selected)
  <2> DEFINE f == [i \in DOMAIN rows |-> rows[i].def]
  <2>1. f \in Bijection(DOMAIN rows, Selected)
    <3>1. f \in Injection(DOMAIN rows, Selected)
      BY DEF OneRowEach, Injection, IsInjective
    <3>2. f \in Surjection(DOMAIN rows, Selected)
      BY <3>1 DEF AllFinished, Has, Surjection, Injection
    <3> QED
      BY <3>1, <3>2 DEF Bijection
  <2> QED
    BY <1>1, <2>1, FS_Bijection DEF ExistsBijection
<1>3. IsFiniteSet(Rows({"passed"}))
  BY <1>1, FS_Subset DEF Rows
<1>4. Cardinality(Rows({"passed"}))
        = Cardinality({d \in Selected : Has(d, {"passed"})})
  <2> DEFINE G == {d \in Selected : Has(d, {"passed"})}
             f == [i \in Rows({"passed"}) |-> rows[i].def]
  <2>1. f \in Bijection(Rows({"passed"}), G)
    <3>1. f \in Injection(Rows({"passed"}), G)
      BY DEF OneRowEach, Injection, IsInjective, Rows, Has
    <3>2. f \in Surjection(Rows({"passed"}), G)
      BY <3>1 DEF Rows, Has, Surjection, Injection
    <3> QED
      BY <3>1, <3>2 DEF Bijection
  <2> QED
    BY <1>3, <2>1, FS_Bijection DEF ExistsBijection
<1> QED
  BY <1>2, <1>3, <1>4, FS_CardinalityType

(* A rate that was computed stays the rate of the rows.                    *)
Enough ==
  100 * Cardinality({d \in Selected : Has(d, {"passed"})})
    >= PASS_THRESHOLD_COMPLETED * Cardinality(Selected)

PassedInv ==
  /\ LaneRowsInv
  /\ OneRowEach /\ (status = "completed" \/ (tally = "close" /\ verdict = "completed"))
       => Enough

LEMMA PassedStep ==
  TypeInv /\ DoneInv /\ PassedInv /\ [RunNext]_runVars => PassedInv'
<1> SUFFICES ASSUME TypeInv, DoneInv, PassedInv, [RunNext]_runVars PROVE PassedInv'
  OBVIOUS
<1>l. LaneRowsInv'
  BY LaneRowsStep DEF PassedInv
<1>r. ASSUME rows' = rows PROVE (OneRowEach' <=> OneRowEach) /\ (Enough' <=> Enough)
  BY <1>r DEF OneRowEach, Enough, Has
<1>1. ASSUME NEW l \in Lanes, LaneStep(l) PROVE PassedInv'
  <2>1. UNCHANGED <<status, tally, verdict>>
    BY <1>1 DEF LaneStep, SkipTest, StartTest, InsertConflicts, EndTest,
       PublishResult, FinishCommand, CommandRaises, LaneFrame, tallyVars
  <2>2. OneRowEach' => OneRowEach
    BY <1>1, LaneRows, RowsTypes
  <2>3. ASSUME OneRowEach',
               status = "completed" \/ (tally = "close" /\ verdict = "completed")
        PROVE  Enough'
    <3>1. OneRowEach /\ AllFinished
      BY <2>2, <2>3 DEF DoneInv, Judged
    <3>2. rows' = rows
      BY <1>1, <2>3, <3>1, FinishedRowsStay DEF PassedInv
    <3> QED
      BY <1>r, <2>3, <3>1, <3>2 DEF PassedInv
  <2> QED
    BY <1>l, <2>1, <2>3 DEF PassedInv
<1>2. CASE ComputeRate
  <2>1. rows' = rows /\ tally = "rate" /\ UNCHANGED status
    BY <1>2 DEF ComputeRate, TallyFrame, laneVars
  <2>2. ASSUME OneRowEach, verdict' = "completed" PROVE Enough
    <3>1. AllFinished
      BY <2>1, <2>2 DEF DoneInv
    <3>2. FinalStatus(Cardinality(Rows({"passed"})), Len(rows)) = "completed"
      BY <1>2, <2>2 DEF ComputeRate
    <3>3. Cardinality(Rows({"passed"})) * 100 >= PASS_THRESHOLD_COMPLETED * Len(rows)
      BY <3>2 DEF FinalStatus
    <3> QED
      BY <2>2, <3>1, <3>3, RowsAreTests DEF Enough
  <2> QED
    BY <1>l, <1>r, <2>1, <2>2 DEF PassedInv
<1> USE DEF PassedInv, laneVars, tallyVars
<1>3. CASE CountResults \/ CloseRun \/ Notify \/ ResultRaises
  BY <1>l, <1>r, <1>3 DEF CountResults, CloseRun, Notify, ResultRaises, AckResult,
     TallyFrame
<1>4. CASE ApiStep \/ SandboxStep \/ TriggerTest
  BY <1>l, <1>r, <1>4 DEF ApiStep, TriggerRun, PublishRequest, ReadForCancel,
     CommitCancel, SandboxStep, WaitForTests, SandboxEvent, TriggerTest
<1>5. CASE HandlerStep
  BY <1>l, <1>r, <1>5 DEF HandlerStep, CheckEvent, ApplyReady, ApplyFailed,
     ApplyOther, PublishCommand, WriteCount, TellReady, EventRaises
<1>6. CASE OrchestratorCrash \/ RunnerCrash \/ UNCHANGED runVars
  BY <1>l, <1>r, <1>6 DEF OrchestratorCrash, RunnerCrash, runVars
<1> QED
  BY <1>1, <1>2, <1>3, <1>4, <1>5, <1>6 DEF RunNext, TallyStep

(* A run that is called completed has passed as large a share of its tests *)
(* as the threshold says, as long as no test has run twice.                *)
THEOREM CompletedRunsPassed == RunSpec => []CompletedMeansPassed
<1>1. RunInit => PassedInv
  BY DEF RunInit, PassedInv, LaneRowsInv
<1>2. PassedInv => CompletedMeansPassed
  BY DEF PassedInv, Enough, CompletedMeansPassed
<1> QED
  BY <1>1, <1>2, TypeInit, TypeStep, DoneAlways, PassedStep, PTL DEF RunSpec
=============================================================================
