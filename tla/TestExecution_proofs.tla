------------------------ MODULE TestExecution_proofs ------------------------
(***************************************************************************)
(* Proofs about TestExecution, for any set of tests, of assertions and of  *)
(* failures.                                                               *)
(*                                                                         *)
(* PassedExecutesOwn counts, so the invariant says for each queue how many *)
(* vouchers its test must have executed at the place where its executor    *)
(* is: one more as soon as the script of an execute assertion is done,     *)
(* before the executor takes its result.  It needs that a test is run by   *)
(* one queue, that the script an executor of execute mode awaits is the    *)
(* one it started, and that no other way leads such an executor to an      *)
(* answer that passes.                                                     *)
(***************************************************************************)
EXTENDS TestExecution, FiniteSetTheorems, TLAPS

Fields == {"test", "at", "doing", "before", "seen", "submitted", "ok"}

ExecutionTypeOK ==
  /\ running = [q \in Queues |-> running[q]]
  /\ \A q \in Queues : DOMAIN running[q] = Fields
  /\ scripts = [t \in Suite |-> scripts[t]]
  /\ \A t \in Suite : DOMAIN scripts[t] = {"job", "arg"}
  /\ outcome = [t \in Suite |-> outcome[t]]
  /\ IsFiniteSet(executedBy)

(* The execute assertions of a test before the one at k, and that the test *)
(* executed a voucher for each of them, by the vouchers S.                 *)
ExecutesBefore(t, k) ==
  {i \in DOMAIN Assertions[t] : i < k /\ Assertions[t][i] = "execute"}

Counted(S, t, k) ==
  Cardinality(ExecutesBefore(t, k)) <= Cardinality({x \in S : x.test = t})

(* Where an executor of execute mode can be, and what became of the script *)
(* that executes a voucher.                                                *)
Executing ==
  {"execute", "generating", "polling", "claims", "claiming", "trying",
   "executing"}
Tried == {"execute", "done", "failed", "OutputNotReexecutable"}

(* Of a queue at r whose script is at job: it executes vouchers, and that  *)
(* of its current assertion is executed.                                   *)
Executes(r) == Assertions[r.test][r.at] = "execute"

Settled(r, job) ==
  /\ Executes(r)
  /\ \/ r.doing = "answered" /\ r.ok
     \/ r.doing = "executing" /\ job = "done"

Busy(q, r) ==
  /\ r.test \in Suite /\ QueueOf[r.test] = q
  /\ r.at \in 1..(Len(Assertions[r.test]) + 1)
  /\ r.doing # "idle"

(* What the place of the executor says. *)
Placed(r, job) ==
  r.doing # "next" =>
    /\ r.at <= Len(Assertions[r.test])
    /\ Executes(r) /\ r.doing # "answered" => r.doing \in Executing
    /\ r.doing = "executing" => job \in Tried

Earned(r, job, S) ==
  /\ Counted(S, r.test, r.at)
  /\ r.doing # "next" /\ Settled(r, job) => Counted(S, r.test, r.at + 1)

(* Of queue q at r, by the outcome of its test, its script and the         *)
(* executed vouchers.                                                      *)
Right(q, r, out, job, S) ==
  \/ r.doing = "idle" /\ r.test = NoCase
  \/ /\ Busy(q, r)
     /\ out \in {"passed", "failed"}
     /\ Placed(r, job)
     /\ out = "passed" => Earned(r, job, S)

QueueRight(q) ==
  Right(q, running[q], outcome[TheTest(q)], scripts[TheTest(q)].job, executedBy)

(* A test that was run to its end. *)
OverRight(t) ==
  outcome[t] = "passed" /\ (\A q \in Queues : TheTest(q) # t) =>
    Counted(executedBy, t, Len(Assertions[t]) + 1)

ExecutionInv ==
  /\ ExecutionTypeOK
  /\ \A q \in Queues : QueueRight(q)
  /\ \A t \in Suite : OverRight(t)

-----------------------------------------------------------------------------
(* Counting.                                                               *)

LEMMA LenOfAssertions ==
  ASSUME NEW t \in Suite
  PROVE  /\ Assertions[t] \in Seq(AssertionTypes)
         /\ Len(Assertions[t]) \in Nat
         /\ DOMAIN Assertions[t] = 1..Len(Assertions[t])
<1>1. Assertions[t] \in Seq(AssertionTypes)
  BY ExecutionAssumption
<1>. HIDE DEF AssertionTypes
<1>. QED
  BY <1>1

LEMMA BeforeFinite ==
  ASSUME NEW t \in Suite, NEW k \in Nat
  PROVE  /\ IsFiniteSet(ExecutesBefore(t, k))
         /\ Cardinality(ExecutesBefore(t, k)) \in Nat
<1>1. IsFiniteSet(1..Len(Assertions[t]))
  BY LenOfAssertions, FS_Interval
<1>2. ExecutesBefore(t, k) \in SUBSET (1..Len(Assertions[t]))
  BY LenOfAssertions DEF ExecutesBefore
<1>. QED
  BY <1>1, <1>2, FS_Subset, FS_CardinalityType

(* One more assertion, and one more to count if it executes.               *)
LEMMA BeforeNext ==
  ASSUME NEW t \in Suite, NEW k \in 1..Len(Assertions[t])
  PROVE  IF Assertions[t][k] = "execute"
         THEN Cardinality(ExecutesBefore(t, k + 1)) =
                Cardinality(ExecutesBefore(t, k)) + 1
         ELSE ExecutesBefore(t, k + 1) = ExecutesBefore(t, k)
<1>1. k \in Nat /\ k \in DOMAIN Assertions[t] /\ DOMAIN Assertions[t] \subseteq Nat
  BY LenOfAssertions
<1>2. CASE Assertions[t][k] = "execute"
  <2>1. ExecutesBefore(t, k + 1) = ExecutesBefore(t, k) \cup {k}
    BY <1>1, <1>2 DEF ExecutesBefore
  <2>2. k \notin ExecutesBefore(t, k)
    BY <1>1 DEF ExecutesBefore
  <2>. QED
    BY <1>1, <1>2, <2>1, <2>2, BeforeFinite, FS_AddElement
<1>3. CASE Assertions[t][k] # "execute"
  BY <1>1, <1>3 DEF ExecutesBefore
<1>. QED
  BY <1>2, <1>3

LEMMA VouchersFinite ==
  ASSUME NEW S, IsFiniteSet(S), NEW t
  PROVE  /\ IsFiniteSet({x \in S : x.test = t})
         /\ Cardinality({x \in S : x.test = t}) \in Nat
<1>1. {x \in S : x.test = t} \in SUBSET S
  OBVIOUS
<1>. QED
  BY <1>1, FS_Subset, FS_CardinalityType

(* Nothing is counted before the first assertion. *)
LEMMA CountedAtFirst ==
  ASSUME NEW S, IsFiniteSet(S), NEW t \in Suite
  PROVE  Counted(S, t, 1)
<1>1. ExecutesBefore(t, 1) = {}
  BY LenOfAssertions DEF ExecutesBefore
<1>. QED
  BY <1>1, FS_EmptySet, VouchersFinite DEF Counted

(* Vouchers are only added. *)
LEMMA CountedGrows ==
  ASSUME NEW S, NEW T, IsFiniteSet(T), S \subseteq T,
         NEW t \in Suite, NEW k \in Nat, Counted(S, t, k)
  PROVE  Counted(T, t, k)
<1>1. {x \in S : x.test = t} \in SUBSET {x \in T : x.test = t}
  OBVIOUS
<1>2. IsFiniteSet(S)
  BY FS_Subset
<1>3. /\ Cardinality({x \in S : x.test = t}) \in Nat
      /\ Cardinality({x \in T : x.test = t}) \in Nat
      /\ IsFiniteSet({x \in T : x.test = t})
  BY <1>2, VouchersFinite
<1>4. Cardinality({x \in S : x.test = t}) <= Cardinality({x \in T : x.test = t})
  BY <1>1, <1>3, FS_Subset
<1>5. Cardinality(ExecutesBefore(t, k)) \in Nat
  BY BeforeFinite
<1>6. Cardinality(ExecutesBefore(t, k)) <= Cardinality({x \in S : x.test = t})
  BY DEF Counted
<1>7. Cardinality(ExecutesBefore(t, k)) <= Cardinality({x \in T : x.test = t})
  BY <1>3, <1>4, <1>5, <1>6
<1>. QED
  BY <1>7 DEF Counted

(* An assertion of another type leaves the count as it is. *)
LEMMA CountedPast ==
  ASSUME NEW S, NEW t \in Suite, NEW k \in 1..Len(Assertions[t]),
         Counted(S, t, k), Assertions[t][k] # "execute"
  PROVE  Counted(S, t, k + 1)
  BY BeforeNext DEF Counted

(* A new voucher of the test pays for one more assertion. *)
LEMMA CountedNew ==
  ASSUME NEW S, IsFiniteSet(S), NEW t \in Suite,
         NEW k \in 1..Len(Assertions[t]), Counted(S, t, k),
         NEW i, \A x \in S : x.index # i
  PROVE  Counted(S \cup {[index |-> i, test |-> t]}, t, k + 1)
<1>. DEFINE v == [index |-> i, test |-> t]
            Old == {x \in S : x.test = t}
            New == {x \in S \cup {v} : x.test = t}
<1>1. New = Old \cup {v} /\ v \notin Old
  OBVIOUS
<1>2. IsFiniteSet(Old) /\ Cardinality(Old) \in Nat
  BY VouchersFinite
<1>3. Cardinality(New) = Cardinality(Old) + 1
  BY <1>1, <1>2, FS_AddElement
<1>4. k \in Nat /\ k + 1 \in Nat
  BY LenOfAssertions
<1>5. /\ Cardinality(ExecutesBefore(t, k + 1)) \in Nat
      /\ Cardinality(ExecutesBefore(t, k)) \in Nat
  BY <1>4, BeforeFinite
<1>6. Cardinality(ExecutesBefore(t, k + 1)) <=
        Cardinality(ExecutesBefore(t, k)) + 1
  BY <1>5, BeforeNext
<1>7. Cardinality(ExecutesBefore(t, k)) <= Cardinality(Old)
  BY DEF Counted
<1>8. Cardinality(ExecutesBefore(t, k + 1)) <= Cardinality(New)
  <2>. HIDE DEF Old, New
  <2>. QED
    BY <1>2, <1>3, <1>5, <1>6, <1>7
<1>. QED
  BY <1>8 DEF Counted

-----------------------------------------------------------------------------
(* Queues.                                                                 *)

(* A queue that waits, or runs a test of its own. *)
LEMMA RightTest ==
  ASSUME NEW q, NEW r, NEW out, NEW job, NEW S, Right(q, r, out, job, S)
  PROVE  /\ r.doing = "idle" => r.test = NoCase /\ r.test \notin Suite
         /\ r.doing # "idle" => r.test \in Suite /\ QueueOf[r.test] = q
  BY ExecutionAssumption DEF Right, Busy

(* A queue that does nothing, while vouchers are executed. *)
LEMMA RightStays ==
  ASSUME NEW q, NEW r, NEW out, NEW job, NEW S, NEW T,
         IsFiniteSet(T), S \subseteq T, Right(q, r, out, job, S)
  PROVE  Right(q, r, out, job, T)
<1>1. CASE r.doing = "idle" /\ r.test = NoCase
  BY <1>1 DEF Right
<1>2. CASE ~(r.doing = "idle" /\ r.test = NoCase)
  <2>1. /\ Busy(q, r)
        /\ out \in {"passed", "failed"}
        /\ Placed(r, job)
        /\ out = "passed" => Earned(r, job, S)
    BY <1>2 DEF Right
  <2>2. r.test \in Suite /\ r.at \in Nat /\ r.at + 1 \in Nat
    BY <2>1, LenOfAssertions DEF Busy
  <2>3. \A k \in Nat : Counted(S, r.test, k) => Counted(T, r.test, k)
    BY <2>2, CountedGrows
  <2>4. Earned(r, job, S) => Earned(r, job, T)
    BY <2>2, <2>3 DEF Earned
  <2>. QED
    BY <2>1, <2>4 DEF Right
<1>. QED
  BY <1>1, <1>2

(* Two queues run two tests. *)
LEMMA Apart ==
  ASSUME ExecutionInv, NEW p \in Queues, NEW q \in Queues, p # q,
         TheTest(q) \in Suite
  PROVE  TheTest(p) # TheTest(q)
<1>1. QueueRight(p) /\ QueueRight(q)
  BY DEF ExecutionInv
<1>. QED
  BY <1>1, RightTest DEF QueueRight, TheTest

(* A test at work is one of the suite. *)
LEMMA AtWork ==
  ASSUME ExecutionInv, NEW q \in Queues, running[q].doing # "idle"
  PROVE  /\ TheTest(q) \in Suite
         /\ Busy(q, running[q])
         /\ outcome[TheTest(q)] \in {"passed", "failed"}
         /\ Placed(running[q], scripts[TheTest(q)].job)
         /\ outcome[TheTest(q)] = "passed" =>
              Earned(running[q], scripts[TheTest(q)].job, executedBy)
<1>1. QueueRight(q)
  BY DEF ExecutionInv
<1>. QED
  BY <1>1 DEF QueueRight, Right, TheTest, Busy

(* Steps that concern neither queues nor scripts nor vouchers. *)
LEMMA KeepsInv ==
  ASSUME ExecutionInv, UNCHANGED <<running, scripts, outcome, executedBy>>
  PROVE  ExecutionInv'
<1>1. ExecutionTypeOK'
  BY DEF ExecutionInv, ExecutionTypeOK
<1>2. ASSUME NEW q \in Queues PROVE QueueRight(q)'
  BY DEF ExecutionInv, QueueRight, TheTest
<1>3. ASSUME NEW t \in Suite PROVE OverRight(t)'
  BY DEF ExecutionInv, OverRight, TheTest
<1>. QED
  BY <1>1, <1>2, <1>3 DEF ExecutionInv

(* A step of one queue disturbs no other.                                  *)
LEMMA QueueStep ==
  ASSUME ExecutionInv, NEW q \in Queues, UNCHANGED executedBy,
         \A p \in Queues : p # q => running'[p] = running[p],
         \A t \in Suite : t # TheTest(q) /\ t # TheTest(q)' =>
           scripts'[t] = scripts[t] /\ outcome'[t] = outcome[t],
         QueueRight(q)'
  PROVE  \A p \in Queues : QueueRight(p)'
<1>. SUFFICES ASSUME NEW p \in Queues, p # q PROVE QueueRight(p)'
  OBVIOUS
<1>1. QueueRight(p) /\ QueueRight(q) /\ running'[p] = running[p]
  BY DEF ExecutionInv
<1>2. CASE TheTest(p) \in Suite
  <2>1. QueueOf[TheTest(p)] = p
    BY <1>1, <1>2, RightTest DEF QueueRight, TheTest
  <2>2. TheTest(p) # TheTest(q) /\ TheTest(p) # TheTest(q)'
    BY <1>1, <1>2, <2>1, RightTest DEF QueueRight, TheTest
  <2>. QED
    BY <1>1, <1>2, <2>2 DEF QueueRight, TheTest
<1>3. CASE TheTest(p) \notin Suite
  BY <1>1, <1>3 DEF QueueRight, Right, Busy, TheTest
<1>. QED
  BY <1>2, <1>3

-----------------------------------------------------------------------------
(* A step of one executor.                                                 *)

(* Only queue q moves, and stays at its test and assertion. *)
Moved(q) ==
  /\ running' = [p \in Queues |-> running'[p]]
  /\ DOMAIN running'[q] = Fields
  /\ \A p \in Queues : p # q => running'[p] = running[p]
  /\ running'[q].test = running[q].test /\ running'[q].at = running[q].at

(* Only the script of its test changes. *)
OwnScript(q) ==
  /\ scripts' = [t \in Suite |-> scripts'[t]]
  /\ \A t \in Suite : DOMAIN scripts'[t] = {"job", "arg"}
  /\ \A t \in Suite : t # TheTest(q) => scripts'[t] = scripts[t]

(* Where it leads: on, to the execution of a voucher or to an answer.      *)
Leads(q) ==
  \/ /\ running'[q].doing \notin {"idle", "next", "answered", "executing"}
     /\ Executes(running'[q]) => running'[q].doing \in Executing
  \/ /\ running'[q].doing = "executing"
     /\ scripts'[TheTest(q)].job = "execute"
  \/ /\ running'[q].doing = "answered"
     /\ running'[q].ok /\ Executes(running'[q]) =>
          running[q].doing = "executing" /\ scripts[TheTest(q)].job = "done"

ExecutorStep(q) ==
  /\ running[q].doing \notin {"idle", "next"}
  /\ Moved(q) /\ OwnScript(q) /\ Leads(q)
  /\ UNCHANGED <<outcome, executedBy>>

LEMMA ProceedsMoves ==
  ASSUME ExecutionTypeOK, NEW q \in Queues, NEW what, Proceeds(q, what),
         "test" \notin DOMAIN what, "at" \notin DOMAIN what
  PROVE  /\ Moved(q)
         /\ \A f \in Fields :
              running'[q][f] = IF f \in DOMAIN what THEN what[f] ELSE running[q][f]
<1>1. running = [p \in Queues |-> running[p]] /\ DOMAIN running[q] = Fields
  BY DEF ExecutionTypeOK
<1>2. running' = [running EXCEPT ![q] = Updated(running[q], what)]
  BY DEF Proceeds
<1>3. /\ running' = [p \in Queues |-> running'[p]]
      /\ running'[q] = Updated(running[q], what)
      /\ \A p \in Queues : p # q => running'[p] = running[p]
  BY <1>1, <1>2
<1>4. /\ DOMAIN running'[q] = Fields
      /\ \A f \in Fields :
           running'[q][f] = IF f \in DOMAIN what THEN what[f] ELSE running[q][f]
  BY <1>1, <1>3 DEF Updated
<1>5. "test" \in Fields /\ "at" \in Fields
  BY DEF Fields
<1>. QED
  BY <1>3, <1>4, <1>5 DEF Moved

LEMMA AnswersMoves ==
  ASSUME ExecutionTypeOK, NEW q \in Queues, NEW b, Answers(q, b)
  PROVE  Moved(q) /\ running'[q].doing = "answered" /\ running'[q].ok = b
<1>. DEFINE what == [doing |-> "answered", ok |-> b]
<1>1. Proceeds(q, what) /\ DOMAIN what = {"doing", "ok"}
  BY DEF Answers
<1>2. what.doing = "answered" /\ what.ok = b
  OBVIOUS
<1>. HIDE DEF what
<1>3. Moved(q) /\ \A f \in Fields :
        running'[q][f] = IF f \in DOMAIN what THEN what[f] ELSE running[q][f]
  BY <1>1, ProceedsMoves
<1>. QED
  BY <1>1, <1>2, <1>3 DEF Fields

LEMMA ScriptsOwn ==
  ASSUME ExecutionTypeOK, NEW q \in Queues
  PROVE  /\ UNCHANGED scripts => OwnScript(q)
         /\ \A j, a : Start(q, [job |-> j, arg |-> a]) => OwnScript(q)
         /\ Taken(q) => OwnScript(q)
<1>1. /\ scripts = [t \in Suite |-> scripts[t]]
      /\ \A t \in Suite : DOMAIN scripts[t] = {"job", "arg"}
  BY DEF ExecutionTypeOK
<1>2. UNCHANGED scripts => OwnScript(q)
  BY <1>1 DEF OwnScript
<1>3. ASSUME NEW s, DOMAIN s = {"job", "arg"},
             scripts' = [scripts EXCEPT ![TheTest(q)] = s]
      PROVE  OwnScript(q)
  BY <1>1, <1>3 DEF OwnScript
<1>4. ASSUME NEW j, NEW a, Start(q, [job |-> j, arg |-> a]) PROVE OwnScript(q)
  BY <1>3, <1>4 DEF Start
<1>5. Taken(q) => OwnScript(q)
  BY <1>3 DEF Taken, NoScript
<1>. QED
  BY <1>2, <1>4, <1>5

LEMMA ExecutorKeepsInv ==
  ASSUME ExecutionInv, NEW q \in Queues, ExecutorStep(q)
  PROVE  ExecutionInv'
<1>. DEFINE r == running'[q]
            t == TheTest(q)
<1>1. /\ TheTest(q) \in Suite
      /\ Busy(q, running[q])
      /\ outcome[t] \in {"passed", "failed"}
      /\ Placed(running[q], scripts[t].job)
      /\ outcome[t] = "passed" => Earned(running[q], scripts[t].job, executedBy)
  BY AtWork DEF ExecutorStep
<1>2. r.test = t /\ r.at = running[q].at /\ r.at <= Len(Assertions[t])
  BY <1>1 DEF ExecutorStep, Moved, Placed, TheTest
<1>3. Busy(q, r)
  BY <1>1, <1>2 DEF Busy, ExecutorStep, Leads, TheTest
<1>4. Placed(r, scripts'[t].job)
  BY <1>2 DEF Placed, ExecutorStep, Leads, Executing, Tried
<1>5. Earned(running[q], scripts[t].job, executedBy) =>
        Earned(r, scripts'[t].job, executedBy)
  <2>1. Settled(r, scripts'[t].job) => Settled(running[q], scripts[t].job)
    BY <1>2 DEF Settled, Executes, ExecutorStep, Leads, TheTest
  <2>. QED
    BY <1>2, <2>1 DEF Earned, ExecutorStep, TheTest
<1>6. Right(q, r, outcome[t], scripts'[t].job, executedBy)
  BY <1>1, <1>3, <1>4, <1>5 DEF Right
<1>7. TheTest(q)' = t /\ \A p \in Queues : TheTest(p)' = TheTest(p)
  BY <1>2 DEF TheTest, ExecutorStep, Moved
<1>8. QueueRight(q)'
  BY <1>6, <1>7 DEF QueueRight, ExecutorStep, TheTest
<1>9. \A p \in Queues : QueueRight(p)'
  BY <1>8, QueueStep DEF ExecutorStep, Moved, OwnScript
<1>10. ExecutionTypeOK'
  BY DEF ExecutionInv, ExecutionTypeOK, ExecutorStep, Moved, OwnScript
<1>11. ASSUME NEW u \in Suite PROVE OverRight(u)'
  BY <1>7 DEF ExecutionInv, OverRight, ExecutorStep
<1>. QED
  BY <1>9, <1>10, <1>11 DEF ExecutionInv

-----------------------------------------------------------------------------
(* The moves of the executors, each of them a step of this kind or one     *)
(* that concerns neither queues nor scripts nor vouchers.                  *)

LEMMA AnswersNo ==
  ASSUME ExecutionInv, NEW q \in Queues, running[q].doing \notin {"idle", "next"},
         Answers(q, FALSE), OwnScript(q), UNCHANGED <<outcome, executedBy>>
  PROVE  ExecutorStep(q)
  BY AnswersMoves DEF ExecutionInv, ExecutorStep, Leads

(* An executor that cannot be one of execute mode.                         *)
LEMMA AnswersOther ==
  ASSUME ExecutionInv, NEW q \in Queues, NEW b, Answers(q, b), OwnScript(q),
         UNCHANGED <<outcome, executedBy>>,
         running[q].doing \notin {"idle", "next", "answered"} \cup Executing
  PROVE  ExecutorStep(q)
<1>1. Moved(q) /\ running'[q].doing = "answered"
  BY AnswersMoves DEF ExecutionInv
<1>2. Placed(running[q], scripts[TheTest(q)].job)
  BY AtWork
<1>3. ~ Executes(running[q])
  BY <1>2 DEF Placed
<1>4. ~ Executes(running'[q])
  BY <1>1, <1>3 DEF Executes, Moved
<1>. QED
  BY <1>1, <1>4 DEF ExecutorStep, Leads

(* From one place of execute mode, or of another mode, to the next.        *)
LEMMA GoesOn ==
  ASSUME ExecutionInv, NEW q \in Queues, NEW what, Proceeds(q, what),
         "test" \notin DOMAIN what, "at" \notin DOMAIN what,
         "doing" \in DOMAIN what,
         what.doing \notin {"idle", "next", "answered", "executing"},
         running[q].doing \notin {"idle", "next", "answered"},
         running[q].doing \in Executing => what.doing \in Executing,
         OwnScript(q), UNCHANGED <<outcome, executedBy>>
  PROVE  ExecutorStep(q)
<1>1. Moved(q) /\ running'[q].doing = what.doing
  BY ProceedsMoves DEF ExecutionInv, Fields
<1>2. Placed(running[q], scripts[TheTest(q)].job)
  BY AtWork
<1>3. Executes(running'[q]) => running[q].doing \in Executing
  BY <1>1, <1>2 DEF Placed, Executes, Moved
<1>. QED
  BY <1>1, <1>3 DEF ExecutorStep, Leads

Turns(q, d) ==
  \/ Proceeds(q, [doing |-> d])
  \/ \E x : \/ Proceeds(q, [doing |-> d, before |-> x])
           \/ Proceeds(q, [doing |-> d, seen |-> x])
           \/ Proceeds(q, [doing |-> d, submitted |-> x])

LEMMA GoesTo ==
  ASSUME ExecutionInv, NEW q \in Queues, NEW d, Turns(q, d),
         d \notin {"idle", "next", "answered", "executing"},
         running[q].doing \notin {"idle", "next", "answered"},
         running[q].doing \in Executing => d \in Executing,
         OwnScript(q), UNCHANGED <<outcome, executedBy>>
  PROVE  ExecutorStep(q)
<1>1. CASE Proceeds(q, [doing |-> d])
  BY <1>1, GoesOn
<1>2. ASSUME NEW x, Proceeds(q, [doing |-> d, before |-> x])
      PROVE  ExecutorStep(q)
  BY <1>2, GoesOn
<1>3. ASSUME NEW x, Proceeds(q, [doing |-> d, seen |-> x])
      PROVE  ExecutorStep(q)
  BY <1>3, GoesOn
<1>4. ASSUME NEW x, Proceeds(q, [doing |-> d, submitted |-> x])
      PROVE  ExecutorStep(q)
  BY <1>4, GoesOn
<1>. QED
  BY <1>1, <1>2, <1>3, <1>4 DEF Turns

LEMMA SendMoves ==
  ASSUME ExecutionInv, NEW q \in Queues,
         \/ SendTx(q) \/ SendReverting(q) \/ SendDeposit(q) \/ AwaitDeposit(q)
         \/ SendFails(q) \/ InputIndexed(q) \/ InputNotIndexed(q)
  PROVE  ExecutorStep(q)
<1>. USE DEF ExecutionInv, Doing, KeepsNode, KeepsOthers, nodeVars
<1>1. CASE SendTx(q)
  <2>1. Turns(q, "indexing") /\ OwnScript(q)
    BY <1>1, ScriptsOwn DEF SendTx, Turns
  <2>. QED
    BY <1>1, <2>1, GoesTo DEF SendTx, Executing
<1>2. CASE SendReverting(q)
  <2>1. Turns(q, "indexing") /\ OwnScript(q)
    BY <1>2, ScriptsOwn DEF SendReverting, Turns
  <2>. QED
    BY <1>2, <2>1, GoesTo DEF SendReverting, Executing
<1>3. CASE SendDeposit(q)
  <2>1. Turns(q, "depositing") /\ OwnScript(q)
    BY <1>3, ScriptsOwn DEF SendDeposit, Turns
  <2>. QED
    BY <1>3, <2>1, GoesTo DEF SendDeposit, Executing
<1>4. CASE AwaitDeposit(q)
  <2>1. /\ Turns(q, "indexing") \/ Answers(q, FALSE)
        /\ OwnScript(q)
    BY <1>4, ScriptsOwn DEF AwaitDeposit, Turns
  <2>. QED
    BY <1>4, <2>1, GoesTo, AnswersNo DEF AwaitDeposit, Executing
<1>5. CASE SendFails(q)
  BY <1>5, ScriptsOwn, AnswersNo DEF SendFails
<1>6. CASE InputIndexed(q)
  BY <1>6, ScriptsOwn, AnswersOther DEF InputIndexed, Executing
<1>7. CASE InputNotIndexed(q)
  BY <1>7, ScriptsOwn, AnswersNo DEF InputNotIndexed
<1>. QED
  BY <1>1, <1>2, <1>3, <1>4, <1>5, <1>6, <1>7

LEMMA AskMoves ==
  ASSUME ExecutionInv, NEW q \in Queues,
         NoticeFound(q) \/ RestartService(q) \/ ProbeAnswers(q)
  PROVE  ExecutorStep(q)
<1>. USE DEF ExecutionInv, Doing, KeepsNode, KeepsOthers, nodeVars
<1>1. CASE NoticeFound(q)
  BY <1>1, ScriptsOwn, AnswersOther DEF NoticeFound, Executing
<1>2. CASE RestartService(q)
  BY <1>2, ScriptsOwn, AnswersOther DEF RestartService, Executing
<1>3. CASE ProbeAnswers(q)
  BY <1>3, ScriptsOwn, AnswersOther DEF ProbeAnswers, Executing
<1>. QED
  BY <1>1, <1>2, <1>3

LEMMA TriggerMoves ==
  ASSUME ExecutionInv, NEW q \in Queues,
         \/ TriggerVoucher(q) \/ AwaitTrigger(q)
         \/ PollGenerated(q) \/ PollNew(q) \/ PollTimesOut(q)
  PROVE  ExecutorStep(q)
<1>. USE DEF ExecutionInv, Doing, KeepsNode, KeepsOthers, nodeVars
<1>1. CASE TriggerVoucher(q)
  <2>1. Turns(q, "generating") /\ OwnScript(q)
    BY <1>1, ScriptsOwn DEF TriggerVoucher, Turns
  <2>. QED
    BY <1>1, <2>1, GoesTo DEF TriggerVoucher, Executing
<1>2. CASE AwaitTrigger(q)
  <2>1. /\ Turns(q, "polling") \/ Answers(q, FALSE)
        /\ OwnScript(q)
    BY <1>2, ScriptsOwn DEF AwaitTrigger, Turns
  <2>. QED
    BY <1>2, <2>1, GoesTo, AnswersNo DEF AwaitTrigger, Executing
<1>3. CASE PollGenerated(q)
  <2>1. /\ OwnScript(q) /\ UNCHANGED <<outcome, executedBy>>
        /\ Doing(q, "polling") /\ ~ Executes(running[q])
        /\ Proceeds(q, [doing |-> "answered", ok |-> TRUE, seen |-> Vouchers(0)])
    BY <1>3, ScriptsOwn DEF PollGenerated, TheType, TheTest, Executes
  <2>2. Moved(q) /\ running'[q].doing = "answered"
    BY <2>1, ProceedsMoves DEF Fields
  <2>. QED
    BY <2>1, <2>2 DEF ExecutorStep, Leads, Executes, Moved
<1>4. CASE PollNew(q)
  <2>1. Turns(q, "claims") /\ OwnScript(q)
    BY <1>4, ScriptsOwn DEF PollNew, Turns
  <2>. QED
    BY <1>4, <2>1, GoesTo DEF PollNew, Executing
<1>5. CASE PollTimesOut(q)
  BY <1>5, ScriptsOwn, AnswersNo DEF PollTimesOut
<1>. QED
  BY <1>1, <1>2, <1>3, <1>4, <1>5

LEMMA ClaimMoves ==
  ASSUME ExecutionInv, NEW q \in Queues,
         \/ TakeReady(q) \/ EpochUnanswered(q)
         \/ SubmitManually(q) \/ AwaitClaim(q)
  PROVE  ExecutorStep(q)
<1>. USE DEF ExecutionInv, Doing, KeepsNode, KeepsOthers, nodeVars
<1>1. CASE TakeReady(q)
  <2>1. /\ OwnScript(q) /\ UNCHANGED <<outcome, executedBy>>
        /\ Doing(q, "claims")
        /\ Turns(q, "polling") \/ Turns(q, "trying")
    BY <1>1, ScriptsOwn DEF TakeReady, Turns
  <2>. QED
    BY <2>1, GoesTo DEF Executing
<1>2. CASE EpochUnanswered(q)
  <2>1. PICK vs : Proceeds(q, [seen |-> vs])
    BY <1>2 DEF EpochUnanswered
  <2>2. /\ OwnScript(q) /\ UNCHANGED <<outcome, executedBy>>
        /\ Doing(q, "claims")
    BY <1>2, ScriptsOwn DEF EpochUnanswered
  <2>3. Moved(q) /\ running'[q].doing = "claims"
    BY <2>1, <2>2, ProceedsMoves DEF Fields
  <2>. QED
    BY <2>2, <2>3 DEF ExecutorStep, Leads, Executing
<1>3. CASE SubmitManually(q)
  <2>1. Turns(q, "claiming") /\ OwnScript(q)
    BY <1>3, ScriptsOwn DEF SubmitManually, Turns
  <2>. QED
    BY <1>3, <2>1, GoesTo DEF SubmitManually, Executing
<1>4. CASE AwaitClaim(q)
  <2>1. Turns(q, "claims") /\ OwnScript(q)
    BY <1>4, ScriptsOwn DEF AwaitClaim, Turns
  <2>. QED
    BY <1>4, <2>1, GoesTo DEF AwaitClaim, Executing
<1>. QED
  BY <1>1, <1>2, <1>3, <1>4

LEMMA VoucherMoves ==
  ASSUME ExecutionInv, NEW q \in Queues, TryVoucher(q) \/ AwaitExecution(q)
  PROVE  ExecutorStep(q)
<1>. USE DEF ExecutionInv, Doing, KeepsNode, KeepsOthers, nodeVars
<1>1. CASE TryVoucher(q)
  <2>1. UNCHANGED <<outcome, executedBy>> /\ Doing(q, "trying")
    BY <1>1 DEF TryVoucher
  <2>2. CASE running[q].seen = <<>>
    BY <1>1, <2>1, <2>2, ScriptsOwn, AnswersNo DEF TryVoucher
  <2>3. CASE running[q].seen # <<>>
    <3>1. PICK v : /\ Start(q, [job |-> "execute", arg |-> v])
                   /\ Proceeds(q, [doing |-> "executing"])
      BY <1>1, <2>3 DEF TryVoucher
    <3>2. OwnScript(q)
      BY <3>1, ScriptsOwn
    <3>3. Moved(q) /\ running'[q].doing = "executing"
      BY <3>1, ProceedsMoves DEF Fields
    <3>4. TheTest(q) \in Suite
      BY <2>1, AtWork
    <3>5. scripts'[TheTest(q)].job = "execute"
      BY <3>1, <3>4 DEF Start, ExecutionTypeOK
    <3>. QED
      BY <2>1, <3>2, <3>3, <3>5 DEF ExecutorStep, Leads
  <2>. QED
    BY <2>2, <2>3
<1>2. CASE AwaitExecution(q)
  <2>1. OwnScript(q) /\ UNCHANGED <<outcome, executedBy>> /\ Doing(q, "executing")
    BY <1>2, ScriptsOwn DEF AwaitExecution
  <2>2. CASE Answers(q, FALSE)
    BY <2>1, <2>2, AnswersNo
  <2>3. CASE ScriptEnded(q, "done") /\ Answers(q, TRUE)
    <3>1. Moved(q) /\ running'[q].doing = "answered"
      BY <2>3, AnswersMoves
    <3>. QED
      BY <2>1, <2>3, <3>1 DEF ExecutorStep, Leads, ScriptEnded
  <2>4. CASE Proceeds(q, [doing |-> "trying", seen |-> Tail(running[q].seen)])
    <3>1. Turns(q, "trying")
      BY <2>4 DEF Turns
    <3>. QED
      BY <2>1, <3>1, GoesTo DEF Executing
  <2>. QED
    BY <1>2, <2>2, <2>3, <2>4 DEF AwaitExecution
<1>. QED
  BY <1>1, <1>2

-----------------------------------------------------------------------------
(* run_test.                                                               *)

LEMMA TakeTestKeepsInv ==
  ASSUME ExecutionInv, NEW q \in Queues, TakeTest(q)
  PROVE  ExecutionInv'
<1>. DEFINE First(t) == [NoCommand EXCEPT !.test = t, !.at = 1, !.doing = "next"]
<1>1. PICK t \in Suite :
        /\ QueueOf[t] = q /\ outcome[t] = "waiting"
        /\ outcome' = [outcome EXCEPT ![t] = "passed"]
        /\ Proceeds(q, First(t))
  BY DEF TakeTest
<1>2. UNCHANGED <<scripts, executedBy>> /\ running[q].doing = "idle"
  BY DEF TakeTest, KeepsNode, nodeVars, Doing
<1>3. /\ DOMAIN running[q] = Fields
      /\ running = [p \in Queues |-> running[p]]
      /\ outcome = [u \in Suite |-> outcome[u]]
      /\ IsFiniteSet(executedBy)
  BY DEF ExecutionInv, ExecutionTypeOK
<1>4. /\ running' = [p \in Queues |-> running'[p]]
      /\ running'[q] = Updated(running[q], First(t))
      /\ \A p \in Queues : p # q => running'[p] = running[p]
  BY <1>1, <1>3 DEF Proceeds
<1>5. /\ DOMAIN running'[q] = Fields
      /\ running'[q].test = t /\ running'[q].at = 1 /\ running'[q].doing = "next"
  BY <1>3, <1>4 DEF Updated, NoCommand, Fields
<1>6. /\ outcome' = [u \in Suite |-> outcome'[u]]
      /\ outcome'[t] = "passed"
      /\ \A u \in Suite : u # t => outcome'[u] = outcome[u]
  BY <1>1, <1>3
<1>7. ExecutionTypeOK'
  BY <1>2, <1>4, <1>5, <1>6 DEF ExecutionInv, ExecutionTypeOK
<1>8. QueueRight(q)'
  <2>1. Busy(q, running'[q])
    BY <1>1, <1>5, LenOfAssertions DEF Busy
  <2>2. Counted(executedBy, t, 1)
    BY <1>3, CountedAtFirst
  <2>. QED
    BY <1>2, <1>5, <1>6, <2>1, <2>2 DEF QueueRight, Right, Placed, Earned, TheTest
<1>9. \A p \in Queues : QueueRight(p)'
  BY <1>2, <1>4, <1>5, <1>6, <1>8, QueueStep DEF TheTest
<1>10. ASSUME NEW u \in Suite PROVE OverRight(u)'
  <2>1. CASE u = t
    BY <1>5, <2>1 DEF OverRight, TheTest
  <2>2. CASE u # t
    <3>1. TheTest(q) # u
      <4>1. QueueRight(q)
        BY DEF ExecutionInv
      <4>. QED
        BY <1>2, <4>1, RightTest DEF QueueRight, TheTest
    <3>2. (\A p \in Queues : TheTest(p)' # u) => \A p \in Queues : TheTest(p) # u
      BY <1>4, <3>1 DEF TheTest
    <3>3. OverRight(u)
      BY DEF ExecutionInv
    <3>. QED
      BY <1>2, <1>6, <2>2, <3>2, <3>3 DEF OverRight
  <2>. QED
    BY <2>1, <2>2
<1>. QED
  BY <1>7, <1>9, <1>10 DEF ExecutionInv

LEMMA NextAssertionKeepsInv ==
  ASSUME ExecutionInv, NEW q \in Queues, NextAssertion(q)
  PROVE  ExecutionInv'
<1>. DEFINE t == TheTest(q)
            r == running'[q]
<1>1. /\ UNCHANGED <<scripts, outcome, executedBy>>
      /\ running[q].doing = "next" /\ running[q].at <= Len(Assertions[t])
  BY DEF NextAssertion, KeepsNode, KeepsOthers, nodeVars, Doing
<1>2. /\ t \in Suite /\ Busy(q, running[q])
      /\ outcome[t] \in {"passed", "failed"}
      /\ outcome[t] = "passed" => Earned(running[q], scripts[t].job, executedBy)
  BY <1>1, AtWork
<1>3. TheType(q) \in AssertionTypes
  BY <1>1, <1>2, LenOfAssertions DEF TheType, Busy, TheTest
<1>4. /\ Moved(q)
      /\ \/ r.doing = "answered" /\ r.ok = FALSE
         \/ r.doing = TheType(q)
  <2>1. CASE TheType(q) = "unknown"
    BY <2>1, AnswersMoves DEF NextAssertion, ExecutionInv
  <2>2. CASE TheType(q) # "unknown"
    <3>1. Proceeds(q, [doing |-> TheType(q), seen |-> <<>>, submitted |-> {}])
      BY <2>2 DEF NextAssertion
    <3>. QED
      BY <3>1, ProceedsMoves DEF ExecutionInv, Fields
  <2>. QED
    BY <2>1, <2>2
<1>5. r.test = t /\ r.at = running[q].at
  BY <1>4 DEF Moved, TheTest
<1>6. r.doing \notin {"idle", "next", "executing"}
  BY <1>3, <1>4 DEF AssertionTypes
<1>7. Busy(q, r)
  BY <1>2, <1>5, <1>6 DEF Busy, TheTest
<1>8. Placed(r, scripts[t].job)
  BY <1>1, <1>4, <1>5, <1>6 DEF Placed, Executes, TheType, TheTest, Executing
<1>9. Earned(running[q], scripts[t].job, executedBy) =>
        Earned(r, scripts[t].job, executedBy)
  BY <1>4, <1>3, <1>5, <1>6 DEF Earned, Settled, AssertionTypes, TheTest
<1>10. QueueRight(q)'
  BY <1>1, <1>2, <1>5, <1>7, <1>8, <1>9 DEF QueueRight, Right, TheTest
<1>11. \A p \in Queues : QueueRight(p)'
  BY <1>1, <1>4, <1>10, QueueStep DEF Moved
<1>12. ExecutionTypeOK'
  BY <1>1, <1>4 DEF ExecutionInv, ExecutionTypeOK, Moved
<1>13. ASSUME NEW u \in Suite PROVE OverRight(u)'
  <2>1. \A p \in Queues : TheTest(p)' = TheTest(p)
    BY <1>4 DEF TheTest, Moved
  <2>. QED
    BY <1>1, <2>1 DEF ExecutionInv, OverRight
<1>. QED
  BY <1>11, <1>12, <1>13 DEF ExecutionInv

(* What an assertion that passed earned is there for the next one.         *)
LEMMA RecordAnswerKeepsInv ==
  ASSUME ExecutionInv, NEW q \in Queues, RecordAnswer(q)
  PROVE  ExecutionInv'
<1>. DEFINE t == TheTest(q)
            r == running'[q]
            k == running[q].at
<1>1. /\ UNCHANGED <<scripts, executedBy>>
      /\ running[q].doing = "answered"
      /\ outcome' = IF running[q].ok THEN outcome
                    ELSE [outcome EXCEPT ![t] = "failed"]
      /\ Proceeds(q, [doing |-> "next", at |-> k + 1])
  BY DEF RecordAnswer, KeepsNode, nodeVars, Doing
<1>2. /\ t \in Suite /\ Busy(q, running[q])
      /\ outcome[t] \in {"passed", "failed"}
      /\ Placed(running[q], scripts[t].job)
      /\ outcome[t] = "passed" => Earned(running[q], scripts[t].job, executedBy)
  BY <1>1, AtWork
<1>3. /\ DOMAIN running[q] = Fields
      /\ running = [p \in Queues |-> running[p]]
      /\ outcome = [u \in Suite |-> outcome[u]]
  BY DEF ExecutionInv, ExecutionTypeOK
<1>4. /\ running' = [p \in Queues |-> running'[p]]
      /\ r = Updated(running[q], [doing |-> "next", at |-> k + 1])
      /\ \A p \in Queues : p # q => running'[p] = running[p]
  BY <1>1, <1>3 DEF Proceeds
<1>5. /\ DOMAIN r = Fields
      /\ r.test = t /\ r.at = k + 1 /\ r.doing = "next"
  BY <1>3, <1>4 DEF Updated, Fields, TheTest
<1>6. /\ outcome' = [u \in Suite |-> outcome'[u]]
      /\ outcome'[t] = IF running[q].ok THEN outcome[t] ELSE "failed"
      /\ \A u \in Suite : u # t => outcome'[u] = outcome[u]
  BY <1>1, <1>2, <1>3
<1>7. k \in 1..Len(Assertions[t]) /\ k + 1 \in 1..(Len(Assertions[t]) + 1)
  BY <1>1, <1>2, LenOfAssertions DEF Placed, Busy, TheTest
<1>8. outcome'[t] = "passed" => Counted(executedBy, t, k + 1)
  <2>. SUFFICES ASSUME outcome'[t] = "passed"
                PROVE  Counted(executedBy, t, k + 1)
    OBVIOUS
  <2>1. running[q].ok /\ Earned(running[q], scripts[t].job, executedBy)
    BY <1>2, <1>6
  <2>2. CASE Assertions[t][k] = "execute"
    BY <1>1, <2>1, <2>2 DEF Earned, Settled, Executes, TheTest
  <2>3. CASE Assertions[t][k] # "execute"
    BY <1>2, <1>7, <2>1, <2>3, CountedPast DEF Earned, TheTest
  <2>. QED
    BY <2>2, <2>3
<1>9. Busy(q, r)
  BY <1>2, <1>5, <1>7 DEF Busy, TheTest
<1>10. QueueRight(q)'
  BY <1>1, <1>2, <1>5, <1>6, <1>8, <1>9
    DEF QueueRight, Right, Placed, Earned, TheTest
<1>11. \A p \in Queues : QueueRight(p)'
  BY <1>1, <1>4, <1>6, <1>10, QueueStep
<1>12. ExecutionTypeOK'
  BY <1>1, <1>4, <1>5, <1>6 DEF ExecutionInv, ExecutionTypeOK
<1>13. ASSUME NEW u \in Suite PROVE OverRight(u)'
  <2>1. \A p \in Queues : TheTest(p)' = TheTest(p)
    BY <1>4, <1>5 DEF TheTest
  <2>2. outcome'[u] = "passed" => outcome[u] = "passed"
    BY <1>6
  <2>. QED
    BY <1>1, <2>1, <2>2 DEF ExecutionInv, OverRight
<1>. QED
  BY <1>11, <1>12, <1>13 DEF ExecutionInv

(* The test of a queue that lets go of it is over: it has failed, or all   *)
(* of its assertions are behind it.                                        *)
LEMMA LetGoKeepsInv ==
  ASSUME ExecutionInv, NEW q \in Queues,
         UNCHANGED <<scripts, executedBy>>,
         running' = [running EXCEPT ![q] = NoCommand],
         outcome' = [t \in Suite |-> outcome'[t]],
         \A t \in Suite : t # TheTest(q) => outcome'[t] = outcome[t],
         TheTest(q) \in Suite,
         outcome'[TheTest(q)] = "passed" =>
           Counted(executedBy, TheTest(q), Len(Assertions[TheTest(q)]) + 1)
  PROVE  ExecutionInv'
<1>1. /\ running' = [p \in Queues |-> running'[p]]
      /\ running'[q] = NoCommand
      /\ \A p \in Queues : p # q => running'[p] = running[p]
  BY DEF ExecutionInv, ExecutionTypeOK
<1>2. NoCommand.doing = "idle" /\ NoCommand.test = NoCase /\ DOMAIN NoCommand = Fields
  BY DEF NoCommand, Fields
<1>3. QueueRight(q)'
  BY <1>1, <1>2 DEF QueueRight, Right
<1>4. \A p \in Queues : QueueRight(p)'
  BY <1>1, <1>3, QueueStep
<1>5. ExecutionTypeOK'
  BY <1>1, <1>2 DEF ExecutionInv, ExecutionTypeOK
<1>6. ASSUME NEW t \in Suite PROVE OverRight(t)'
  <2>1. CASE t = TheTest(q)
    BY <2>1 DEF OverRight
  <2>2. CASE t # TheTest(q)
    <3>1. (\A p \in Queues : TheTest(p)' # t) => \A p \in Queues : TheTest(p) # t
      BY <1>1, <2>2 DEF TheTest
    <3>. QED
      BY <2>2, <3>1 DEF ExecutionInv, OverRight
  <2>. QED
    BY <2>1, <2>2
<1>. QED
  BY <1>4, <1>5, <1>6 DEF ExecutionInv

LEMMA FinishTestKeepsInv ==
  ASSUME ExecutionInv, NEW q \in Queues, FinishTest(q)
  PROVE  ExecutionInv'
<1>. DEFINE t == TheTest(q)
<1>1. /\ UNCHANGED <<scripts, outcome, executedBy>>
      /\ running[q].doing = "next" /\ running[q].at > Len(Assertions[t])
      /\ running' = [running EXCEPT ![q] = NoCommand]
  BY DEF FinishTest, KeepsNode, KeepsOthers, nodeVars, Doing
<1>2. /\ t \in Suite /\ Busy(q, running[q])
      /\ outcome[t] = "passed" => Earned(running[q], scripts[t].job, executedBy)
  BY <1>1, AtWork
<1>3. running[q].at = Len(Assertions[t]) + 1
  BY <1>1, <1>2, LenOfAssertions DEF Busy, TheTest
<1>4. outcome[t] = "passed" => Counted(executedBy, t, Len(Assertions[t]) + 1)
  BY <1>2, <1>3 DEF Earned, TheTest
<1>. QED
  BY <1>1, <1>2, <1>4, LetGoKeepsInv DEF ExecutionInv, ExecutionTypeOK

LEMMA InterruptKeepsInv ==
  ASSUME ExecutionInv, NEW q \in Queues, Interrupt(q)
  PROVE  ExecutionInv'
<1>. DEFINE t == TheTest(q)
<1>1. /\ UNCHANGED <<scripts, executedBy>>
      /\ running[q].doing # "idle"
      /\ running' = [running EXCEPT ![q] = NoCommand]
  BY DEF Interrupt, KeepsNode, nodeVars, Doing
<1>2. PICK how \in {"timeout", "error"} : outcome' = [outcome EXCEPT ![t] = how]
  BY DEF Interrupt
<1>3. t \in Suite
  BY <1>1, AtWork
<1>4. /\ outcome' = [u \in Suite |-> outcome'[u]]
      /\ outcome'[t] = how
      /\ \A u \in Suite : u # t => outcome'[u] = outcome[u]
  BY <1>2, <1>3 DEF ExecutionInv, ExecutionTypeOK
<1>. QED
  BY <1>1, <1>3, <1>4, LetGoKeepsInv

-----------------------------------------------------------------------------
(* Scripts.                                                                *)

(* A script that the executor of execute mode awaits ends as one that was  *)
(* tried, and a voucher that is executed meanwhile is its own.             *)
LEMMA ScriptKeepsInv ==
  ASSUME ExecutionInv, NEW t \in Suite, NEW job, Ends(t, job),
         UNCHANGED <<running, outcome>>,
         IsFiniteSet(executedBy'), executedBy \subseteq executedBy',
         scripts[t].job \in Tried => job \in Tried,
         job = "done" /\ scripts[t].job \in Tried =>
           \A k \in 1..Len(Assertions[t]) :
             Counted(executedBy, t, k) => Counted(executedBy', t, k + 1)
  PROVE  ExecutionInv'
<1>1. /\ scripts' = [u \in Suite |-> scripts'[u]]
      /\ \A u \in Suite : DOMAIN scripts'[u] = {"job", "arg"}
      /\ \A u \in Suite : u # t => scripts'[u] = scripts[u]
      /\ (\E q \in Queues : TheTest(q) = t) => scripts'[t].job = job
  BY DEF Ends, NoScript, ExecutionInv, ExecutionTypeOK
<1>2. ExecutionTypeOK'
  BY <1>1 DEF ExecutionInv, ExecutionTypeOK
<1>3. ASSUME NEW q \in Queues PROVE QueueRight(q)'
  <2>. DEFINE r == running[q]
  <2>1. QueueRight(q)
    BY DEF ExecutionInv
  <2>2. Right(q, r, outcome[r.test], scripts[r.test].job, executedBy')
    BY <2>1, RightStays DEF QueueRight, TheTest
  <2>3. CASE r.test # t
    <3>1. CASE r.test \in Suite
      BY <1>1, <2>2, <2>3, <3>1 DEF QueueRight, TheTest
    <3>2. CASE r.test \notin Suite
      BY <2>2, <3>2 DEF QueueRight, Right, Busy, TheTest
    <3>. QED
      BY <3>1, <3>2
  <2>4. CASE r.test = t
    <3>1. scripts'[t].job = job
      BY <1>1, <2>4 DEF TheTest
    <3>2. /\ Busy(q, r) /\ outcome[t] \in {"passed", "failed"}
          /\ Placed(r, scripts[t].job)
          /\ outcome[t] = "passed" => Earned(r, scripts[t].job, executedBy)
      BY <2>1, <2>4, RightTest DEF QueueRight, Right, TheTest
    <3>3. outcome[t] = "passed" => Earned(r, scripts[t].job, executedBy')
      BY <2>2, <2>4, <3>2, RightTest DEF Right
    <3>4. Placed(r, job)
      BY <3>2 DEF Placed
    <3>5. Earned(r, scripts[t].job, executedBy) /\ Earned(r, scripts[t].job, executedBy')
            => Earned(r, job, executedBy')
      <4>1. CASE r.doing = "executing" /\ job = "done"
        <5>1. scripts[t].job \in Tried /\ r.at \in 1..Len(Assertions[t])
          BY <2>4, <3>2, <4>1, LenOfAssertions DEF Placed, Busy
        <5>. QED
          BY <2>4, <4>1, <5>1 DEF Earned
      <4>2. CASE ~(r.doing = "executing" /\ job = "done")
        BY <4>2 DEF Earned, Settled
      <4>. QED
        BY <4>1, <4>2
    <3>. QED
      BY <2>4, <3>1, <3>2, <3>3, <3>4, <3>5 DEF QueueRight, Right, TheTest
  <2>. QED
    BY <2>3, <2>4
<1>4. ASSUME NEW u \in Suite PROVE OverRight(u)'
  <2>1. OverRight(u) /\ IsFiniteSet(executedBy)
    BY DEF ExecutionInv, ExecutionTypeOK
  <2>2. Len(Assertions[u]) + 1 \in Nat
    BY LenOfAssertions
  <2>3. Counted(executedBy, u, Len(Assertions[u]) + 1) =>
          Counted(executedBy', u, Len(Assertions[u]) + 1)
    BY <2>2, CountedGrows
  <2>. QED
    BY <2>1, <2>3 DEF OverRight, TheTest
<1>. QED
  BY <1>2, <1>3, <1>4 DEF ExecutionInv

LEMMA ScriptMovesKeepInv ==
  ASSUME ExecutionInv, NEW t \in Suite, ScriptMoves(t)
  PROVE  ExecutionInv'
<1>1. IsFiniteSet(executedBy)
  BY DEF ExecutionInv, ExecutionTypeOK
<1>2. CASE InputLands(t)
  <2>1. /\ Ends(t, "done") /\ UNCHANGED <<running, outcome, executedBy>>
        /\ scripts[t].job \notin Tried
    BY <1>2 DEF InputLands, Tried
  <2>. QED
    BY <1>1, <2>1, ScriptKeepsInv
<1>3. CASE ExecutionLands(t)
  <2>. DEFINE index    == scripts[t].arg
              executed == \E x \in executedBy : x.index = index
              final    == outputs[index].epoch \in claimed
  <2>1. /\ UNCHANGED <<running, outcome>>
        /\ executedBy' = IF ~ executed /\ final
                         THEN executedBy \cup {[index |-> index, test |-> t]}
                         ELSE executedBy
        /\ Ends(t, IF executed THEN "OutputNotReexecutable"
                   ELSE IF final THEN "done" ELSE "failed")
    BY <1>3 DEF ExecutionLands
  <2>2. CASE ~ executed /\ final
    <3>1. executedBy' = executedBy \cup {[index |-> index, test |-> t]}
      BY <2>1, <2>2
    <3>2. IsFiniteSet(executedBy') /\ executedBy \subseteq executedBy'
      BY <1>1, <3>1, FS_AddElement
    <3>3. \A k \in 1..Len(Assertions[t]) :
            Counted(executedBy, t, k) => Counted(executedBy', t, k + 1)
      BY <1>1, <2>2, <3>1, CountedNew
    <3>4. Ends(t, "done")
      BY <2>1, <2>2
    <3>. QED
      BY <2>1, <3>2, <3>3, <3>4, ScriptKeepsInv DEF Tried
  <2>3. CASE ~(~ executed /\ final)
    <3>1. executedBy' = executedBy
      BY <2>1, <2>3
    <3>2. PICK job \in {"OutputNotReexecutable", "failed"} : Ends(t, job)
      BY <2>1, <2>3
    <3>. QED
      BY <1>1, <2>1, <3>1, <3>2, ScriptKeepsInv DEF Tried
  <2>. QED
    BY <2>2, <2>3
<1>4. CASE ClaimLands(t)
  <2>1. /\ UNCHANGED <<running, outcome, executedBy>>
        /\ scripts[t].job \notin Tried
    BY <1>4 DEF ClaimLands, Tried
  <2>2. PICK job : Ends(t, job)
    BY <1>4 DEF ClaimLands
  <2>. QED
    BY <1>1, <2>1, <2>2, ScriptKeepsInv
<1>5. CASE ScriptFails(t)
  <2>1. Ends(t, "failed") /\ UNCHANGED <<running, outcome, executedBy>>
    BY <1>5 DEF ScriptFails, KeepsNode, nodeVars
  <2>. QED
    BY <1>1, <2>1, ScriptKeepsInv DEF Tried
<1>. QED
  BY <1>2, <1>3, <1>4, <1>5 DEF ScriptMoves

-----------------------------------------------------------------------------
(* The specification.                                                      *)

LEMMA NodeMovesKeepInv ==
  ASSUME ExecutionInv, NodeMoves
  PROVE  ExecutionInv'
<1>1. UNCHANGED <<running, scripts, outcome, executedBy>>
  BY DEF NodeMoves, IndexInput, ProcessInput, CloseEpoch, ComputeClaim,
         SubmitClaim, AcceptClaim, EpochMoves, ValidatorStalls, CooldownEnds,
         NodeStep, nodeVars
<1>. QED
  BY <1>1, KeepsInv

LEMMA RunnerMovesKeepInv ==
  ASSUME ExecutionInv, NEW q \in Queues, RunnerMoves(q)
  PROVE  ExecutionInv'
<1>1. CASE MaybeRestartValidator(q)
  <2>1. UNCHANGED <<running, scripts, outcome, executedBy>>
    BY <1>1 DEF MaybeRestartValidator, KeepsOthers, nodeVars
  <2>. QED
    BY <2>1, KeepsInv
<1>2. CASE ExecutorMoves(q) /\ ~ MaybeRestartValidator(q)
  <2>1. ExecutorStep(q)
    BY <1>2, SendMoves, AskMoves, TriggerMoves, ClaimMoves, VoucherMoves
      DEF ExecutorMoves
  <2>. QED
    BY <2>1, ExecutorKeepsInv
<1>. QED
  BY <1>1, <1>2, TakeTestKeepsInv, NextAssertionKeepsInv, RecordAnswerKeepsInv,
     FinishTestKeepsInv, InterruptKeepsInv DEF RunnerMoves

LEMMA ExecutionStart == ExecutionInit => ExecutionInv
<1>. SUFFICES ASSUME ExecutionInit PROVE ExecutionInv
  OBVIOUS
<1>1. PICK asked \in Selections :
        outcome = [t \in Suite |-> IF t \in asked THEN "waiting" ELSE "unasked"]
  BY DEF ExecutionInit
<1>2. /\ running = [q \in Queues |-> NoCommand]
      /\ scripts = [t \in Suite |-> NoScript]
      /\ executedBy = {}
  BY DEF ExecutionInit
<1>3. NoCommand.doing = "idle" /\ NoCommand.test = NoCase /\ DOMAIN NoCommand = Fields
  BY DEF NoCommand, Fields
<1>4. ExecutionTypeOK
  BY <1>1, <1>2, <1>3, FS_EmptySet DEF ExecutionTypeOK, NoScript
<1>5. \A q \in Queues : QueueRight(q)
  BY <1>2, <1>3 DEF QueueRight, Right
<1>6. \A t \in Suite : OverRight(t)
  BY <1>1 DEF OverRight
<1>. QED
  BY <1>4, <1>5, <1>6 DEF ExecutionInv

LEMMA ExecutionStep ==
  ExecutionInv /\ [ExecutionNext]_executionVars => ExecutionInv'
<1>1. ExecutionInv /\ ExecutionNext => ExecutionInv'
  BY NodeMovesKeepInv, ScriptMovesKeepInv, RunnerMovesKeepInv DEF ExecutionNext
<1>2. ExecutionInv /\ UNCHANGED executionVars => ExecutionInv'
  BY KeepsInv DEF executionVars, nodeVars
<1>. QED
  BY <1>1, <1>2

(* The invariant, in any reachable state. *)
THEOREM CountsAlwaysRight == ExecutionSpec => []ExecutionInv
<1>. QED
  BY ExecutionStart, ExecutionStep, PTL DEF ExecutionSpec

(* A test that passed executed, itself, a voucher for each of its execute  *)
(* assertions: the loop of _test_execute answers with a pass only for the  *)
(* script it started, and skips a voucher somebody else executed.          *)
THEOREM PassesExecuteOwn == ExecutionSpec => []PassedExecutesOwn
<1>1. ExecutionInv => PassedExecutesOwn
  <2>. SUFFICES ASSUME ExecutionInv, NEW t \in Suite, outcome[t] = "passed"
                PROVE  Cardinality(ExecutesRun(t)) <=
                         Cardinality({x \in executedBy : x.test = t})
    BY DEF PassedExecutesOwn
  <2>. DEFINE n == Len(Assertions[t])
  <2>1. n \in Nat /\ DOMAIN Assertions[t] = 1..n /\ IsFiniteSet(executedBy)
    BY LenOfAssertions DEF ExecutionInv, ExecutionTypeOK
  <2>2. PICK k \in Nat : /\ Counted(executedBy, t, k)
                         /\ ExecutesRun(t) \in SUBSET ExecutesBefore(t, k)
    <3>1. CASE \A q \in Queues : TheTest(q) # t
      <4>1. Counted(executedBy, t, n + 1)
        BY <3>1 DEF ExecutionInv, OverRight
      <4>2. ExecutesRun(t) \in SUBSET ExecutesBefore(t, n + 1)
        BY <2>1 DEF ExecutesRun, ExecutesBefore
      <4>. QED
        BY <2>1, <4>1, <4>2
    <3>2. CASE \E q \in Queues : TheTest(q) = t
      <4>1. PICK q \in Queues : TheTest(q) = t
        BY <3>2
      <4>2. running[q].doing # "idle"
        <5>1. QueueRight(q)
          BY DEF ExecutionInv
        <5>. QED
          BY <4>1, <5>1, RightTest DEF QueueRight, TheTest
      <4>3. running[q].at \in Nat /\ Counted(executedBy, t, running[q].at)
        BY <2>1, <4>1, <4>2, AtWork DEF Busy, Earned, TheTest
      <4>4. ExecutesRun(t) \in SUBSET ExecutesBefore(t, running[q].at)
        BY <4>1 DEF ExecutesRun, ExecutesBefore
      <4>. QED
        BY <4>3, <4>4
    <3>. QED
      BY <3>1, <3>2
  <2>3. /\ IsFiniteSet(ExecutesBefore(t, k))
        /\ Cardinality(ExecutesBefore(t, k)) \in Nat
    BY BeforeFinite
  <2>4. /\ IsFiniteSet(ExecutesRun(t))
        /\ Cardinality(ExecutesRun(t)) <= Cardinality(ExecutesBefore(t, k))
    BY <2>2, <2>3, FS_Subset
  <2>5. /\ Cardinality(ExecutesRun(t)) \in Nat
        /\ Cardinality({x \in executedBy : x.test = t}) \in Nat
    BY <2>1, <2>4, FS_CardinalityType, VouchersFinite
  <2>. QED
    BY <2>2, <2>3, <2>4, <2>5 DEF Counted
<1>. QED
  BY <1>1, CountsAlwaysRight, PTL
=============================================================================
