---------------------------- MODULE TestExecution ----------------------------
(***************************************************************************)
(* How the test-runner runs tests against the node of one sandbox:         *)
(* run_test goes through the assertions of a test, and each assertion type *)
(* has an executor that sends transactions, polls the node and looks at    *)
(* what it answers.  Two queues feed it, the sweep's and that of the AI    *)
(* sessions, so two tests can run against one node.                        *)
(*                                                                         *)
(* A script runs in a thread that nothing cancels: a test that times out   *)
(* leaves it running, and its transactions still land.                     *)
(*                                                                         *)
(* External: the chain and the node.  Inputs are mined, indexed and        *)
(* processed in order; each gives one output, in the epoch that is open; a *)
(* closed epoch is claimed by the validator and the claimer, and a voucher *)
(* can be executed once, after the claim of its epoch is on the chain.     *)
(*                                                                         *)
(* Abstracted: payloads, tokens and amounts; the deposit a voucher's       *)
(* script makes before its withdrawal; expect_count and min_count are 1;   *)
(* how long a poll waits (any poll may be the last one, or the one that    *)
(* finds an epoch stuck for long enough).                                  *)
(***************************************************************************)
EXTENDS Naturals, Sequences, SequencesExt, FiniteSetsExt

CONSTANTS
  Suite,         \* the tests
  Assertions,    \* [Suite -> Seq(AssertionTypes)], from the definitions
  QueueOf,       \* [Suite -> Queues]: where the command of a test waits
  Selections,    \* the sets of tests that are asked for together
  NoCase,       \* the test of a consumer that waits
  MaxEpochs,     \* bound: epochs of the node
  MaxMishaps     \* bound: calls that fail or are not answered, timeouts

Queues == {"tests.commands", "tests.commands.ai"}

AssertionTypes ==
  {"chain_tx", "expect_revert", "portal_deposit", "notice_check",
   "service_restart", "generate", "execute", "probe", "unknown"}

ASSUME ExecutionAssumption ==
  /\ Assertions \in [Suite -> Seq(AssertionTypes)]
  /\ QueueOf \in [Suite -> Queues]
  /\ Selections \subseteq SUBSET Suite
  /\ NoCase \notin Suite
  /\ MaxEpochs \in Nat \ {0} /\ MaxMishaps \in Nat

_CLAIMED_STATUSES == {"CLAIM_ACCEPTED", "CLAIM_SUBMITTED"}

VARIABLES
  inputs,      \* the inputs on the chain: the kind of output each gives
  indexed,     \* how many of them the node lists
  outputs,     \* the outputs of the node: [kind, epoch]
  epochs,      \* the status of each epoch
  claimed,     \* epochs whose claim is on the chain
  executedBy,  \* [index, test]: vouchers executed on the chain
  validator,   \* is the validator up, and did a test restart it lately
  running,     \* by queue: the test, the assertion, and where its executor is
  scripts,     \* by test: the script its thread runs
  outcome,     \* by test: its status
  slips        \* failed calls and timeouts so far

nodeVars      == <<inputs, indexed, outputs, epochs, claimed, executedBy>>
executionVars == <<nodeVars, validator, running, scripts, outcome, slips>>

(* A consumer between two tests, and a test at its first assertion. *)
NoCommand == [test |-> NoCase, at |-> 0, doing |-> "idle", before |-> 0,
         seen |-> <<>>, submitted |-> {}, ok |-> TRUE]

NoScript == [job |-> "none", arg |-> 0]

ExecutionInit ==
  /\ inputs = <<>> /\ indexed = 0 /\ outputs = <<>>
  /\ epochs = <<"OPEN">> /\ claimed = {} /\ executedBy = {}
  /\ validator = [up |-> TRUE, cooling |-> FALSE]
  /\ running = [q \in Queues |-> NoCommand]
  /\ scripts = [t \in Suite |-> NoScript]
  /\ \E asked \in Selections :
       outcome = [t \in Suite |-> IF t \in asked THEN "waiting" ELSE "unasked"]
  /\ slips = 0

(* One of the failed or unanswered calls and timeouts. *)
Mishap == slips < MaxMishaps /\ slips' = slips + 1
Calm   == UNCHANGED slips

TheTest(q) == running[q].test
TheType(q) == Assertions[TheTest(q)][running[q].at]

Doing(q, where)   == running[q].doing = where

(* A record, but for the fields that what gives. *)
Updated(r, what) ==
  [f \in DOMAIN r |-> IF f \in DOMAIN what THEN what[f] ELSE r[f]]

Proceeds(q, what) == running' = [running EXCEPT ![q] = Updated(@, what)]

(* The executor returns its items: did all of them pass? *)
Answers(q, passed) == Proceeds(q, [doing |-> "answered", ok |-> passed])

KeepsNode   == UNCHANGED <<nodeVars, validator>>
KeepsOthers == UNCHANGED <<scripts, outcome>>

(***************************************************************************)
(* The node and the chain.                                                 *)
(***************************************************************************)
NodeStep == UNCHANGED <<running, scripts, outcome, slips>>

(* evm-reader: cartesi_listInputs now has the next input. *)
IndexInput ==
  /\ indexed < Len(inputs)
  /\ indexed' = indexed + 1
  /\ UNCHANGED <<inputs, outputs, epochs, claimed, executedBy, validator>>
  /\ NodeStep

(* advancer: the next input gives its output. *)
ProcessInput ==
  /\ Len(outputs) < indexed
  /\ outputs' = Append(outputs, [kind  |-> inputs[Len(outputs) + 1],
                                 epoch |-> Len(epochs)])
  /\ UNCHANGED <<inputs, indexed, epochs, claimed, executedBy, validator>>
  /\ NodeStep

(* The open epoch, when it has an output, is closed and another is opened. *)
CloseEpoch ==
  /\ Len(epochs) < MaxEpochs
  /\ \E i \in DOMAIN outputs : outputs[i].epoch = Len(epochs)
  /\ epochs' = [epochs EXCEPT ![Len(epochs)] = "INPUTS_PROCESSED"] \o <<"OPEN">>
  /\ UNCHANGED <<inputs, indexed, outputs, claimed, executedBy, validator>>
  /\ NodeStep

EpochMoves(e, from, to) ==
  /\ epochs[e] = from
  /\ epochs' = [epochs EXCEPT ![e] = to]
  /\ UNCHANGED <<inputs, indexed, outputs, executedBy, validator>> /\ NodeStep

ComputeClaim ==
  /\ validator.up
  /\ \E e \in DOMAIN epochs :
       EpochMoves(e, "INPUTS_PROCESSED", "CLAIM_COMPUTED")
  /\ UNCHANGED claimed

(* claimer: the claim goes to the chain, or was already put there. *)
SubmitClaim ==
  \E e \in DOMAIN epochs :
    /\ EpochMoves(e, "CLAIM_COMPUTED", "CLAIM_SUBMITTED")
    /\ claimed' = claimed \cup {e}

AcceptClaim ==
  /\ \E e \in DOMAIN epochs : EpochMoves(e, "CLAIM_SUBMITTED", "CLAIM_ACCEPTED")
  /\ UNCHANGED claimed

(* The validator stops picking up epochs; a cooldown of its restarts ends. *)
ValidatorStalls ==
  /\ validator.up /\ validator' = [validator EXCEPT !.up = FALSE]
  /\ Mishap
  /\ UNCHANGED <<nodeVars, running, scripts, outcome>>

CooldownEnds ==
  /\ validator.cooling /\ validator' = [validator EXCEPT !.cooling = FALSE]
  /\ UNCHANGED nodeVars /\ NodeStep

(***************************************************************************)
(* run_test.                                                               *)
(***************************************************************************)
(* _handle, on a command: a command of its queue is taken up. *)
TakeTest(q) ==
  /\ Doing(q, "idle")
  /\ \E t \in Suite :
       /\ QueueOf[t] = q /\ outcome[t] = "waiting"
       /\ outcome' = [outcome EXCEPT ![t] = "passed"]
       /\ Proceeds(q, [NoCommand EXCEPT !.test = t, !.at = 1, !.doing = "next"])
  /\ KeepsNode /\ UNCHANGED scripts /\ Calm

(* The next assertion; a type without an executor fails and is skipped. *)
NextAssertion(q) ==
  /\ Doing(q, "next")
  /\ running[q].at <= Len(Assertions[TheTest(q)])
  /\ IF TheType(q) = "unknown"
     THEN Answers(q, FALSE)
     ELSE Proceeds(q, [doing |-> TheType(q), seen |-> <<>>, submitted |-> {}])
  /\ KeepsNode /\ KeepsOthers /\ Calm

(* An item that did not pass fails the test, and the next assertion runs. *)
RecordAnswer(q) ==
  /\ Doing(q, "answered")
  /\ outcome' = IF running[q].ok THEN outcome
                ELSE [outcome EXCEPT ![TheTest(q)] = "failed"]
  /\ Proceeds(q, [doing |-> "next", at |-> running[q].at + 1])
  /\ KeepsNode /\ UNCHANGED scripts /\ Calm

(* The result is stored and published, and the command acknowledged. *)
FinishTest(q) ==
  /\ Doing(q, "next")
  /\ running[q].at > Len(Assertions[TheTest(q)])
  /\ running' = [running EXCEPT ![q] = NoCommand]
  /\ KeepsNode /\ KeepsOthers /\ Calm

(* asyncio.timeout, or an exception of an executor, ends the loop wherever *)
(* it is; a script of the test keeps running.                              *)
Interrupt(q) ==
  /\ ~ Doing(q, "idle") /\ ~ Doing(q, "next")
  /\ \E how \in {"timeout", "error"} :
       outcome' = [outcome EXCEPT ![TheTest(q)] = how]
  /\ running' = [running EXCEPT ![q] = NoCommand]
  /\ Mishap
  /\ KeepsNode /\ UNCHANGED scripts

(***************************************************************************)
(* Scripts, in threads of their own.                                       *)
(***************************************************************************)
Start(q, script) == scripts' = [scripts EXCEPT ![TheTest(q)] = script]

(* A script of a test that is over has nobody to answer. *)
Ends(t, job) ==
  scripts' = [scripts EXCEPT ![t] =
                IF \E q \in Queues : TheTest(q) = t THEN [@ EXCEPT !.job = job]
                ELSE NoScript]

(* A deposit or a withdrawal is mined. *)
InputLands(t) ==
  /\ scripts[t].job \in {"deposit", "withdraw"}
  /\ inputs' = Append(inputs, IF scripts[t].job = "withdraw" THEN "Voucher"
                              ELSE "Notice")
  /\ Ends(t, "done")
  /\ UNCHANGED <<indexed, outputs, epochs, claimed, executedBy, validator>>
  /\ UNCHANGED <<running, outcome, slips>>

(* executeOutput: a voucher is executed once, and not before its claim.    *)
ExecutionLands(t) ==
  LET index    == scripts[t].arg
      executed == \E x \in executedBy : x.index = index
      final    == outputs[index].epoch \in claimed
  IN /\ scripts[t].job = "execute"
     /\ executedBy' = IF ~ executed /\ final
                      THEN executedBy \cup {[index |-> index, test |-> t]}
                      ELSE executedBy
     /\ Ends(t, IF executed THEN "OutputNotReexecutable"
                ELSE IF final THEN "done" ELSE "failed")
     /\ UNCHANGED <<inputs, indexed, outputs, epochs, claimed, validator>>
     /\ UNCHANGED <<running, outcome, slips>>

(* submitClaim is refused when the claim is on the chain. *)
ClaimLands(t) ==
  LET e == scripts[t].arg IN
  /\ scripts[t].job = "claim"
  /\ claimed' = claimed \cup {e}
  /\ Ends(t, IF e \in claimed THEN "failed" ELSE "done")
  /\ UNCHANGED <<inputs, indexed, outputs, epochs, executedBy, validator>>
  /\ UNCHANGED <<running, outcome, slips>>

(* A script that fails before its transaction, or is reported as failed    *)
(* (the wait of its container times out) after it.                         *)
ScriptFails(t) ==
  /\ scripts[t].job \in {"deposit", "withdraw", "execute", "claim", "done"}
  /\ Ends(t, "failed")
  /\ Mishap
  /\ KeepsNode /\ UNCHANGED <<running, outcome>>

ScriptEnded(q, how) == scripts[TheTest(q)].job = how

(* The thread's result is taken by the executor that awaits it. *)
Taken(q) == scripts' = [scripts EXCEPT ![TheTest(q)] = NoScript]

(***************************************************************************)
(* chain_tx and portal_deposit.                                            *)
(***************************************************************************)
(* The input count before, then the transaction: chain_tx over JSON-RPC,   *)
(* which answers with a receipt, a deposit in a script.                    *)
SendTx(q) ==
  /\ Doing(q, "chain_tx")
  /\ inputs' = Append(inputs, "Notice")
  /\ Proceeds(q, [doing |-> "indexing", before |-> indexed])
  /\ UNCHANGED <<indexed, outputs, epochs, claimed, executedBy, validator>>
  /\ KeepsOthers /\ Calm

(* A transaction that must revert, and does: no input. *)
SendReverting(q) ==
  /\ Doing(q, "expect_revert")
  /\ Proceeds(q, [doing |-> "indexing", before |-> indexed])
  /\ KeepsNode /\ KeepsOthers /\ Calm

SendDeposit(q) ==
  /\ Doing(q, "portal_deposit")
  /\ Proceeds(q, [doing |-> "depositing", before |-> indexed])
  /\ Start(q, [job |-> "deposit", arg |-> 0])
  /\ KeepsNode /\ UNCHANGED outcome /\ Calm

AwaitDeposit(q) ==
  /\ Doing(q, "depositing")
  /\ \/ ScriptEnded(q, "done") /\ Proceeds(q, [doing |-> "indexing"])
     \/ ScriptEnded(q, "failed") /\ Answers(q, FALSE)
  /\ Taken(q)
  /\ KeepsNode /\ UNCHANGED outcome /\ Calm

(* No receipt in time, or a call that fails. *)
SendFails(q) ==
  /\ running[q].doing \in {"chain_tx", "expect_revert"}
  /\ Answers(q, FALSE) /\ Mishap
  /\ KeepsNode /\ KeepsOthers

(* 15 s for an input of anybody to be indexed: count_after must be more    *)
(* than count_before.                                                      *)
InputIndexed(q) ==
  /\ Doing(q, "indexing")
  /\ indexed > running[q].before
  /\ Answers(q, TRUE)
  /\ KeepsNode /\ KeepsOthers /\ Calm

InputNotIndexed(q) ==
  /\ Doing(q, "indexing")
  /\ indexed <= running[q].before
  /\ Answers(q, FALSE)
  /\ KeepsNode /\ KeepsOthers /\ Calm

(***************************************************************************)
(* notice_check, service_restart and the executors that ask one question.  *)
(***************************************************************************)
(* Any notice of the node will do; a poll that is not answered is repeated. *)
NoticeFound(q) ==
  /\ Doing(q, "notice_check")
  /\ Answers(q, \E i \in DOMAIN outputs : outputs[i].kind = "Notice")
  /\ KeepsNode /\ KeepsOthers /\ Calm

(* docker restart, then its health: that of the validator, here. *)
RestartService(q) ==
  /\ Doing(q, "service_restart")
  /\ validator' = [validator EXCEPT !.up = TRUE]
  /\ Answers(q, TRUE) /\ Calm
  /\ UNCHANGED nodeVars /\ KeepsOthers

(* The port answers, or docker fails and nothing was restarted. *)
ProbeAnswers(q) ==
  /\ running[q].doing \in {"probe", "service_restart"}
  /\ \/ Doing(q, "probe") /\ Answers(q, TRUE) /\ Calm
     \/ Answers(q, FALSE) /\ Mishap
  /\ KeepsNode /\ KeepsOthers
(***************************************************************************)
(* voucher_v2.                                                             *)
(***************************************************************************)
(* The output count before, 0 when the node does not answer, then the      *)
(* script that makes the application emit a voucher.                       *)
TriggerVoucher(q) ==
  /\ running[q].doing \in {"generate", "execute"}
  /\ \/ /\ Proceeds(q, [doing |-> "generating", before |-> Len(outputs)])
        /\ Calm
     \/ /\ Len(outputs) > 0
        /\ Proceeds(q, [doing |-> "generating", before |-> 0])
        /\ Mishap
  /\ Start(q, [job |-> "withdraw", arg |-> 0])
  /\ KeepsNode /\ UNCHANGED outcome

AwaitTrigger(q) ==
  /\ Doing(q, "generating")
  /\ \/ ScriptEnded(q, "done") /\ Proceeds(q, [doing |-> "polling"])
     \/ ScriptEnded(q, "failed") /\ Answers(q, FALSE)
  /\ Taken(q)
  /\ KeepsNode /\ UNCHANGED outcome /\ Calm

(* The vouchers among the outputs after the first `from`, in their order.  *)
Vouchers(from) ==
  SetToSortSeq({i \in DOMAIN outputs : /\ i > from
                                        /\ outputs[i].kind = "Voucher"}, <)

(* _poll_vouchers without a claim and without min_output_index. *)
PollGenerated(q) ==
  /\ Doing(q, "polling") /\ TheType(q) = "generate"
  /\ Vouchers(0) # <<>>
  /\ Proceeds(q, [doing |-> "answered", ok |-> TRUE, seen |-> Vouchers(0)])
  /\ KeepsNode /\ KeepsOthers /\ Calm

(* _poll_vouchers of execute mode: the vouchers listed after the snapshot, *)
(* whose epochs are asked for next.                                        *)
PollNew(q) ==
  /\ Doing(q, "polling") /\ TheType(q) = "execute"
  /\ Vouchers(running[q].before) # <<>>
  /\ Proceeds(q, [doing |-> "claims", seen |-> Vouchers(running[q].before)])
  /\ KeepsNode /\ KeepsOthers /\ Calm

(* The deadline of the poll: no vouchers. *)
PollTimesOut(q) ==
  /\ Doing(q, "polling")
  /\ Answers(q, FALSE)
  /\ KeepsNode /\ KeepsOthers /\ Calm

SeenEpochs(q) == {outputs[i].epoch : i \in ToSet(running[q].seen)}
Without(q, e) == SelectSeq(running[q].seen, LAMBDA i : outputs[i].epoch # e)

(* Claimed for the node, or submitted by this poll and not yet for it. *)
Ready(q) ==
  {e \in SeenEpochs(q) :
     \/ epochs[e] \in _CLAIMED_STATUSES
     \/ epochs[e] = "CLAIM_COMPUTED" /\ e \in running[q].submitted}

(* The round ends: the vouchers that are ready, or another poll.           *)
TakeReady(q) ==
  LET ready == SelectSeq(running[q].seen,
                         LAMBDA i : outputs[i].epoch \in Ready(q))
  IN /\ Doing(q, "claims")
     /\ Proceeds(q, IF ready = <<>> THEN [doing |-> "polling"]
                    ELSE [doing |-> "trying", seen |-> ready])
     /\ KeepsNode /\ KeepsOthers /\ Calm

(* cartesi_getEpoch is not answered: its vouchers are left out this round. *)
EpochUnanswered(q) ==
  /\ Doing(q, "claims")
  /\ \E e \in SeenEpochs(q) : Proceeds(q, [seen |-> Without(q, e)])
  /\ Mishap
  /\ KeepsNode /\ KeepsOthers

(* _submit_claim_if_computed, for an epoch that was CLAIM_COMPUTED for     *)
(* _CLAIM_MANUAL_DELAY.                                                    *)
SubmitManually(q) ==
  /\ Doing(q, "claims")
  /\ \E e \in SeenEpochs(q) \ running[q].submitted :
       /\ epochs[e] = "CLAIM_COMPUTED"
       /\ Start(q, [job |-> "claim", arg |-> e])
       /\ Proceeds(q, [doing     |-> "claiming",
                       submitted |-> running[q].submitted \cup {e}])
  /\ KeepsNode /\ UNCHANGED outcome /\ Calm

(* The epoch counts as submitted either way; only this round leaves out    *)
(* the vouchers of one that failed.                                        *)
AwaitClaim(q) ==
  /\ Doing(q, "claiming")
  /\ \/ /\ ScriptEnded(q, "done")
        /\ Proceeds(q, [doing |-> "claims"])
     \/ /\ ScriptEnded(q, "failed")
        /\ Proceeds(q, [doing |-> "claims",
                        seen  |-> Without(q, scripts[TheTest(q)].arg)])
  /\ Taken(q)
  /\ KeepsNode /\ UNCHANGED outcome /\ Calm

(* _maybe_restart_validator, for an epoch that was INPUTS_PROCESSED for    *)
(* _INPUTS_PROCESSED_RESTART_DELAY: the cooldown begins even if it fails.  *)
MaybeRestartValidator(q) ==
  /\ Doing(q, "claims")
  /\ \E e \in SeenEpochs(q) : epochs[e] = "INPUTS_PROCESSED"
  /\ ~ validator.cooling
  /\ \/ validator' = [up |-> TRUE, cooling |-> TRUE] /\ Calm
     \/ validator' = [validator EXCEPT !.cooling = TRUE] /\ Mishap
  /\ UNCHANGED nodeVars /\ UNCHANGED running /\ KeepsOthers

(* Phase 2: the next voucher, unless all were executed already. *)
TryVoucher(q) ==
  /\ Doing(q, "trying")
  /\ IF running[q].seen = <<>>
     THEN Answers(q, FALSE) /\ UNCHANGED scripts
     ELSE /\ Start(q, [job |-> "execute", arg |-> Head(running[q].seen)])
          /\ Proceeds(q, [doing |-> "executing"])
  /\ KeepsNode /\ UNCHANGED outcome /\ Calm

(* Mutant: a voucher that was executed already passes. *)
AwaitExecution_AnyExecuted(q) ==
  /\ Doing(q, "executing")
  /\ \/ /\ ScriptEnded(q, "OutputNotReexecutable")
        /\ Answers(q, TRUE) /\ Calm
     \/ ScriptEnded(q, "failed") /\ Answers(q, FALSE) /\ Calm
     \/ /\ ScriptEnded(q, "done")
        /\ \/ Answers(q, TRUE) /\ Calm
           \/ running[q].before > 0 /\ Answers(q, FALSE) /\ Mishap
  /\ Taken(q)
  /\ KeepsNode /\ UNCHANGED outcome

(* One that was executed already is skipped; after a success, an output    *)
(* count that is not answered (0) fails count_after.                       *)
AwaitExecution(q) ==
  /\ Doing(q, "executing")
  /\ \/ /\ ScriptEnded(q, "OutputNotReexecutable")
        /\ Proceeds(q, [doing |-> "trying", seen |-> Tail(running[q].seen)])
        /\ Calm
     \/ ScriptEnded(q, "failed") /\ Answers(q, FALSE) /\ Calm
     \/ /\ ScriptEnded(q, "done")
        /\ \/ Answers(q, TRUE) /\ Calm
           \/ running[q].before > 0 /\ Answers(q, FALSE) /\ Mishap
  /\ Taken(q)
  /\ KeepsNode /\ UNCHANGED outcome

(***************************************************************************)
(* The specification.                                                      *)
(***************************************************************************)
NodeMoves ==
  \/ IndexInput \/ ProcessInput
  \/ CloseEpoch \/ ComputeClaim \/ SubmitClaim \/ AcceptClaim
  \/ ValidatorStalls \/ CooldownEnds

ScriptMoves(t) ==
  InputLands(t) \/ ExecutionLands(t) \/ ClaimLands(t) \/ ScriptFails(t)

ExecutorMoves(q) ==
  \/ SendTx(q) \/ SendReverting(q) \/ SendDeposit(q) \/ AwaitDeposit(q)
  \/ SendFails(q) \/ InputIndexed(q) \/ InputNotIndexed(q)
  \/ NoticeFound(q) \/ RestartService(q) \/ ProbeAnswers(q)
  \/ TriggerVoucher(q) \/ AwaitTrigger(q)
  \/ PollGenerated(q) \/ PollNew(q) \/ PollTimesOut(q)
  \/ TakeReady(q) \/ EpochUnanswered(q) \/ SubmitManually(q) \/ AwaitClaim(q)
  \/ MaybeRestartValidator(q) \/ TryVoucher(q) \/ AwaitExecution(q)

RunnerMoves(q) ==
  \/ TakeTest(q) \/ NextAssertion(q) \/ RecordAnswer(q) \/ FinishTest(q)
  \/ Interrupt(q) \/ ExecutorMoves(q)

ExecutionNext ==
  \/ NodeMoves
  \/ \E t \in Suite : ScriptMoves(t)
  \/ \E q \in Queues : RunnerMoves(q)

ExecutionSpec == ExecutionInit /\ [][ExecutionNext]_executionVars

(***************************************************************************)
(* Properties.                                                             *)
(***************************************************************************)
(* The execute assertions of a test that were run to their end. *)
ExecutesRun(t) ==
  {k \in DOMAIN Assertions[t] :
     /\ Assertions[t][k] = "execute"
     /\ \A q \in Queues : TheTest(q) = t => k < running[q].at}

(* Execute mode is what proves that a node's vouchers can be executed: a   *)
(* test that has not failed has itself executed a voucher for each of its  *)
(* execute assertions, whatever other tests, late scripts of tests that    *)
(* timed out and the claimer do to the vouchers in between.                *)
PassedExecutesOwn ==
  \A t \in Suite :
    outcome[t] = "passed" =>
      Cardinality(ExecutesRun(t)) <=
        Cardinality({x \in executedBy : x.test = t})

(* "Found n new voucher(s)", says the result of generate mode: one of them *)
(* was not there when the test took its snapshot.                          *)
GeneratedIsNew ==
  \A q \in Queues :
    (Doing(q, "answered") /\ TheType(q) = "generate" /\ running[q].ok) =>
      \E i \in ToSet(running[q].seen) : i > running[q].before
=============================================================================
