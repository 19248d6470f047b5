----------------------------- MODULE AgentLoop -----------------------------
(***************************************************************************)
(* The loop of one AI session: a turn asks the model, executes the tools   *)
(* it calls one after the other and puts call and results into the         *)
(* history; between turns the loop looks at its limits and compresses a    *)
(* history that has grown too large.  Under it the ToolExecutor, the audit *)
(* rows of the tools, and the verdicts that claim those rows as their      *)
(* trail.                                                                  *)
(*                                                                         *)
(* A tool is "open" (read_test_definition, record_test_plan), "verdict" or *)
(* "act" (any other one).  An audit row remembers the test in whose        *)
(* context it was written.                                                 *)
(*                                                                         *)
(* Abstracted: texts, token counts (only whether the context is "full"),   *)
(* prompt caching, what a tool does to the node, and of a verdict its      *)
(* evidence, confidence and provenance.                                    *)
(***************************************************************************)
EXTENDS Naturals, Sequences, SequencesExt, FiniteSetsExt

CONSTANTS
  Tests, NoTest,
  MaxToolCalls,    \* LIMITS["max_tool_calls"]
  MaxCallsPerTurn, \* bound: tool calls in one answer of the model
  MaxAsks,         \* bound: messages of the user
  Retries,         \* Len(RETRY_DELAYS_S)
  TRAIL_CAP

ASSUME LoopAssumption ==
  /\ NoTest \notin Tests
  /\ {MaxToolCalls, MaxCallsPerTurn, MaxAsks, Retries} \subseteq Nat
  /\ TRAIL_CAP \in Nat \ {0}

VARIABLES
  solo,       \* modes autonomous and chaos; else a mode with a user
  messages,   \* the history sent to the model
  full,       \* the last turn used more than 80% of the context window
  late,       \* max_duration has passed
  calls,      \* tool_call_count
  phase,      \* where the loop is
  attempt,    \* failed attempts of this turn
  answer,     \* the calls of the model's answer still to be executed
  stop,       \* stop_reason of that answer
  asks,       \* messages of the user so far
  slug,       \* current_test_slug
  audit,      \* ai.tool_invocations of the session
  judged      \* ai.test_verdicts of the session

historyVars == <<messages, full>>
turnVars    == <<attempt, answer, stop>>
toolVars    == <<slug, audit, judged>>
loopVars    == <<solo, historyVars, late, calls, phase, turnVars, asks, toolVars>>

VERDICTS == {"passed", "failed", "blocked", "skipped", "inconclusive"}

(* What the model may call. *)
ToolCalls ==
  [tool : {"act"}] \cup [tool : {"open"}, test : Tests]
    \cup [tool : {"verdict"}, test : Tests, verdict : {"passed", "blocked"}]

Message == [kind : {"ask", "say", "use", "results"}]

NotJudged == [verdict |-> "none", trail |-> {}]

LoopTypeOK ==
  /\ solo \in BOOLEAN
  /\ messages \in Seq(Message)
  /\ full \in BOOLEAN /\ late \in BOOLEAN
  /\ calls \in Nat
  /\ phase \in {"idle", "check", "model", "tools", "over", "raised"}
  /\ attempt \in 0..Retries
  /\ answer \in Seq(ToolCalls)
  /\ stop \in {"end_turn", "tool_use", "max_tokens"}
  /\ asks \in 0..MaxAsks
  /\ slug \in Tests \cup {NoTest}
  /\ audit \in Seq([tool : {"act", "open", "verdict"},
                    during : Tests \cup {NoTest}, claim : Tests \cup {NoTest}])
  /\ \A t \in Tests : /\ judged[t].verdict \in VERDICTS \cup {"none"}
                      /\ judged[t].trail \subseteq DOMAIN audit

Msg(k) == <<[kind |-> k]>>

LoopInit ==
  /\ solo \in BOOLEAN
  /\ messages = IF solo THEN Msg("ask") ELSE <<>>
  /\ full = FALSE
  /\ late = FALSE
  /\ calls = 0
  /\ phase = IF solo THEN "check" ELSE "idle"
  /\ attempt = 0
  /\ answer = <<>>
  /\ stop = "end_turn"
  /\ asks = 0
  /\ slug = NoTest
  /\ audit = <<>>
  /\ judged = [t \in Tests |-> NotJudged]

-----------------------------------------------------------------------------
(* The loop. *)

TimePasses ==
  /\ ~late
  /\ late' = TRUE
  /\ UNCHANGED <<solo, historyVars, calls, phase, turnVars, asks, toolVars>>

OverLimit == calls >= MaxToolCalls \/ late

(* Mutant: three messages are kept, and a call loses its results. *)
Compressed_KeepsThree ==
  Msg("ask") \o Msg("say")
    \o SubSeq(messages, Len(messages) - 2, Len(messages))

(* The summary and the last four messages. *)
Compressed ==
  Msg("ask") \o Msg("say")
    \o SubSeq(messages, Len(messages) - 3, Len(messages))

(* The limits, then the context; the request for a summary may raise. *)
CheckLimits ==
  /\ phase = "check"
  /\ IF OverLimit
     THEN phase' = "over" /\ UNCHANGED historyVars
     ELSE IF full /\ Len(messages) > 6
     THEN \/ messages' = Compressed /\ full' \in BOOLEAN /\ phase' = "model"
          \/ phase' = "raised" /\ UNCHANGED historyVars
     ELSE phase' = "model" /\ UNCHANGED historyVars
  /\ UNCHANGED <<solo, late, calls, turnVars, asks, toolVars>>

(* send_user_message: no limits and no compression. *)
Ask ==
  /\ phase = "idle" /\ asks < MaxAsks
  /\ asks' = asks + 1
  /\ messages' = messages \o Msg("ask")
  /\ phase' = "model"
  /\ UNCHANGED <<solo, full, late, calls, turnVars, toolVars>>

(* The model answers with calls, in order, or with text only. *)
ModelAnswers ==
  /\ phase = "model"
  /\ \E n \in 0..MaxCallsPerTurn :
       /\ answer' \in [1..n -> ToolCalls]
       /\ stop' \in IF n = 0 THEN {"end_turn", "max_tokens"}
                    ELSE {"tool_use", "max_tokens"}
  /\ full' \in BOOLEAN
  /\ attempt' = 0
  /\ phase' = "tools"
  /\ messages' = messages \o Msg(IF answer' = <<>> THEN "say" ELSE "use")
  /\ UNCHANGED <<solo, late, calls, asks, toolVars>>

(* A transient error is tried again, another one raises, and so does the   *)
(* last attempt.                                                           *)
ModelFails ==
  /\ phase = "model"
  /\ \/ attempt < Retries /\ attempt' = attempt + 1 /\ UNCHANGED phase
     \/ attempt' = 0 /\ phase' = IF solo THEN "raised" ELSE "over"
  /\ UNCHANGED <<solo, historyVars, late, calls, answer, stop, asks, toolVars>>

-----------------------------------------------------------------------------
(* One tool call: ToolExecutor.execute never raises. *)

(* The rows a verdict takes for its trail: the oldest ones nobody claimed. *)
Unclaimed == {i \in DOMAIN audit : audit[i].claim = NoTest /\ audit[i].tool = "act"}

Oldest(S) == {i \in S : Cardinality({j \in S : j < i}) < TRAIL_CAP}

(* Mutant: rows another verdict has claimed are taken again. *)
Trail_Shared ==
  Oldest({i \in DOMAIN audit : audit[i].tool = "act"})

Trail == Oldest(Unclaimed)

(* The validation gate. *)
Gated(verdict, trail) ==
  IF verdict \in {"passed", "failed"} /\ trail = {} THEN "inconclusive" ELSE verdict

Claimed(t) ==
  [i \in DOMAIN audit |-> IF i \in Trail THEN [audit[i] EXCEPT !.claim = t]
                          ELSE audit[i]]

(* record_test_verdict is one transaction: the row of the test, and its    *)
(* name on the rows of the trail.                                          *)
JudgeTest(c) ==
  judged' = [judged EXCEPT ![c.test] =
               [verdict |-> Gated(c.verdict, Trail), trail |-> Trail]]

(* The row of the call itself, written after it; losing it is only logged. *)
Audited(rows, tool, during) ==
  audit' \in {rows, Append(rows, [tool |-> tool, during |-> during, claim |-> NoTest])}

ExecuteTool ==
  /\ phase = "tools" /\ answer # <<>>
  /\ calls' = calls + 1
  /\ answer' = Tail(answer)
  /\ LET c == Head(answer) IN
       \/ /\ c.tool = "act"
          /\ Audited(audit, "act", slug)
          /\ UNCHANGED <<slug, judged>>
       \/ /\ c.tool = "open"
          /\ slug' = c.test
          /\ Audited(audit, "open", c.test)
          /\ UNCHANGED judged
       \/ /\ c.tool = "verdict"
          /\ JudgeTest(c)
          /\ slug' = IF slug = c.test THEN NoTest ELSE slug
          /\ Audited(Claimed(c.test), "verdict", c.test)
       \/ /\ c.tool = "verdict"    \* no database
          /\ UNCHANGED <<slug, audit, judged>>
  /\ UNCHANGED <<solo, historyVars, late, phase, attempt, stop, asks>>

(* All results go into one message; then the loop decides on stop_reason.  *)
EndTurn ==
  /\ phase = "tools" /\ answer = <<>>
  /\ messages' = IF Last(messages).kind = "use" THEN messages \o Msg("results")
                 ELSE messages
  /\ phase' = IF ~solo THEN "idle"
              ELSE IF stop = "tool_use" THEN "check" ELSE "over"
  /\ UNCHANGED <<solo, full, late, calls, turnVars, asks, toolVars>>

-----------------------------------------------------------------------------
LoopStep == CheckLimits \/ ModelAnswers \/ ModelFails \/ ExecuteTool \/ EndTurn

LoopNext == TimePasses \/ Ask \/ LoopStep

LoopSpec == LoopInit /\ [][LoopNext]_loopVars

-----------------------------------------------------------------------------
(* What the model is sent pairs each message of tool calls with the        *)
(* results that follow it, after any number of compressions: the cut at    *)
(* four messages never falls between a call and its results, or the API    *)
(* would refuse every later turn.                                          *)
UsesAnswered ==
  phase = "model" =>
    /\ \A i \in DOMAIN messages :
         messages[i].kind = "use" =>
           i < Len(messages) /\ messages[i + 1].kind = "results"
    /\ \A i \in DOMAIN messages :
         messages[i].kind = "results" => i > 1 /\ messages[i - 1].kind = "use"

(* "each tool invocation is claimed by exactly one verdict"                *)
(* (verdicts.py:14), and a verdict "passed" or "failed" has a trail: what  *)
(* a verdict cites as its trail is what bears its name, however often      *)
(* verdicts are recorded again, lost or cut at the cap.                    *)
VerdictsBacked ==
  \A t \in Tests :
    /\ \A i \in judged[t].trail : audit[i].claim = t
    /\ judged[t].verdict \in {"passed", "failed"} => judged[t].trail # {}
=============================================================================
