------------------------------ MODULE MCSystem ------------------------------
(***************************************************************************)
(* The machines of the platform, apart from the sandbox-manager's task,    *)
(* in one run: a behaviour is one of them, in the small instance given     *)
(* here, and the others wait in their initial states.  Their states are    *)
(* disjoint: a run checks the sum of their behaviours, not the product.    *)
(***************************************************************************)
EXTENDS SandboxPool, AppBuildCache, SandboxLaunch, LogStreams, RunLifecycle,
        ReleaseWatch, AiSession, AgentLoop, TestExecution

VARIABLE part

CONSTANTS Parts, l1, l2, l3, v1, n2, c1, c2, x1, x2, d1, d2, k1, k2,
          e1, e2, g1, m1

(* Two launches of one contracts version, and one of a release that names  *)
(* neither contracts nor an SDK.                                           *)
SmallWanted == [l \in {l1, l2, l3} |-> IF l = l3 THEN NoVersion ELSE v1]

(* A node release, of which the CLI comes late, and a seeded catalog.      *)
SmallNodeReleases == <<n2>>

SmallCliReleases ==
  << [tag |-> c2, node |-> n2, sdk |-> x2, devnet |-> d2, contracts |-> k2] >>

(* The CLI of a release is changed and nothing else. *)
SmallPayloads == {[given |-> {"cli"}, to |-> [NoChain EXCEPT !.cli = c1]]}

SmallSeed ==
  [known |-> {c1, x1, d1, k1},
   active |-> {},
   cliOf |-> [n \in Nodes |-> None],
   sdkOf |-> [c \in CliTags |-> IF c = c1 THEN x1 ELSE None],
   devnetOf |-> [c \in CliTags |-> IF c = c1 THEN d1 ELSE None],
   contractsOf |-> [d \in Devnets |-> IF d = d1 THEN k1 ELSE None]]

(* An autonomous session with one or two tests, and an interactive one. *)
OneTest  == [s \in Sessions |-> IF s \in Autonomous THEN {"t1"} ELSE {}]
TwoTests == [s \in Sessions |-> IF s \in Autonomous THEN {"t1", "t2"} ELSE {}]

(* Two tests that execute a voucher, in different queues, one that         *)
(* generates one, and one of all other assertion types.                    *)
SmallAssertions ==
  [t \in Suite |->
     CASE t = g1 -> <<"generate">>
       [] t = m1 -> <<"unknown", "portal_deposit", "notice_check", "chain_tx",
                      "expect_revert", "service_restart", "probe">>
       [] OTHER  -> <<"execute">>]

SmallQueues ==
  [t \in Suite |-> IF t = e1 THEN "tests.commands.ai" ELSE "tests.commands"]

Init ==
  /\ part \in Parts
  /\ PoolInit /\ CacheInit /\ LaunchInit /\ LogInit /\ RunInit
  /\ ReleaseInit /\ SessionInit /\ LoopInit /\ ExecutionInit
  /\ part # "loop"  => ~ solo
  /\ part # "tests" => \A t \in Suite : outcome[t] = "unasked"

(* What the machines other than p keep. *)
Others(p) ==
  /\ p # "pool"     => UNCHANGED poolVars
  /\ p # "cache"    => UNCHANGED cacheVars
  /\ p # "launch"   => UNCHANGED launchVars
  /\ p # "logs"     => UNCHANGED logVars
  /\ p # "run"      => UNCHANGED runVars
  /\ p # "releases" => UNCHANGED releaseVars
  /\ p # "sessions" => UNCHANGED sessionVars
  /\ p # "loop"     => UNCHANGED loopVars
  /\ p # "tests"    => UNCHANGED executionVars

Next ==
  /\ UNCHANGED part /\ Others(part)
  /\ \/ part = "pool"     /\ PoolNext
     \/ part = "cache"    /\ CacheNext
     \/ part = "launch"   /\ LaunchNext
     \/ part = "logs"     /\ LogNext
     \/ part = "run"      /\ RunNext
     \/ part = "releases" /\ ReleaseNext
     \/ part = "sessions" /\ SessionNext
     \/ part = "loop"     /\ LoopNext
     \/ part = "tests"    /\ ExecutionNext

allVars ==
  <<part, poolVars, cacheVars, launchVars, logVars, runVars, releaseVars,
    sessionVars, loopVars, executionVars>>

Spec == Init /\ [][Next]_allVars

(* PoolFairness, and the fairness of FairCacheSpec, FairLogSpec,           *)
(* FairRunSpec, FairReleaseSpec and FairSessionSpec, asked of the machine  *)
(* that moves.                                                             *)
Fairness ==
  /\ WF_poolVars(part = "pool" /\ \E r \in Requests : Prefetch(r))
  /\ WF_poolVars(part = "pool" /\ \E r \in Requests : Deliver(r))
  /\ WF_poolVars(part = "pool" /\ WaitForSlot)
  /\ WF_poolVars(part = "pool" /\ Ack)
  /\ WF_poolVars(part = "pool" /\ Spawn)
  /\ \A r \in Requests : /\ WF_poolVars(part = "pool" /\ Acquire(r))
                         /\ WF_poolVars(part = "pool" /\ Release(r))
  /\ \A s \in Sandboxes : WF_cacheVars(part = "cache" /\ WorkerStep(s))
  /\ WF_logVars(part = "logs" /\ TimerWakes)
  /\ WF_logVars(part = "logs" /\ StopBuffer)
  /\ \A t \in Threads : WF_logVars(part = "logs" /\ Flush(t))
  /\ WF_runVars(part = "run" /\ HandlerStep)
  /\ \A l \in Lanes : WF_runVars(part = "run" /\ LaneStep(l))
  /\ WF_runVars(part = "run" /\ TallyStep)
  /\ WF_releaseVars(part = "releases" /\ ConsumerStep)
  /\ \A t \in Tasks : WF_releaseVars(part = "releases" /\ TaskStep(t))
  /\ SF_releaseVars(part = "releases" /\ PollNode /\ node' # node)
  /\ WF_sessionVars(part = "sessions" /\ ConsumerTakes)
  /\ \A s \in Sessions : WF_sessionVars(part = "sessions" /\ Proceed(s))

FairSpec == Spec /\ Fairness
=============================================================================
