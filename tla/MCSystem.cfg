\* The pool: four requests for two slots, a crash, a leak, an expired request.
\* The cache: three runs of one application, two commits, one cached volume
\* kept, one failed call or crash, one outage of GitHub.
\* The launches: see SmallWanted; two port offsets, one failed call or crash.
\* The logs: two containers with two lines each, batches of two lines, one
\* broken stream or refused batch.
\* The run: one test, an AI session that tests in its sandbox; its crashes
\* and failed calls are in MCRunLifecycle.cfg.
\* The releases: a node release and a late CLI, one webhook at a time, two
\* extras (calls of a route, crashes or failed calls).
\* The sessions: an autonomous one that bootstraps its sandbox and an
\* interactive one, a message, an abort, two crashes or failed calls.
\* The loop: two tests, four tool calls, one retry, a trail of one row.
\* The tests: two executions of vouchers at a time, an execution beside a
\* generation, or the other assertion types; two epochs, one failed call.
SPECIFICATION Spec
CONSTANTS
  Parts = {"pool", "cache", "launch", "logs", "run", "releases", "sessions",
           "loop", "tests"}
  Requests = {r1, r2, r3, r4}
  NoRequest = NoRequest
  MAX_SANDBOXES = 2
  MaxCrashes = 1
  MaxLeaks = 1
  MaxExpiries = 1
  Sandboxes = {b1, b2, b3}
  NoSandbox = NoSandbox
  MaxCommit = 2
  APP_CACHE_MAX_PER_APP = 1
  MaxBuildFaults = 1
  MaxOutages = 1
  l1 = l1  l2 = l2  l3 = l3  v1 = v1
  Launches = {l1, l2, l3}
  Wanted <- SmallWanted
  NoVersion = NoVersion
  V2Launches = {l1, l2, l3}
  Stacked = {l1, l2}
  Offsets = 2
  NoOffset = NoOffset
  Nobody = Nobody
  MaxBreaks = 1
  Streams = {"advancer", "validator"}
  MAX_LINES = 2
  MaxOutput = 2
  MaxTroubles = 1
  Definitions = {t1}
  Selected = {t1}
  PASS_THRESHOLD_COMPLETED = 100
  PASS_THRESHOLD_WARNING = 50
  MaxAiTests = 1
  MaxFaults = 0
  n2 = n2  c1 = c1  c2 = c2  x1 = x1  x2 = x2
  d1 = d1  d2 = d2  k1 = k1  k2 = k2
  None = None
  Nodes = {n2}
  V2 = {n2}
  Clis = {c1, c2}
  Sdks = {x1, x2}
  Devnets = {d1, d2}
  Contracts = {k1, k2}
  NodeReleases <- SmallNodeReleases
  CliReleases <- SmallCliReleases
  Seed <- SmallSeed
  Payloads <- SmallPayloads
  Handlers = {"hook"}
  MaxExtras = 2
  Sessions = {a1, u1}
  Autonomous = {a1}
  Bootstrapped = {a1}
  Plan <- TwoTests
  MaxMessages = 1
  MaxAborts = 1
  MaxFailures = 2
  Tests = {t1, t2}
  NoTest = NoTest
  MaxToolCalls = 4
  MaxCallsPerTurn = 1
  MaxAsks = 1
  Retries = 1
  TRAIL_CAP = 1
  e1 = e1  e2 = e2  g1 = g1  m1 = m1
  Suite = {e1, e2, g1, m1}
  Assertions <- SmallAssertions
  QueueOf <- SmallQueues
  Selections = {{}, {e1, e2}, {e1, g1}, {m1}}
  NoCase = NoCase
  MaxEpochs = 2
  MaxMishaps = 1
INVARIANTS
  PoolTypeOK
  CapRespected
  SlotsHaveOwners
  NoLostWakeup
  NoDuplicateDelivery
  CacheTypeOK
  SingleFlight
  NeverStale
  RestoredComplete
  NodesOnRightChain
  LinesKept
  OneRunPerRelease
  CatalogBeforeRun
  ChainClosed
  VerdictsComplete
  UsesAnswered
  VerdictsBacked
  PassedExecutesOwn

  
  
CHECK_DEADLOCK FALSE
