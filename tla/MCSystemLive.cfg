\* Small instances of the six machines that have fairness: three requests for
\* two slots, two runs of one application, two containers of one line, one run
\* of two tests without faults, one release with one extra, two sessions with
\* one failure.
SPECIFICATION FairSpec
CONSTANTS
  Parts = {"pool", "cache", "logs", "run", "releases", "sessions"}
  Requests = {r1, r2, r3}
  NoRequest = NoRequest
  MAX_SANDBOXES = 2
  MaxCrashes = 1
  MaxLeaks = 1
  MaxExpiries = 1
  Sandboxes = {b1, b2}
  NoSandbox = NoSandbox
  MaxCommit = 2
  APP_CACHE_MAX_PER_APP = 1
  MaxBuildFaults = 1
  MaxOutages = 1
  l1 = l1  l2 = l2  l3 = l3  v1 = v1
  Launches = {l1, l2, l3}
  Wanted <- SmallWanted
  NoVersion = NoVersion
  V2Launches = {l1, l2, l3}
  Stacked = {l1, l2}
  Offsets = 2
  NoOffset = NoOffset
  Nobody = Nobody
  MaxBreaks = 1
  Streams = {"advancer", "validator"}
  MAX_LINES = 2
  MaxOutput = 1
  MaxTroubles = 1
  Definitions = {t1, t2}
  Selected = {t1, t2}
  PASS_THRESHOLD_COMPLETED = 100
  PASS_THRESHOLD_WARNING = 50
  MaxAiTests = 0
  MaxFaults = 0
  n2 = n2  c1 = c1  c2 = c2  x1 = x1  x2 = x2
  d1 = d1  d2 = d2  k1 = k1  k2 = k2
  None = None
  Nodes = {n2}
  V2 = {n2}
  Clis = {c1, c2}
  Sdks = {x1, x2}
  Devnets = {d1, d2}
  Contracts = {k1, k2}
  NodeReleases <- SmallNodeReleases
  CliReleases <- SmallCliReleases
  Seed <- SmallSeed
  Payloads <- SmallPayloads
  Handlers = {"hook"}
  MaxExtras = 1
  Sessions = {a1, u1}
  Autonomous = {a1}
  Bootstrapped = {a1}
  Plan <- OneTest
  MaxMessages = 1
  MaxAborts = 1
  MaxFailures = 1
  Tests = {t1, t2}
  NoTest = NoTest
  MaxToolCalls = 4
  MaxCallsPerTurn = 1
  MaxAsks = 1
  Retries = 1
  TRAIL_CAP = 1
  e1 = e1  e2 = e2  g1 = g1  m1 = m1
  Suite = {e1, e2, g1, m1}
  Assertions <- SmallAssertions
  QueueOf <- SmallQueues
  Selections = {{}}
  NoCase = NoCase
  MaxEpochs = 2
  MaxMishaps = 1
PROPERTIES
  
  BuildsEnd
  LinesArrive
  LastResultCloses
  LatestGetsRun
  SessionsEnd
CHECK_DEADLOCK FALSE
