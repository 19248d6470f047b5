\* An AI test counts as one of the dispatched tests.
SPECIFICATION RunSpec
CONSTANTS
  Definitions = {d1, d2}
  Selected = {d1, d2}
  PASS_THRESHOLD_COMPLETED = 100
  PASS_THRESHOLD_WARNING = 50
  MaxAiTests = 1
  MaxFaults = 0
INVARIANT NoPrematureClose
CHECK_DEADLOCK FALSE
