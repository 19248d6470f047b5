\* A run whose tests end before the count is stored is running for ever.
SPECIFICATION FairRunSpec
CONSTANTS
  Definitions = {d1}
  Selected = {d1}
  PASS_THRESHOLD_COMPLETED = 100
  PASS_THRESHOLD_WARNING = 50
  MaxAiTests = 0
  MaxFaults = 0
PROPERTY RunsFinish
CHECK_DEADLOCK FALSE
