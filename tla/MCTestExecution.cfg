\* Two tests of the sweep, one after the other; nothing fails.
SPECIFICATION ExecutionSpec
CONSTANTS
  g1 = g1
  g2 = g2
  Suite = {g1, g2}
  Assertions <- TwoGenerate
  QueueOf <- InTheSweep
  Selections = {{g1, g2}}
  NoCase = NoCase
  MaxEpochs = 1
  MaxMishaps = 0
INVARIANTS
  GeneratedIsNew
CHECK_DEADLOCK FALSE
