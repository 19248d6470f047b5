\* Safety of a run: two tests, a cancellation, one crash or failed call
\* anywhere, and one test of an AI session while the sweep begins.
SPECIFICATION RunSpec
CONSTANTS
  Definitions = {d1, d2}
  Selected = {d1, d2}
  PASS_THRESHOLD_COMPLETED = 100
  PASS_THRESHOLD_WARNING = 50
  MaxAiTests = 1
  MaxFaults = 1
SYMMETRY DefinitionSymmetry
CONSTRAINT AiBound
INVARIANTS
  RunTypeOK
  NotifiedOnce
  JudgedWhenDone
  CompletedMeansPassed
  SandboxOutlivesTests
PROPERTY ImplementsRunContract
CHECK_DEADLOCK FALSE
