\* Safety of sandboxes and slots: two sandboxes, a crash or drain, failed calls.
SPECIFICATION ManagerSpec
CONSTANTS
  Requests = {r1, r2}
  NoRequest = NoRequest
  MAX_SANDBOXES = 1
  MaxCrashes = 1
  MaxLeaks = 1
  MaxExpiries = 0
  MaxFailures = 1
SYMMETRY RequestSymmetry
INVARIANTS
  ManagerTypeOK
  WorkIsVisible
  LiveRowsHaveTasks
  NoSilentEnd
  CleanEnd
PROPERTY ImplementsContract
CHECK_DEADLOCK FALSE
