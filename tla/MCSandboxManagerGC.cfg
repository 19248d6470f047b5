\* The collector works with an old set of active sandboxes.
SPECIFICATION ManagerSpec
CONSTANTS
  Requests = {r1}
  NoRequest = NoRequest
  MAX_SANDBOXES = 1
  MaxCrashes = 0
  MaxLeaks = 0
  MaxExpiries = 0
  MaxFailures = 0
INVARIANT ReadySandboxIntact
CHECK_DEADLOCK FALSE
