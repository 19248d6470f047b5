\* Two tasks can be created for one free slot: the second is refused.
SPECIFICATION PoolSpec
CONSTANTS
  Requests = {r1, r2}
  MAX_SANDBOXES = 1
  MaxCrashes = 0
  MaxLeaks = 0
  MaxExpiries = 0
  NoRequest = NoRequest
INVARIANT NeverRefused
CHECK_DEADLOCK FALSE
