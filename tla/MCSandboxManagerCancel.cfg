\* A run cancelled after provisioning: its containers outlive the teardown.
SPECIFICATION ManagerSpec
CONSTANTS
  Requests = {r1}
  NoRequest = NoRequest
  MAX_SANDBOXES = 1
  MaxCrashes = 0
  MaxLeaks = 0
  MaxExpiries = 0
  MaxFailures = 0
INVARIANT CancelledTornDown
CHECK_DEADLOCK FALSE
