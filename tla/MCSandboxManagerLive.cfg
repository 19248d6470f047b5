\* Every sandbox ends and is reclaimed, across one crash or drain.
SPECIFICATION FairManagerSpec
CONSTANTS
  Requests = {r1}
  NoRequest = NoRequest
  MAX_SANDBOXES = 1
  MaxCrashes = 1
  MaxLeaks = 0
  MaxExpiries = 0
  MaxFailures = 0
PROPERTIES
  SandboxesEnd
  
CHECK_DEADLOCK FALSE
