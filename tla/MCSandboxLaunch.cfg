\* Two launches that save the same chain state, and one that loads it.
SPECIFICATION LaunchSpec
CONSTANTS
  v1 = v1
  Launches = {l1, l2, l3}
  Wanted <- SmallWanted
  NoVersion = NoVersion
  V2Launches = {l1, l2, l3}
  Stacked = {l1, l2, l3}
  Offsets = 3
  NoOffset = NoOffset
  Nobody = Nobody
  MaxBreaks = 0
INVARIANT CachedStateWhole
CHECK_DEADLOCK FALSE
