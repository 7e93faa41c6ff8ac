SPECIFICATION FairCache
CONSTANTS
  Procs = {p1, p2}
  Files = {dump, restore}
  MaxCalls = 2
  MaxFaults = 2
CHECK_DEADLOCK FALSE
INVARIANTS
  CacheInv
PROPERTIES
  OnlyCompleteActivated
  LoneCallHeals
