SPECIFICATION FairSpec
CONSTANTS
  N = 3
  Threads = 2
INVARIANTS
  RootCauseFirst
  PoolInv
PROPERTIES
  PoolReturns
  KeepsContract
