SPECIFICATION ProgressSpec
CONSTANTS
  Queue = 2
  Tables <- MCTables
  DBOf <- MCDBOf
  Rows <- MCRows
  Estimate <- MCEstimate
  Threads = 2
INVARIANTS
  ProgressInv
PROPERTIES
  ForwardWhenAlone
  FinalIsWhole
