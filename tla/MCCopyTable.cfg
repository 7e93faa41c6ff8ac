SPECIFICATION FairSpec
CONSTANTS
  Chunks = 2
  MaxVersion = 1
INVARIANTS
  Inv
  CommittedIsSnapshot
  ReportsRootCause
PROPERTIES
  CopyReturns
  KeepsContract
