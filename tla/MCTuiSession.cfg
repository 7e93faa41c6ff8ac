SPECIFICATION FairSpec
CONSTANTS
  DBs = {d1, d2}
  Cap = 1
  MaxSyncs = 2
  MaxQueued = 2
INVARIANTS
  WatchedWhileActive
  OwnRows
  EventsKept
  SuccessIsWhole
PROPERTIES
  SyncReported
