SPECIFICATION FairSpec
CONSTANTS
  Tables = {t1, t2}
  Seqs = {s1}
  MaxFaults = 3
  RemoteIsLocal = FALSE
INVARIANTS
  PhasesInOrder
  ReleasesEverything
PROPERTIES
  PreflightSparesTarget
  RetryRebuilds
  KeepsContract
