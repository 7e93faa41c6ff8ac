SPECIFICATION Spec
CONSTANTS
  Tables = {t1}
  Seqs = {s1}
  MaxFaults = 1
  RemoteIsLocal = TRUE
INVARIANTS
  SourceIntact
