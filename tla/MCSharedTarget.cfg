SPECIFICATION Spec
CONSTANTS
  r1 = r1
  r2 = r2
  Runs = {r1, r2}
  Tables = {"a", "b"}
  Keyed = {"a"}
  Serial = {"a"}
  Beginnings <- MCBeginnings
  InitialRows <- MCInitialRows
  Values = {3}
  Threads = 2
  MaxMigrations = 1
  MaxWrites = 1
SYMMETRY MCSymmetry
PROPERTIES
  LoneSuccessIsFaithful
  NextIsFree
  RepairsOwnRows
