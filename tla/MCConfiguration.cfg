SPECIFICATION ConfigSpec
CONSTANTS
  h1 = h1
  h2 = h2
  n1 = n1
  n2 = n2
  few = few
  many = many
  Procs = {p1, p2}
  Hosts = {h1, h2}
  DBNames = {n1, n2}
  Counts = {few, many}
  Cores = few
  Handwritten <- MCHandwritten
  Fragments <- MCFragments
  Environments <- MCEnvironments
  FlagSets <- MCFlagSets
  Edits <- MCEdits
  Arguments <- MCArguments
  MaxEditors = 2
  MaxSyncs = 1
  MaxForms = 3
  MaxFaults = 1
SYMMETRY MCSymmetry
INVARIANTS
  ConfigInv
  HighestSourceWins
PROPERTIES
  LoneSaveSticks
