SPECIFICATION FairSpec
CONSTANTS
  Updates = {u1, u2}
  Attempts = 2
  Tries = 2
  MaxFaults = 2
CHECK_DEADLOCK FALSE
INVARIANTS
  Inv
  OnlyVerifiedInstalled
PROPERTIES
  SuccessArrives
