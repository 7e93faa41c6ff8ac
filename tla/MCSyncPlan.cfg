SPECIFICATION FairSpec
CONSTANTS
  orders = orders
  users = users
  N = 3
  NameOf <- MCNameOf
  ForeignKeys <- MCForeignKeys
  Serial <- MCSerial
  Requests <- MCRequests
  MaxMigrations = 1
CHECK_DEADLOCK FALSE
INVARIANTS
  OrderIsCanonical
  PlanIsClosure
PROPERTIES
  PlanEnds
