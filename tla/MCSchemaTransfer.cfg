SPECIFICATION FairTransfer
CONSTANTS
  Tables = {"a", "b"}
  ForeignKeys <- MCForeignKeys
  From <- MCFrom
  To <- MCTo
  Threads = 3
  Conns = {c1, c2}
  Answer = 1
INVARIANTS
  NoDeadlock
PROPERTIES
  NoWorseThanDirect
  TransferEnds
