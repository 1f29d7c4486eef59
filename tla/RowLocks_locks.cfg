\* Three requests on the rows of one account, over a pool of two connections.
SPECIFICATION FairLocksSpec
CONSTANTS
  Calls = {c1, c2, c3}
  OldSessions = {s1}
  OldLinks = {l1}
  PoolSize = 2
  Outages = TRUE
  Null = Null
INVARIANTS
  LocksTypeOK
  DeadlocksAreExchanges
PROPERTIES
  LooksAtomic
  EveryRequestEnds
\* Every request is answered once.
CHECK_DEADLOCK FALSE
CONSTRAINT JobsInOrder
