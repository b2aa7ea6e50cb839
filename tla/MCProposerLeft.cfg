\* One view change, to or from a view this replica leads, execution is never suspended.
SPECIFICATION FairSpec
CONSTANTS
  a = a
  b = b
  Client = {a, b}
  Arrivals <- TwoBatches
  Target = 2
  MaxBatch = 2
  SyncBatches <- SomeRequests
  MaxSeq = 2
  MaxView = 1
  MaxLocks = 0
PROPERTY
  WillBeProposed
CHECK_DEADLOCK FALSE
