\* One view change, to or from a view this replica leads, and one suspension of execution.
SPECIFICATION Spec
CONSTANTS
  a = a
  b = b
  Client = {a, b}
  Arrivals <- TwoBatches
  Target = 2
  MaxBatch = 2
  SyncBatches <- SomeRequests
  MaxSeq = 2
  MaxView = 1
  MaxLocks = 1
INVARIANTS
  LeadsWhatItProposes
  
  StopsProposing
  EachRequestOnce
CHECK_DEADLOCK FALSE
