SPECIFICATION MCSpec
CONSTANTS
  v1 = v1
  v2 = v2
  Node = {1, 2, 3, 4}
  F = 1
  Collect <- MCCollect
  Replica = {1, 4}
  LeaderSet <- MCLeaders
  MaxDigest = 5
  Batch <- MCBatch
  Votes <- MCVotes
INVARIANTS
  BoundIsLatest
  NoRequestTwice
  SameBatchesSameOrder
  RebuiltAsDecided
CHECK_DEADLOCK FALSE
