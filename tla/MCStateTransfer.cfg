SPECIFICATION Spec
CONSTANTS
  d1 = d1
  d2 = d2
  d3 = d3
  Node = {1, 2, 3, 4}
  Faulty = {4}
  F = 1
  Digest = {d1, d2, d3}
  AppDigest <- States
  Bounds <- ThreeBounds
  MaxSeq = 2
INVARIANTS
  
  
  IdleOffContext
  WaitsForCheckpointOnly
CHECK_DEADLOCK FALSE
