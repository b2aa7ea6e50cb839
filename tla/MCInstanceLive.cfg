\* The leader is correct; the faulty replica is silent.
SPECIFICATION FairSpec
CONSTANTS
  r1 = r1
  r2 = r2
  r3 = r3
  r4 = r4
  b1 = b1
  b2 = b2
  b3 = b3
  NoBatch = NoBatch
  Replica <- MCReplica
  Quorum = 3
  ViewSeq = 0
  InstanceSeq = 0
  Faulty = {r4}
  Leaders = {r1}
  Batch = {b1, b2}
  OutOfSlice = {}
  MaxOffContext = 1
  MaxFaulty = 0
INVARIANT Validity
PROPERTY
  Termination
CHECK_DEADLOCK FALSE
