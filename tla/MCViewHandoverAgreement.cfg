\* The faulty replica has seen nothing, and says so.
SPECIFICATION HandoverSpec
CONSTANTS
  r1 = r1
  r2 = r2
  r3 = r3
  r4 = r4
  b1 = b1
  b2 = b2
  NoBatch = NoBatch
  Replica = {r1, r2, r3, r4}
  Quorum = 3
  ViewSeq = 0
  InstanceSeq = 0
  Faulty = {r4}
  Leaders = {r1}
  Batch = {b1, b2}
  OutOfSlice = {}
  MaxOffContext = 0
  MaxFaulty = 0
  Idle = {r4}
INVARIANT
  AgreementAcrossViews
CHECK_DEADLOCK FALSE
