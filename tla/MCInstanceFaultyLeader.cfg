\* The leader is faulty and proposes different batches to different replicas.
SPECIFICATION Spec
CONSTANTS
  r1 = r1
  r2 = r2
  r3 = r3
  r4 = r4
  b1 = b1
  b2 = b2
  b3 = b3
  NoBatch = NoBatch
  Replica <- MCReplica
  Quorum = 3
  ViewSeq = 0
  InstanceSeq = 0
  Faulty = {r4}
  Leaders = {r4}
  Batch = {b1, b2, b3}
  OutOfSlice = {b3}
  MaxOffContext = 0
  MaxFaulty = 4
SYMMETRY MCSymmetry
INVARIANTS
  TypeOK
  Agreement
  PreparedAgreement
  DecidedHasProof
  NoLostWakeup
PROPERTY
  ImplementsAtomicDecision
CHECK_DEADLOCK FALSE
