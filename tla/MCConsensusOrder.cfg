SPECIFICATION ReplicaFairSpec
CONSTANTS
  b1 = b1
  NoBatch = NoBatch
  Batch = {b1}
  OutOfSlice = {}
  Quorum = 3
  Self = 1
  Members <- MCMembers
  Watermark = 2
  MaxSeq = 2
  PeerSends = {}
  MaxView = 6
  ProofSeq = {}
  InstallSeq = {3}
  MaxInstalls = 1
  MaxOffContext = 0
  Start <- MCStart
  TimeoutIn = {0, 5}
  InstallViews = {6}
INVARIANTS
  ProposesOnce
  OffersWindow
  ProposesWhileOrdering
  ViewsTogether
PROPERTIES
  ExecutesInOrder
  ExecutesAll
CHECK_DEADLOCK FALSE
