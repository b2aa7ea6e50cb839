\* Two installations, of any sequence number and view.
SPECIFICATION Spec
CONSTANTS
  self = self
  peer = peer
  b1 = b1
  NoBatch = NoBatch
  Batch = {b1}
  OutOfSlice = {}
  Quorum = 2
  Self = self
  Members <- PeerLeads
  Watermark = 2
  MaxSeq = 2
  PeerSends <- MovesSends
  MaxView = 1
  ProofSeq = {1, 2}
  InstallSeq = {0, 1, 2, 4}
  MaxInstalls = 2
  MaxOffContext = 1
INVARIANTS
  WindowAligned
  NothingMisfiled
  NoLostWakeup
CHECK_DEADLOCK FALSE
