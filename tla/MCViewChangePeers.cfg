SPECIFICATION Spec
CONSTANTS
  Correct = {1, 7}
  Members <- FourMembers
  MaxView = 2
  TimesOut = {1}
  JoinRequests <- OneJoins
  PeerSends <- PeersOfOne
  InitialLog <- FreshLog
  Outcomes <- SoundBatch
  InstallViews = {}
INVARIANTS
  TypeOK
  QueuesAligned
  PhasesAgree
  
  NoLostWakeup
  CountsStops
  
PROPERTIES
  JoinHasQuorum
  TakesOutcomeFromLeader
CHECK_DEADLOCK FALSE
