SPECIFICATION FairSpec
CONSTANTS
  Correct = {1, 2, 3}
  Members <- FourMembers
  MaxView = 2
  TimesOut = {1, 2}
  JoinRequests = {}
  PeerSends = {{}}
  InitialLog <- LaggingLog
  Outcomes <- SoundBatch
  InstallViews <- TransferInstalls
PROPERTIES
  ResumesAfterTransfer
  ReplacesLeader
CHECK_DEADLOCK FALSE
