SPECIFICATION FairSpec
CONSTANTS
  Correct = {0, 2, 3}
  Members <- FourMembers
  MaxView = 2
  TimesOut = {0, 2, 3}
  JoinRequests = {}
  PeerSends = {{}}
  InitialLog <- FreshLog
  Outcomes <- SoundBatch
  InstallViews = {}
PROPERTIES
  TimesOutAgain
CHECK_DEADLOCK FALSE
