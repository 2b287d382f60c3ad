SPECIFICATION FairSpec
CONSTANTS
  NoFile = NoFile
  Calls <- CallsSingle
  Sjlj = FALSE
  CmaRoom = 1
  CanaryMax = 1
  ChannelHost = TRUE
  Notifies = FALSE
  MaxConnected = 1
INVARIANTS
  ReplyReachesHost
  EachSyncAnswered
  RequestTaken
PROPERTIES
  CallReturns
