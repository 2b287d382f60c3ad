SPECIFICATION FairSpec
CONSTANTS
  NoFile = NoFile
  Calls <- CallsWire
  Sjlj = TRUE
  CmaRoom = 1
  CanaryMax = 1
  ChannelHost = TRUE
  Notifies = TRUE
  MaxConnected = 1
INVARIANTS
  TypeOK
  ReplyReachesHost
  EachSyncAnswered
  RequestTaken
  NoBacklog
  RequestFileGone
  NoticeNotKept
  NeverBroken
PROPERTIES
  KeepsProtocol
  CallReturns
