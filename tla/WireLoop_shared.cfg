SPECIFICATION FairSpec
CONSTANTS
  NoFile = NoFile
  Calls <- CallsShared
  Sjlj = TRUE
  CmaRoom = 1
  CanaryMax = 1
  ChannelHost = FALSE
  Notifies = FALSE
  MaxConnected = 1
INVARIANTS
  ReplyReachesHost
  NoSpuriousReady
  NeverBroken
  TerminalOnStdout
  RequestTaken
PROPERTIES
  ReadsForward
CHECK_DEADLOCK FALSE
