SPECIFICATION FairSpec
CONSTANTS
  NoFile = NoFile
  Calls <- CallsUnannounced
  Sjlj = TRUE
  CmaRoom = 1
  CanaryMax = 1
  ChannelHost = TRUE
  Notifies = FALSE
  MaxConnected = 1
INVARIANTS
  StreamOpen
  NeverBroken
  LeftoverIsStartup
PROPERTIES
  BacklogSent
CHECK_DEADLOCK FALSE
