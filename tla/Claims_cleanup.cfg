SPECIFICATION Spec
CONSTANTS
  NoFile = NoFile
  Calls <- CallsQueryFile
  Sjlj = FALSE
  CmaRoom = 6
  CanaryMax = 8
  ChannelHost = TRUE
  Notifies = FALSE
  MaxConnected = 1
INVARIANTS
  AlwaysCleanedUp
