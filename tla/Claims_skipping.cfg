SPECIFICATION FairSpec
CONSTANTS
  NoFile = NoFile
  Calls <- CallsParseThenRepl
  Sjlj = TRUE
  CmaRoom = 6
  CanaryMax = 8
  ChannelHost = TRUE
  Notifies = FALSE
  MaxConnected = 1
PROPERTIES
  SkipsOnlyAfterExtended
