SPECIFICATION Spec
CONSTANTS
  NoFile = NoFile
  Calls <- CallsErrorInside
  Sjlj = TRUE
  CmaRoom = 6
  CanaryMax = 8
  ChannelHost = TRUE
  Notifies = FALSE
  MaxConnected = 1
INVARIANTS
  ErrorsAreAnswered
