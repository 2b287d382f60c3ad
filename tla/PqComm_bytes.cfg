CHECK_DEADLOCK FALSE
SPECIFICATION Spec
CONSTANTS
  Requests <- RequestsMixed
  RecvSize = 4
  CmaEnd = 13
  PutSizes = {1, 4}
  Cuts = {1, 3}
  MaxReply = 9
  SizeModulus = 100
INVARIANTS
  TypeOK
  MessagesIntact
  ProtocolKept
  ReplyExact
  ServedUnlessCut
