SPECIFICATION Spec
CONSTANTS
  Requests <- RequestsCut
  RecvSize = 4
  CmaEnd = 13
  PutSizes = {1, 4}
  Cuts = {}
  MaxReply = 9
  SizeModulus = 100
INVARIANTS
  AllServed
