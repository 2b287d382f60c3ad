SPECIFICATION Spec
CONSTANTS
  Requests <- RequestsFull
  RecvSize = 4
  CmaEnd = 13
  PutSizes = {1, 4}
  Cuts = {}
  MaxReply = 9
  SizeModulus = 100
INVARIANTS
  StaysInCma
