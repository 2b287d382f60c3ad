SPECIFICATION Spec
CONSTANTS
  NSIG = 3
  Width = 2
  ShiftWidth = 2
  MaxDepth = 2
CHECK_DEADLOCK FALSE
INVARIANTS
  TypeOK
  HeldExactly
  HandlersKept
  AbortsOnlyBypassed
PROPERTIES
  KeepsMask
