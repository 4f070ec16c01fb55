SPECIFICATION Spec
CONSTANTS
  Shapes <- MCShapes
  MaxHeaders = 2
  TempSize = 7
  WholeHeads = FALSE
  MaxRequests = 1
  MaxFails = 1
INVARIANTS
  RepliesInOrder
CHECK_DEADLOCK FALSE
