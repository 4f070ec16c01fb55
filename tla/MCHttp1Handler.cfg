SPECIFICATION Spec
CONSTANTS
  Shapes <- MCShapes
  MaxHeaders = 2
  TempSize = 7
  WholeHeads = TRUE
  MaxRequests = 3
  MaxFails = 1
INVARIANTS
  RepliesInOrder
  RejectsOnlyBad
CHECK_DEADLOCK FALSE
