SPECIFICATION Spec
CONSTANTS
  StreamIds = {s1, s2}
  MaxFrameSize = 1
  InitialWindow = 2
  MaxWindow = 3
  Increments = {0, 2}
  SplitHeads = TRUE
  MaxAhead = 2
  MaxBody = 2
  MaxExtra = 2
  MaxFails = 1
SYMMETRY Streams
INVARIANTS
  AnsweredWhenEnded
CHECK_DEADLOCK FALSE
