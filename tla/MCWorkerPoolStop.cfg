SPECIFICATION FairSpec
CONSTANTS
  Workers = {w1, w2}
  Posters = {p1}
  MaxTasks = 1
  MaxStarts = 1
  MaxSpurious = 0
PROPERTIES
  StopReturns
CHECK_DEADLOCK FALSE
