SPECIFICATION Spec
CONSTANTS
  Callers = {c1}
  Fds = {0, 1, 2, 3}
  MaxSockets = 2
  MaxBatch = 2
  MaxStarts = 2
  MaxCalls = 3
INVARIANTS
  DescriptorsReturned
PROPERTIES
  NoEventAfterRemove
  StopReturns
  AddedIsWatched
CHECK_DEADLOCK FALSE
