SPECIFICATION FairSpec
CONSTANTS
  Workers = {w1, w2}
  Posters = {p1, p2}
  MaxTasks = 3
  MaxStarts = 2
  MaxSpurious = 1
INVARIANTS
  TypeOK
  EachTaskOnce
  ProcessAllTasksOnStop
PROPERTIES
  QueuedTaskRuns
CHECK_DEADLOCK FALSE
