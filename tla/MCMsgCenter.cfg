SPECIFICATION FairSpec
CONSTANTS
  Workers = {w1}
  IoThreads = {t1}
  Callers = {c1, c2}
  Posters = {p1}
  PriorityCount = 3
  MaxSize = 2
  MaxEvents = 2
  MaxTasks = 1
  MaxLives = 2
INVARIANTS
  ObjectsOutliveThreads
  RunningMeansReady
PROPERTIES
  LoopTerminates
  EventsHandled
CHECK_DEADLOCK FALSE
