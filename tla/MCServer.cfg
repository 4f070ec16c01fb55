SPECIFICATION FairSpec
CONSTANTS
  Callers = {c1}
  Configs <- MCConfigs
  Fds = {3, 4, 5, 6, 7, 8}
  MaxConns = 1
  PendingTicks = 3
  CloseTicks = 2
  MaxInits = 3
INVARIANTS
  FdsAccounted
  RunningServes
  NoClosedFdWatched
PROPERTIES
  ShutdownFinishes
