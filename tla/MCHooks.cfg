SPECIFICATION MCSpec
CONSTANTS
  Workers = {w1, w2}
  Custom = {0, 5}
  CustomPriority <- MCPriority
  Registrable = {0, 2, 5}
  Statuses = {500}
  MaxObjects = 5
  FirstAlone = TRUE
  Threads = {t1, t2}
  Ports = {80, 443}
  MaxStrategies = 4
SYMMETRY MCWorkers
INVARIANTS
  DisconnectPreempts
  PassesInOrder
  HandlersOwned
  AliveWhileReferenced
CHECK_DEADLOCK FALSE
