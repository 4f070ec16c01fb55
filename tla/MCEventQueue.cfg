SPECIFICATION FairSpec
CONSTANTS
  Consumers = {c1, c2, c3}
  PriorityCount = 2
  MaxSize = 2
  MaxPushes = 4
  MaxBatch = 2
  MaxClosers = 2
INVARIANTS
  TypeOK
  NoLossFifo
  SizeExact
  NoStuckWaiter
  ShutdownMeansDrained
PROPERTIES
  CloseReleasesWaiters
