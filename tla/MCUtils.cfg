SPECIFICATION MCSpec
CONSTANTS
  MIN_CAPACITY = 1
  MAX_CAPACITY = 9
  DEFAULT_INITIAL_CAPACITY = 2
  GROWTH_THRESHOLD_DOUBLE = 3
  GROWTH_THRESHOLD_15X = 6
  GROWTH_LINEAR_INCREMENT = 2
  MaxLen = 4
  MaxBytes = 14
  RespectLimit = TRUE
  Addrs = {a1, a2, a3, a4, a5}
  MaxItems = 7
  MaxBatch = 3
SYMMETRY Addresses
INVARIANTS
  WithinCapacity
  NoByteLost
  NoUseAfterFree
  NoLeak
PROPERTIES
  FifoSpec
CHECK_DEADLOCK FALSE
