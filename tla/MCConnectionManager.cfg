SPECIFICATION Spec
CONSTANTS
  MaxConns = 2
  Fds = {3, 4}
INVARIANTS
  NoUseAfterFree
  ClosesOnlyItsOwn
  NoLeakedFd
  SweptIsClosed
CHECK_DEADLOCK FALSE
