CONSTANTS
  p1 = p1
  b1 = b1
  b2 = b2
  Procs <- MCProcs
  Bufs <- MCBufs
  Lens <- MCLens
  MaxIocbs = 4
  Keys = TRUE
SPECIFICATION FairSpec
INVARIANTS TxIffWriting BusyHasRequest CounterInRange OwnBytes
PROPERTY WriteEnds
CHECK_DEADLOCK FALSE
