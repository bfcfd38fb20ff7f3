CONSTANTS
  p1 = p1
  b1 = b1
  b2 = b2
  Procs <- MCProcs
  Bufs <- MCBufs
  Lens <- MCLensOne
  MaxIocbs = 4
  Keys = TRUE
SPECIFICATION FairSpec
PROPERTY ReadEnds
CHECK_DEADLOCK FALSE
