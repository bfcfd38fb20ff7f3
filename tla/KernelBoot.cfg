CONSTANTS
  NULL = NULL
  COMMHAND = COMMHAND
  IDLE_PROCESS = IDLE_PROCESS
  process1 = process1
  process2 = process2
  process3 = process3
  process4 = process4
  bell = bell
  b1 = b1
  Pcbs = {1, 2}
  Names <- MCNamesOne
  R3 <- MCLoadOne
  Calls <- MCBoot
  Commands = {}
  AlarmNames = {}
  Priorities = {}
  Bufs <- MCBufs
  Lens <- MCLens
  MaxIocbs = 8
  Keys = FALSE
SPECIFICATION Spec
INVARIANT NeverHangs
CHECK_DEADLOCK FALSE
