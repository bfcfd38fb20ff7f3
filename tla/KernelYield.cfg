CONSTANTS
  NULL = NULL
  COMMHAND = COMMHAND
  IDLE_PROCESS = IDLE_PROCESS
  process1 = process1
  process2 = process2
  process3 = process3
  process4 = process4
  bell = bell
  b1 = b1
  Pcbs = {1, 2, 3, 4, 5, 6, 7}
  Names <- MCNames
  R3 <- MCLoad
  Calls <- MCYield
  Commands = {"alarm", "loadR3", "deletePCB"}
  AlarmNames = {bell}
  Priorities = {}
  Bufs <- MCBufs
  Lens <- MCLens
  MaxIocbs = 0
  Keys = FALSE
SPECIFICATION FairSpec
INVARIANTS NoLostProcess UniqueNames
PROPERTIES ImplementsScheduler NoStarvation
CHECK_DEADLOCK FALSE
