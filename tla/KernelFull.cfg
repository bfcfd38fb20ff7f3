CONSTANTS
  NULL = NULL
  COMMHAND = COMMHAND
  IDLE_PROCESS = IDLE_PROCESS
  process1 = process1
  process2 = process2
  process3 = process3
  process4 = process4
  bell = bell
  b1 = b1
  Pcbs = {1, 2, 3}
  Names <- MCNamesOne
  R3 <- MCLoadOne
  Calls <- MCAllCalls
  Commands = {"alarm", "loadR3", "deletePCB", "suspendPCB", "resumePCB", "setPCBpriority", "showPCB"}
  AlarmNames = {process1}
  Priorities = {5, 12}
  Bufs <- MCBufs
  Lens <- MCLens
  MaxIocbs = 3
  Keys = TRUE
SPECIFICATION Spec
INVARIANTS TypeOK NoDanglingPcb
CHECK_DEADLOCK FALSE
