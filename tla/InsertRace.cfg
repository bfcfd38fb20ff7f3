CONSTANTS
  NULL = NULL
  Pcbs = {1, 2, 3, 4, 5}
  Names = {}
  Old <- MCOld
  x = 3
  Returning = {4, 5}
  Priorities = {1, 2, 3}
SPECIFICATION Spec
INVARIANTS ListEnds OldStay Done AtomicAlone
CHECK_DEADLOCK FALSE
