SPECIFICATION Spec
CONSTANTS
  Kmain = kmain
  BootProcs = {ch}
  LoadProcs = {p2}
  Gens = {0}
  Depths = {1}
  None = None
INVARIANTS
  RegistersKept
  ArgumentsArrive
CHECK_DEADLOCK FALSE
