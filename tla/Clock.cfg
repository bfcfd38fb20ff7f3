CONSTANTS
  INT_MAX = 32767
  Lines <- MCLines
  Moments <- MCMoments
  Junk <- MCJunk
  InUse <- MCInUse
  Blocks = 2
  PcbCost = 1
SPECIFICATION Spec
INVARIANTS InterruptsBack RegistersValid DateShown TimeShown
PROPERTY WritesMasked
CHECK_DEADLOCK FALSE
