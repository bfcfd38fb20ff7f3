CONSTANTS
  HeapSize = 27
  SizeMod = 64
  Requests <- MCRequests
  Pointers <- MCPointers
SPECIFICATION Spec
INVARIANTS Tiled Coalesced ClientsAgree TightFit GrantsRequest
PROPERTY ImplementsAllocator
CHECK_DEADLOCK FALSE
