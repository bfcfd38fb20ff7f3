CONSTANTS
  PAGE_SIZE = 4
  TABLE_PAGES = 5
  DIR_SIZE = 8
  SLACK = 6
  NFRAMES = 30
  KHEAP_PAGE = 33
  KHEAP_PAGES = 3
  KernelEnds <- MCKernelEnds
  Requests <- MCRequests
SPECIFICATION FairSpec
INVARIANTS FramesExclusive IdentityMapped TablesReachable RegionsUsable
PROPERTY BootEnds
CHECK_DEADLOCK FALSE
