SPECIFICATION Spec
CONSTANTS
  MaxFrames = 11
  PageSize = 4
  KernelEnd = 15
  MemoryMaps <- MCMaps
  Mapped = 10
  FrameOfStack = 3
INVARIANTS
  PagesApart
  PidsAccounted
PROPERTY Implements
CHECK_DEADLOCK FALSE
