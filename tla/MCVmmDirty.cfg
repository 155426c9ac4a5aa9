SPECIFICATION Spec
CONSTANTS
  MaxFrames = 6
  PageSize = 2
  KernelEnd = 5
  MemoryMaps <- MCMaps
  Entries = 5
  KernelSlot = 2
  BootPde = 1
  BootPt = 2
  TlbSize = 1
  Requests <- FirstRequests
  Garbage <- MCGarbage
INVARIANTS
  DataFresh
