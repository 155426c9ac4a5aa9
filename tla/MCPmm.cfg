SPECIFICATION Spec
CONSTANTS
  MaxFrames = 6
  PageSize = 2
  KernelEnd = 3
  MemoryMaps <- MCMaps
INVARIANTS
  CountExact
  KernelReserved
PROPERTIES
  AllocFirstFit
  Implements
