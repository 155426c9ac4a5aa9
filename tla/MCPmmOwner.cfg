SPECIFICATION OwnerSpec
CONSTANTS
  MaxFrames = 6
  PageSize = 2
  KernelEnd = 3
  MemoryMaps <- MCMaps
INVARIANTS
  Conservation
  OnlyRamCirculates
