SPECIFICATION Spec
CONSTANTS
  MaxFrames = 12
  PageSize = 4
  KernelEnd = 11
  MemoryMaps <- MCMaps
  Entries = 9
  KernelSlot = 3
  BootPde = 1
  BootPt = 2
  TlbSize = 1
  Garbage <- MCGarbage
  FrameOfStack = 3
  test_vaddr <- MCTest
INVARIANTS
  BootOutcome
  AllOwned
  TestWriteLands
  IdentityKept
  SegmentsUsable
