SPECIFICATION FairSpec
CONSTANTS
  WordSize = 3
  Devices <- MCDevices
  Faults <- MCFaults
  BiosMask1 = 184
  BiosMask2 = 142
  Rounds = 2
  BootTicks = 0
  MaxDepth = 2
INVARIANTS
  Configured
  NoNesting
  Routed
  FrameRight
  NothingLeftInService
  TickExact
  ContextKept
  TicksAccumulate
PROPERTIES
  ExceptionIsFinal
  TicksGoOn
CHECK_DEADLOCK FALSE
