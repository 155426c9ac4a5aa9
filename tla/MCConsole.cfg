SPECIFICATION Spec
CONSTANTS
  Width = 3
  Height = 3
  TabStop = 2
  Glyph <- MCGlyphs
  Colour <- MCColours
  Texts <- MCTexts
  Panics <- MCPanics
  Positions <- MCPositions
  Message <- MCMessage
  Calls = 4
INVARIANTS
  OnlyBackspaceSpills
  TextKept
  FaultShown
  SerialMirrors
PROPERTY CallsReturn
CHECK_DEADLOCK FALSE
