SPECIFICATION Spec
CONSTANTS
  Word = 256
  WordDigits = 2
  Kilo = 4
  Infos <- MCInfos
  Others <- MCOthers
INVARIANTS
  FieldsExact
  RegionsExact
  PmmSeesThePrintedMap
PROPERTY WalkEnds
CHECK_DEADLOCK FALSE
