SPECIFICATION Spec
CONSTANTS
  RelSeqMax = 16
  WordMod = 128
  MaxWindow = 3
  Capacity = 4
  StreamLens = {4, 11}
  MaxLen = 4
  LastGap = 4
  Isns = {0, 9, 15}
  SynRepeats = FALSE
  FinOvertakes = FALSE
INVARIANTS
  TypeOK
  AcknoExact
  Advances
PROPERTIES
  EdgeFollowsReader
  ImplementsIdeal
CHECK_DEADLOCK FALSE
