SPECIFICATION FairSpec
CONSTANTS
  WordMod = 64
  Capacity = 5
  StreamLens = {4, 5, 13}
  MaxLen = 6
  LastGap = 5
  MaxBeyond = 3
INVARIANTS
  TypeOK
  NoFault
  PendingExact
PROPERTIES
  ImplementsIdeal
  Completes
CHECK_DEADLOCK FALSE
