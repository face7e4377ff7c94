SPECIFICATION Spec
CONSTANTS
  WordMod = 64
  Capacity = 3
  StreamLens = {8}
  MaxLen = 3
  LastGap = 8
  MaxBeyond = 0
INVARIANTS
  OutputIntact
CHECK_DEADLOCK FALSE
