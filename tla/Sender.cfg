SPECIFICATION Spec
CONSTANTS
  RelSeqMax = 16
  WordMod = 128
  MaxPayload = 2
  InitialRTO = 1
  Capacity = 3
  StreamLen = 4
  Isn = 14
  MaxWindow = 3
  Resets = {TRUE, FALSE}
  TickBound = 1
  EmptyBound = 1
  ClosesFirst = FALSE
  AcksLost = FALSE
  AcksStale = FALSE
INVARIANTS
  TypeOK
  QueueIsUnacked
  InWindow
  FinLast
PROPERTIES
  CallsReturn
CHECK_DEADLOCK FALSE
