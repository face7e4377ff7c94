SPECIFICATION FairSpec
CONSTANTS
  RelSeqMax = 16
  WordMod = 128
  MaxWindow = 10
  MaxPayload = 2
  InitialRTO = 1
  RecvCapacity = 4
  SendCapacity = 2
  LingerTimeouts = 4
  PushSteps = 12
  ClientLen = 2
  ServerLen = 1
  ClientIsn = 14
  ServerIsn = 5
  Losses = 1
  DataLosses = FALSE
INVARIANTS
  TypeOK
  StreamsIntact
  NobodyLeftBehind
PROPERTIES
  Finishes
CHECK_DEADLOCK FALSE
