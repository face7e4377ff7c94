SPECIFICATION Spec
CONSTANTS
  RelSeqMax = 16
  WordMod = 128
  MaxWindow = 10
  MaxPayload = 2
  InitialRTO = 1
  RecvCapacity = 1
  SendCapacity = 1
  LingerTimeouts = 4
  PushSteps = 12
  ClientLen = 1
  ServerLen = 0
  ClientIsn = 14
  ServerIsn = 5
  Losses = 0
  DataLosses = FALSE
INVARIANTS
  NobodyLeftBehind
CHECK_DEADLOCK FALSE
