SPECIFICATION Spec
CONSTANTS
  RelSeqMax = 16
  WordMod = 128
  MaxWindow = 10
  MaxPayload = 2
  InitialRTO = 1
  RecvCapacity = 3
  SendCapacity = 1
  LingerTimeouts = 4
  PushSteps = 12
  ClientLen = 1
  ServerLen = 1
  ClientIsn = 14
  ServerIsn = 5
  Losses = 1
  DataLosses = TRUE
INVARIANTS
  StreamsIntact
CHECK_DEADLOCK FALSE
