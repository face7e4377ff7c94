SPECIFICATION Spec
CONSTANTS
  RelSeqMax = 16
  WordMod = 128
  MaxWindow = 10
  MaxPayload = 2
  InitialRTO = 1
  RecvCapacity = 2
  SendCapacity = 2
  LingerTimeouts = 1
  PushSteps = 12
  OwnerLen = 1
  RemoteLen = 2
  PairRoom = 1
  MayReset = TRUE
  LocalIsn = 14
  RemoteIsn = 5
INVARIANTS
  EndMeansAll
  DiesOfUnread
PROPERTIES
  JoinReturns
CHECK_DEADLOCK FALSE
