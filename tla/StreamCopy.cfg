SPECIFICATION Spec
CONSTANTS
  BufferSize = 2
  MaxTyped = 3
  MaxSent = 2
  ReadRoom = 2
  WriteRoom = 1
  MaxBroken = 1
  ReadBufferSize = 1
INVARIANTS
  TypeOK
  BytesKept
  ExitIsComplete
  DiesOfOthers
PROPERTIES
  EndIsLast
  CopyEnds
CHECK_DEADLOCK FALSE
