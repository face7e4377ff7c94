SPECIFICATION WireSpec
CONSTANTS
  RelSeqMax = 6
  WordMod = 32
  MaxSeqno = 13
  MaxDamaged = 0
  LossRate = 1
  Address = 655361
INVARIANTS
  RoundTrip
  Nearest
  HandedIntact
  OnePeer
  Mutual
PROPERTIES
  Tracks
