SPECIFICATION Spec
CONSTANTS
  w1 = w1
  w2 = w2
  Readers = {}
  Writers = {w1, w2}
  Connectors = {}
  Timed = {}
  Workers = 1
  MaxFiles = 2
  MaxPeer = 1
  MayClose = TRUE
  NoCall = NoCall
INVARIANTS
  NoSecondWaiter
