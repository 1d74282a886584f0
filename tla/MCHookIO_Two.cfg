SPECIFICATION Spec
CONSTANTS
  r1 = r1
  w1 = w1
  c1 = c1
  Readers = {r1}
  Writers = {w1, c1}
  Connectors = {c1}
  Timed = {r1, w1, c1}
  Workers = 2
  MaxFiles = 2
  MaxPeer = 1
  MayClose = TRUE
  NoCall = NoCall
INVARIANTS
  WaitsOnce
  ConnectTells
