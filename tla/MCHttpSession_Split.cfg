SPECIFICATION Spec
CONSTANTS
  Junk = "junk"
  Scripts <- SplitScripts
  BufferSize = 90
  KeepAlive = TRUE
  Whole = FALSE
  Waits = TRUE
  Takes = {100}
  MaxFails = 0
INVARIANT NreadWithinLength
CHECK_DEADLOCK FALSE
