SPECIFICATION Spec
CONSTANTS
  Junk = "junk"
  Scripts <- AllScripts
  BufferSize = 90
  KeepAlive = TRUE
  Whole = TRUE
  Waits = TRUE
  Takes = {7, 100}
  MaxFails = 1
INVARIANTS ServedAsSent ServedWhole AnswerUnderstood
PROPERTY AnswerComes
CHECK_DEADLOCK FALSE
