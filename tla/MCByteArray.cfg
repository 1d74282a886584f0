SPECIFICATION Spec
CONSTANTS
  BaseSize = 3
  Junk = Junk
  MaxCapacity = 6
  MaxCall = 4
  Group = 2
  Width = 8
  Rounds = 3
INVARIANTS
  CursorFollows
  ReadsBack
  FailsOnlyWhenShort
  ToStringRepeatsNode
  FileHolds
  VarintRoundTrip
CHECK_DEADLOCK FALSE
