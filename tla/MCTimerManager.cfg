SPECIFICATION Spec
CONSTANTS
  Timers = {1, 2}
  Lengths = {1, 4}
  MaxTimeout = 2
  IntHalf = 8
  MaxNow = 5
INVARIANTS
  CallbackIsQueued
  OneShotOnce
  StartIsPast
  ServedInTime
PROPERTIES
  CollectsDue
  RefreshPostpones
