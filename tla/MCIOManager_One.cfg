SPECIFICATION IOSpec
CONSTANTS
  owner = owner
  w1 = w1
  f1 = f1
  f2 = f2
  Workers = {w1}
  Caller = owner
  Fibers = {f1, f2}
  OwnerTimers = {}
  HangUps = {}
  MaxYields = 2
  PipeCapacity = 20
  NoTask = NoTask
  NoFiber = NoFiber
INVARIANTS
  NothingAbandoned
PROPERTIES
  SleepersResume
  IOStopReturns
