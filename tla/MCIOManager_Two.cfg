SPECIFICATION IOSpec
CONSTANTS
  owner = owner
  w1 = w1
  f1 = f1
  f2 = f2
  f3 = f3
  Workers = {owner, w1}
  Caller = owner
  Fibers = {f1, f2, f3}
  OwnerTimers = {f1, f2, f3}
  HangUps = {f1, f2, f3}
  MaxYields = 1
  PipeCapacity = 20
  NoTask = NoTask
  NoFiber = NoFiber
SYMMETRY FiberSymmetry
INVARIANTS
  InOnePlace
  OneWaker
  PendingExact
  OnlyWaitersLeft
