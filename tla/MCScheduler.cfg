SPECIFICATION Spec
CONSTANTS
  w1 = w1
  owner = owner
  f1 = f1
  f2 = f2
  f3 = f3
  Workers = {owner, w1}
  Caller = owner
  Fibers = {f1, f2, f3}
  MaxYields = 1
  NoTask = NoTask
INVARIANTS
  NoDoubleRun
  IInv
  Drained
PROPERTIES
  ImplementsPool
  OnlyReadyCallbackLost
  QueuedRuns
  StopReturns
