SPECIFICATION Spec
CONSTANTS
  Addrs = {a, b}
  Clients = {x, y}
  MaxFd = 3
  MaxBinds = 2
  MaxFails = 1
  MaxFlags = 1
  InitialSize = 2
  StopTask = StopTask
  Nothing = Nothing
INVARIANTS EveryFileOwned NonBlockingUnderneath BindAllOrNothing
PROPERTIES StopEndsLoops ClientsHandled
CHECK_DEADLOCK FALSE
