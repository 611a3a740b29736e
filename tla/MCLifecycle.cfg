\* Two processes, up to two requests in the queue, any number of loads.
CONSTANTS
  Clients = {c1, c2}
  MaxQueued = 2
SPECIFICATION LifecycleSpec
INVARIANTS
  LifecycleTypeOK
  NothingElseStays
  HandlerHasRegisters
  OopsHasCause
  StartsFromCode
PROPERTY RemoveEnds
CHECK_DEADLOCK FALSE
