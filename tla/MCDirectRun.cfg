\* The kernel thread and a process in WRITE_INPUT, which nothing keeps apart.
CONSTANTS
  r1 = r1
  r2 = r2
  r3 = r3
  None = None
  Worker = worker
  Callers = {c1}
  Writers = {w1}
  Threads = {worker, c1}
  Requests = {r1}
  ReqIds = {1}
  ReqId <- MCReqId
  Serialized = FALSE
SPECIFICATION PathSpec
INVARIANT BusyHasWork
PROPERTY BusyIsReleased
CHECK_DEADLOCK FALSE
