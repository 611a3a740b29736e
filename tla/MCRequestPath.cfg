\* write, the kernel thread and the engine; no WRITE_INPUT.
CONSTANTS
  r1 = r1
  r2 = r2
  r3 = r3
  None = None
  Worker = worker
  Callers = {}
  Writers = {w1, w2}
  Threads = {worker}
  Requests = {r1, r2}
  ReqIds = {1, 2}
  ReqId <- MCReqId
  Serialized = TRUE
SPECIFICATION PathSpec
INVARIANTS
  PathTypeOK
  NoLostWakeup
  EntryStaysFirst
  StatusTracksWork
PROPERTIES
  StopCompletes
  EachStepOnce
  ImplementsService
CHECK_DEADLOCK FALSE
