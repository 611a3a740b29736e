\* A client of the whole driver and another process that opens and identifies
\* the device at any time; the kernel thread may be stopped.
CONSTANTS
  r1 = r1
  r2 = r2
  None = None
  Client = client
  Consumers = {client, other}
  Others = {other}
  Writers = {client}
  Worker = worker
  Callers = {}
  Threads = {worker}
  Requests = {r1, r2}
  ReqIds = {1, 2}
  ReqId <- MCReqId
  Serialized = TRUE
SPECIFICATION DriverSpec
INVARIANTS
  NothingLeftOver
  MissedByOpenOnly
PROPERTIES
  OwnResponse
  Answered
  ImplementsRemoteCall
CHECK_DEADLOCK FALSE
