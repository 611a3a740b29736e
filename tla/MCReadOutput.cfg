\* What READ_OUTPUT returns when its wait ends with an event.
CONSTANTS
  r1 = r1
  None = None
  Threads = {t1}
  Requests = {r1}
  ReqIds = {0}
  ReqId <- MCReqId
  Serialized = TRUE
  Consumers = {c1}
SPECIFICATION EventSpec
INVARIANT ReadOutputDelivers
