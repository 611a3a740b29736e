\* Every operation of two consumers, while one thread runs requests.
CONSTANTS
  r1 = r1
  None = None
  Threads = {t1}
  Requests = {r1}
  ReqIds = {0}
  ReqId <- MCReqId
  Serialized = TRUE
  Consumers = {c1, c2}
SPECIFICATION EventSpec
INVARIANTS
  EventTypeOK
  NoLostEventWakeup
PROPERTY EventTaken
