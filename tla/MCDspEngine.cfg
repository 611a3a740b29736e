\* Two contexts that never overlap in dsp->run, two processes that reset.
CONSTANTS
  r1 = r1
  r2 = r2
  r3 = r3
  None = None
  Threads = {t1, t2}
  Requests = {r1, r2, r3}
  ReqIds = {1, 2}
  ReqId <- MCReqId
  Serialized = TRUE
  Resetters = {p1, p2}
  Forgetful = TRUE
SPECIFICATION RecoverySpec
INVARIANTS
  RecoveryTypeOK
  OneInFlight
  StrandedByLossOnly
  MessageIntact
  ReportedIsCompleted
PROPERTY ReleasedUnlessLost
