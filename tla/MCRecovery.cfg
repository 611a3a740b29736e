\* The promise of RECOVERY, with one caller of run and one process that resets.
CONSTANTS
  r1 = r1
  r2 = r2
  r3 = r3
  None = None
  Threads = {t1}
  Requests = {r1, r2}
  ReqIds = {1, 2}
  ReqId <- MCReqId
  Serialized = TRUE
  Resetters = {p1}
  Forgetful = FALSE
SPECIFICATION RecoverySpec
PROPERTY RecoveryRestoresService
