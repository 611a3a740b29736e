\* A client that calls a missing handler does not return, so all may stop.
CONSTANTS
  Clients = {c1, c2}
  Space = 32
  Base = 4
  DramSize = 8
  PoolSize = 6
  Accesses <- MCAccesses
SPECIFICATION CommandSpec
INVARIANTS
  CommandTypeOK
  AcceptedInside
  AdvertisedAccepted
CHECK_DEADLOCK FALSE
