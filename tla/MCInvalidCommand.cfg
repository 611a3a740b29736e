\* What becomes of commands without a handler.
CONSTANTS
  Clients = {c1, c2}
  Space = 32
  Base = 4
  DramSize = 8
  PoolSize = 6
  Accesses <- MCAccesses
SPECIFICATION CommandSpec
INVARIANT InvalidIsRefused
