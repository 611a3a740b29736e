\* Three clients and two slots, so that the pool runs out while two work.
CONSTANTS
  Clients = {c1, c2, c3}
  MaxNum = 2
  Unit = 2
SPECIFICATION BufferSpec
INVARIANTS
  BufferTypeOK
  ExclusiveOwnership
  SlotAccounting
PROPERTIES
  FreedOncePerAllocation
  ImplementsPool
