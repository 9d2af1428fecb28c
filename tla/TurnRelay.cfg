SPECIFICATION Spec
CONSTANTS
  Peers = {p, q}
  ServerLists <- SomeServers
  MaxRetransmits = 3
  MaxStale = 1
  Lifetime = 4
  PermitTicks = 2
  MaxNonce = 3
  Room = 3
INVARIANTS GatherFailsForCause AllocationKept DropsHaveACause
PROPERTIES AllocateReturns
CHECK_DEADLOCK FALSE
