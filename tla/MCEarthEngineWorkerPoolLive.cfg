CONSTANTS
  MaxLive = 1
  MaxAdmitted = 2
  Requests = {r1, r2}
  Resisting <- MCFirst
  MaxShutdowns = 1
SPECIFICATION Spec
INVARIANT OneProcessPerSlot
PROPERTY EveryFetchEnds
PROPERTY ShutdownEnds
PROPERTY CapacityReturns
CHECK_DEADLOCK FALSE
