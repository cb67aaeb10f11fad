SPECIFICATION FairPfSpec
CONSTANTS
  Requests <- MCRequests
  Setups <- PassSetups
  Allowed <- MCAllowed
  MaxFaults = 3
  BatchCount = 2
  MaxBatches = 2
  MaxThrottle = 1
  MaxReplays = 2
INVARIANT BufferExact
PROPERTY CancelledInLockdown
PROPERTY EveryFaultResolved
CHECK_DEADLOCK FALSE
