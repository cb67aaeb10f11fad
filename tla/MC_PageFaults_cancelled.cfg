SPECIFICATION FairPfSpec
CONSTANTS
  Requests <- MCRequests
  Setups <- CancelledSetups
  Allowed <- MCAllowed
  MaxFaults = 3
  BatchCount = 1
  MaxBatches = 2
  MaxThrottle = 1
  MaxReplays = 1
PROPERTY EveryFaultResolved
CHECK_DEADLOCK FALSE
