SPECIFICATION FairPfSpec
CONSTANTS
  Requests <- MCRequests
  Setups <- TwoChannelSetups
  Allowed <- MCAllowed
  MaxFaults = 3
  BatchCount = 2
  MaxBatches = 2
  MaxThrottle = 1
  MaxReplays = 2
PROPERTY OnlyFatalCancelled
CHECK_DEADLOCK FALSE
