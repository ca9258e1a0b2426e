SPECIFICATION Spec
CONSTANTS
  MaxRuns = 1
  MaxApprovals = 1
  MaxTurns = 1
  MaxSends = 1
  MaxStops = 1
CHECK_DEADLOCK FALSE
INVARIANT WaitReachable
