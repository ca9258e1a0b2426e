SPECIFICATION Spec
CONSTANTS
  MaxRuns = 2
  MaxApprovals = 2
  MaxTurns = 2
  MaxSends = 2
  MaxStops = 2
CHECK_DEADLOCK FALSE
INVARIANT TypeOK
INVARIANT DialogShown
INVARIANT ViewAgrees
INVARIANT CancelStopsTools
PROPERTY RunsAnswered
