SPECIFICATION Spec
CONSTANTS
  parent = parent
  child1 = child1
  child2 = child2
  Callers = {parent, child1, child2}
  MaxConcurrency = 2
  MaxRetries = 1
  MinInterval = 2
  RetryBase = 1
  HasFallback = TRUE
  MaxRequests = 1
  NoCaller = NoCaller
CHECK_DEADLOCK FALSE
INVARIANTS
  PermitsKept
  ChancesTaken
  MetadataOwn
PROPERTIES
  StartsSpaced
  RequestsEnd
