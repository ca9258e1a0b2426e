SPECIFICATION Spec
CONSTANT Configurations <- SuspectedRuns
CHECK_DEADLOCK FALSE
INVARIANT ProtocolKept
