SPECIFICATION Spec
CONSTANT Configurations <- AllRuns
CHECK_DEADLOCK FALSE
INVARIANTS
  TypeOK
  ProtocolKept
  GroundedAnswer
  RecoveryTimed
PROPERTIES
  RunEnds
