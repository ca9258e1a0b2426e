SPECIFICATION GuardsSpec
CONSTANTS
  t1 = t1
  t2 = t2
  k1 = k1
  k2 = k2
  Tools = {t1, t2}
  Keys = {k1, k2}
  SideEffects <- OneSideEffect
  Threshold = 3
  NoTool = NoTool
  NoKey = NoKey

  Files = {f, g}
  Versions = {v1, v2}
  Lines <- MCLines
  ShownLines = 2
  RangeLimit = 2
  EntryLimit = 2
  StateLimit = 2
  MaxCalls = 4

  NoProgressLimit = 3
  IdenticalLimit = 3
  AlternatingLimit = 4
  VerificationLimit = 2
  ErrorLimit = 2
  RecoveryWindow = 2
  Window = 3
  Calls <- MixedCalls
  Overlapping <- NoOverlap

  Replies <- MCReplies
  MaxStreams = 2
CHECK_DEADLOCK FALSE
INVARIANTS
  OpenIffStreak
  ReadsHonest
  WatchdogTimely
  ShownIsAnswer
PROPERTIES
  ProbeDecides
  IdleIsStopped
