SPECIFICATION StoresSpec
CONSTANTS
  r1 = r1
  r2 = r2
  c1 = c1
  c2 = c2
  Runs = {r1, r2}
  Consumers = {c1, c2}
  MaxDeliveries = 1
  MaxStarts = 3
  MaxCrashes = 2
  NoConsumer = NoConsumer
  NoRun = NoRun

  k1 = k1
  k2 = k2
  CodeFiles = {k1, k2}
  Codes <- MCCodes
  HasEmbeddings = TRUE
  HitLimit = 1
  MaxEdits = 2
  MaxAnswers = 2

  u1 = u1
  u2 = u2
  h1 = h1
  h2 = h2
  RunIds = {u1, u2}
  Groups = {h1, h2}
  Counts <- MCCounts
  NoCount <- MCNoCount
  BatchSizes = {1, 2}
  MaxAsked = 2

  MaxChildren = 2
  MaxPieces = 4
CHECK_DEADLOCK FALSE
SYMMETRY Symmetry
INVARIANTS
  NothingLost
  CompletedEnded
  ExecutedOnce
  RetrievalTrue
  UsageTrue
  BackendSound
