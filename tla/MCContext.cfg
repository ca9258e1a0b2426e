SPECIFICATION ContextSpec
CONSTANTS
  Sizes = {1, 4}
  Worths = {0, 1}
  Batches <- MCBatches
  UsableBudget = 12
  HighMark = 10
  RecentShare = 6
  FloorGroups = 2
  Preamble = 2
  MapSize = 1
  SummarySize = 1
  MinNew = 2
  MaxChat = 7
  MaxNotices = 3

  c1 = c1
  c2 = c2
  r1 = r1
  Facts = {c1, c2, r1}
  CategoryOf <- MCCategoryOf
  Places = {p}
  SummaryLines = 4
  KeepLast = 1
  HasModel = TRUE
  MapFiles <- MCMapFiles
  BlockSize <- MCBlockSize
  MapBudget = 3
  MaxEntries = 3
  MaxFailures = 1

  TextSizes = {1, 7}
  CallSizes = {0, 3}
  EntrySizes = {1, 5}
  ReadPaths = {"f"}
  DefaultBudget <- MCDefault
  Windows = {4, 13, 30}
  RecentWindow = 2
  SmallClip = 2
  MaxPast = 4

  f = f
  g = g
  a = a
  b = b
  s = s
  Paths = {f, g}
  Kinds = {"read", "symbol"}
  Contents = {a, b, s}
  Secrets = {s}
  Queries <- MCQueries
  MaxRecords = 2
  TopK = 2
  OverallLimit = 4
  ItemTokens = 5
  MaxTicks = 3

  Unfit <- MCUnfit
  Harvests <- MCHarvests
  LegacyNotes <- MCLegacyNotes
  MaxFacts = 3
  MaxMade = 5

  t1 = t1
  t2 = t2
  n1 = n1
  none = none
  Topics = {t1, t2}
  Promotions <- MCPromotions
  NoSubject = none
  MaxRuns = 4

  m1 = m1
  m2 = m2
  Sources = {m1, m2}
  SourceOrder <- MCSourceOrder
  Texts = {x1, x2}
  Parts = {1}
  Settings = {s1, s2}
  RecentLimit = 2
  SummaryLimit = 2
  NoteLimit = 2
  RecallLimit = 2
  Requests <- MCRequests
  MaxSteps = 4
SYMMETRY MCSymmetry
CHECK_DEADLOCK FALSE
INVARIANTS
  RequestWhole
  SummarySound
  PromptSound
  EvidenceSound
  MemorySound
  SessionSound
PROPERTIES
  RequestFits
  TopicsKept
