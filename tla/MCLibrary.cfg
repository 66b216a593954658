SPECIFICATION Spec
CONSTANTS
  NULL = NULL
  ExprError = ExprError
  NUM_INITIAL_ELEMENTS = 2
  Nodes = {sd1, sd2, sd3, sd4}
  InitCap2 = 1
  ChainSize = 2
  IdealPrime <- LibraryPrimes
  FifoNodes = {n1, n2, n3, n4}
  RemotePages = 5
  BitmapSizes = {33, 41}
  Values = {v1, v2}
  Keys = {0, 2, 3, 4}
  MaxLen = 4
  MaxPuts = 6
  RecSlots = {r1, r2, r3}
  Data = {d1, d2, d3}
  Inputs <- LibraryInputs
  TagValues <- LibraryTagValues
  Boxes <- LibraryBoxes
  Filters <- LibraryFilters
  Syncs <- LibrarySyncs
  ZipPatterns <- LibraryZipPatterns
  ZipExits = {{"a", "b", "c"}}
  ZipTypes <- LibraryZipTypes
  MaxZipped = 6
  StaticLabels <- LibraryLabels
  StaticInterfaces <- LibraryInterfaces
  Docs <- LibraryDocs
  MaxDocs = 3
  SacArrays <- LibrarySacArrays
  SacVariants <- LibrarySacVariants
  MaxPacked = 3
  Observers <- LibraryObservers
  ObserverType <- LibraryObserverType
  Observed <- LibraryObserved
  FrontObservers = {"p1", "p2"}
  FrontRecords = 2
  Entities = {d1, d2, d3}
  MonNodes = {m1, m2, m3}
  MonTasks = {t1, t2}
  MonWorkers = {w1}
  MonWrappers = {}
  MonStreams = {v1, v2}
  MonFlags <- LibraryMonFlags
  MON_USREVT_BUFSIZE_DELTA = 1
  MaxMoves = 1
  MaxEvents = 2
  BoxNames = {"foo", "bar"}
  NumWorkers = 3
  NodeLocations = {0, 4}
  Concurrency <- LibraryConcurrency
  MaxSpawns = 6
  Options <- LibraryOptions
  MaxOptions = 3
  NumProcs = 4
  PTHREAD_STACK_MIN = 16384
  LpelStreams = {v1, v2}
  Locvecs = {d1, d2, d3}
  MaxWaits = 3
  B_SIZE = 6
  Outbox <- LibraryOutbox
  MaxRefs = 4
  MaxUnread = 4
SYMMETRY LibrarySymmetry
CHECK_DEADLOCK FALSE
INVARIANT ContainersAgree
INVARIANT RecordsAgree
INVARIANT DocumentsAgree
INVARIANT ObserversAnswered
INVARIANT ServicesAgree
