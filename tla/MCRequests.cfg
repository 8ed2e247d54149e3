SPECIFICATION Spec
CONSTANTS
  MinPriority = 2
  MaxPriority = 13
  Kgwei = 4
  Rate <- TestRate
  SecondScale = 2
  BaseVram = 2
  MinTaskFee <- TestMinTaskFee
  MaxTaskFee <- TestMaxTaskFee
  DefaultMaxTokens = 2
  EmptyQueueMedian = 3
  BaselineUnits = 3
  MaxUint64 = 100
  Routes <- TestRoutes
  RelayListings <- TestRelayListings
  QueueListings <- TestQueueListings
  ProviderQueues <- TestProviderQueues
  TimeListings <- TestTimeListings
  MinOnDisk = 1
  DefaultVram = 2
  CacheTTL = 1
  MaxRefreshes = 1
  MaxKeyChanges = 1
  MaxClock = 1
  Edits <- TestEdits
  Handlers = {h1}
  DefaultMaxCredits = 30
  MaxEdits = 1
  Pieces = {a}
  CallIds = {"c1"}
  Reports <- TestReports
  StreamBuffer = 2
  MaxAttempts = 2
  MaxChunks = 3
  Answers <- TestAnswers
  TextChunk = 2
  Asks <- TestAsks
  MaxRequests = 2
INVARIANTS
  PriorityIsReference
  HoldCoversCharge
  StreamIsWellFormed
  ClientSeesResult
  
PROPERTIES
  CatalogNeverRegresses
CHECK_DEADLOCK FALSE
