SPECIFICATION MCFairSpec
CONSTANTS
  Caller = {c1, c2}
  MaxCalls = 1
  MaxCount = 3
  Faults = {"redis", "crash"}
  Filing <- MCFiling
  MaxResults = 2
  MaxCopies = 2
  FilingFaults = {"bse", "pdf", "db"}
  Refresh = {r1, r2}
  Active = 2
  Url = {"a", "b", "c"}
  OwnUrl <- MCOwnUrl
  NewsFaults = {"feed", "redis", "db", "crash"}
  ChunkSize = 512
  Overlap = 64
  MaxWords = 1100
  Forms = 3
  EdgarRetries = 3
  MaxFilings = 3
  EdgarFaults = {"429", "status", "network", "shape"}
  PriceReader = {l1}
  QuantReader = {k1, k2}
  History = {13, 49, 120}
  MarketFaults = {"redis", "download", "empty"}
  ResearchRetries = 1
  MaxTries = 2
  ClientRetries = 1
  MaxDelivered = 2
  ResearchFaults = {"groq", "limit", "text", "db", "connection"}
INVARIANTS
  IngestionTypeOK
  WindowBoundsRequests
  SecondCopyIsOverlap
  ChunksCoverText
  SearchIsBounded
  QuantAnswersAreFounded
  AttemptsAreAccounted
PROPERTIES
  ArticlesAreKept
  WindowsEnd
CHECK_DEADLOCK FALSE
