CONSTANTS
  Parts = {"agents", "vectors", "retrieval", "replicas", "reads"}
  CpHosts = {"h1", "h2"}
  CpFetched <- Pages
  CpStored <- StoredDocs
  CpMaxDocs = 3
  CpMaxFetches = 3
  CpMaxPromotions = 1
  CpMaxCrashes = 1
  CsIds = {1, 2, 3}
  CsIntervals = {1, 2}
  CsLimit = 1
  CsMaxTime = 5
  CxTexts <- ChunkTexts
  CxTokens <- ChunkTokens
  CxLists <- ChunkLists
  CxChunks = {1, 2, 3}
  FrProcs = {"p", "q"}
  FrProjects <- Projects
  FrTerms = {{}}
  FrVersions = {1}
  FrTtl = 2
  FrNegTtl = 1
  FrMaxDeps = 2
  FrMaxRegistry = 1
  FrMaxManifests = 3
  FrMaxDepth = 1
  FrMaxTime = 2
  CkDocs <- PackDocs
  CkQueries = {"q"}
  CkBudgets = {8}
  CkHeader = 1
  CkCap = 1
  CkTtl = 1
  CkPackTtl = 2
  CkFew = 1
  CkMany = 2
  CkFloor = 2
  CkMaxTime = 1
  CkMaxCalls = 3
  AgNames <- AgentNames
  AgTexts <- AgentTexts
  AgTerms <- AgentTerms
  AgLimits = {1, 2}
  AgBudgets = {20}
  AgTermWeight = 2
  AgReserve = 5
  AgPerHit = 1
  AgMaxDocs = 2
  AgMaxLines = 3
  LqClients = {"c1", "c2"}
  LqCapacity = 2
  LqEvents <- LiveEvents
  LqMaxEvents = 3
  TfRows <- OwnRows
  TfPeers <- PeerFiles
  TfConns = {"c1", "c2"}
  TfMaxRows = 2
  TfMaxCuts = 1
  TfMaxCmds = 3
  SxRows = 3
  SxPerBatch = 2
  SxMaxFaults = 2
  ViVecs <- Vectors
  ViIds = {1, 2}
  ViThresholds = {1, 2, 3}
  ViPerCluster = 1
  ViProbe = 2
  ViKs = {1, 2}
  ViDegrees = {1, 2}
  ViHints <- RouterHints
  ViLatencies = {100, 5000}
  ViCap = 3
  ViMaxRows = 3
  ViMaxObserved = 2
  ViKeys = {1, 2, 3, 4}
  ViReserve = 2
  ViMaxCalls = 4
  RtRrfK = 2
  RtScale = 60
  RtAllDocs = {1, 2, 3}
  RtMemTable <- MemTable
  RtEdgeTable <- EdgeTable
  RtModes = {"plain", "expand", "ppr", "hippo"}
  RtMaxHops = 2
  RtEdgeCap = 2
  RtHopCap = 1
  RtK = 3
  RtMaxChanges = 1
  RtIds = {1, 2, 3}
  RtFloors = {0, 5}
  RtGrades = {3, 7}
  RtPreds <- Predicates
  RtMetas = {0, 1, 2}
  RtEfs = {0, 1}
  RtFilterDocs = 4
  RtVectors <- SparseVectors
  RtQueries <- SparseQueries
  RtBlock = 2
  RtMaxSparse = 3
  RtColDocs = {1}
  RtMaxAdds = 3
  FdNodes = {"n1", "n2"}
  FdDocs = {"x", "y"}
  FdMaxEdits = 3
  FdMaxRestarts = 1
  FdMaxSyncs = 1
  OpReplicas = {"r1", "r2", "r3"}
  OpChoices <- Operations
  OpPayloads = TRUE
  ShCount = 3
  ShTexts <- ShardTexts
  ShTitles <- ShardTitles
  ShFold <- Folded
  ShUnembedded = {4}
  ShMaxSplits = 2
  RdConns = {"c1"}
  RdDoc <- ReadDocs
  RdScopes = {"s"}
  RdQueries <- ReadQueries
  RdShort = {}
  RdNear <- NearestFirst
  RdForms <- ReadForms
  RdLimits = {2}
  RdPool = 1
  RdWindow = 1
  RdMaxClock = 2
  RdMaxRequests = 2
  RdMaxChanges = 2
  RdTenants = {"t"}
  RdFree = "free"
  RdArgs = {"--mode", "--limit", "--scope", "-s", "--scope-key", "vec", "7", "w"}
  RdMaxArgs = 3
  RdBudget = 4
INIT Init
NEXT Next
INVARIANTS AgentsStayApart IndexesAgree RecallIsExact ReplicasConverge ReadsAreHonest
CHECK_DEADLOCK FALSE
