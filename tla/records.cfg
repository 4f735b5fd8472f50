CONSTANTS
  Parts = {"calendar", "audit", "access", "provenance", "keyring", "compliance", "router",
           "learning", "events", "decisions", "tags", "datalog", "graph", "csr", "media", "spaces"}
  StartDates <- Starts
  MaxSteps = 800
  Seconds = {0, 3599, 86399}
  Offsets <- Zones
  AuFields <- AuditedFields
  AuMaxEvents = 4
  AuMaxEdits = 1
  RaSpaces = {"s"}
  RaUsers = {"u", "v"}
  RaThreads = {"t1", "t2"}
  RaMaxChanges = 3
  PvDocs = {"d1", "d2"}
  PvAgents = {"a"}
  PvServers = {"s1", "s2"}
  PvMaxSigns = 3
  KrSpaces = {"s1", "s2"}
  KrThreads = {"t1", "t2"}
  KrMaxMasters = 2
  KrMaxBlobs = 2
  CmMaxDocs = 2
  CmTexts <- ExportTexts
  CmFields <- CsvFields
  MrProcs = {"p", "q"}
  MrShapes = {"code", "x"}
  MrModels = {"codex"}
  MrDefault <- Shipped
  MrMaxOps = 3
  LnProcs = {"p1", "p2"}
  LnShards = {"s"}
  LnRoutes = {"r1"}
  LnKinds = {"k"}
  LnContexts = {"c"}
  LnMaxRewards = 3
  LnSimilar <- AlikePairs
  LnMaxDocs = 3
  LnMaxRuns = 2
  LnQueries = {1, 2}
  LnMaxEvents = 4
  LnTruth = 3
  LnAlphas = {1, 5, 9}
  LnMaxCal = 5
  EvProcs = {"p1", "p2"}
  EvEvents <- LoggedEvents
  EvFiles <- JsonlFiles
  EvCutoffs = {2}
  EvMaxRows = 3
  EvMaxCuts = 1
  DgUris = {1, 2, 3, 4}
  DgDecisions <- LoggedDecisions
  DgEdges <- AddedEdges
  DgEvents <- AgentEvents
  DgCosts <- AgentCosts
  DgDays = {0, 1}
  DgDayLen = 1
  DgMaxSteps = 4
  TgProcs = {"p1", "p2"}
  TgDocs = {1}
  TgNames = {"a", "b"}
  TgWords <- TagWords
  TgRules <- TagRules
  TgOps = {"tag", "bulk", "merge", "untag", "export", "cleanup", "rules"}
  TgMaxId = 2
  DlRules <- DatalogRules
  DlFacts <- DatalogFacts
  DlMaxFacts = 4
  GsGraphs <- GraphTables
  GsCalls <- GraphCalls
  GsThreads = {1, 2}
  GsUnit = 2
  GsRelWidth = 2
  GsDepths = {1, 3}
  GsOne = 5529600
  GsMaxWrites = 2
  MdProcs = {1, 2}
  MdWorkers = {1, 2, 3}
  MdProcOf <- ProcessOf
  MdLength <- FramesIn
  MdMaxAssets = 6
  MdMaxCalls = 3
  MdMaxKills = 1
  MdThreshold = 2
  MdTokens = {2, 3}
  SpPlaces <- Places
  SpTexts <- Drawers
  SpSessions <- Sessions
  SpWindow = 4
  SpOverlap = 1
  SpThreshold = 5
  SpTarget = 5
  SpMax = 8
  SpMaxCalls = 3
  SpMaxKills = 1
  SpMaxFails = 1
INIT Init
NEXT Next
INVARIANTS CalendarIsRight GovernanceHolds KeysAreKept RouterRemembers LearningAddsUp
  EventsAreKept DecisionsAreExplained TagsAreNotLost DerivationsAreExact MediaIsWhole RoomsKeepAll
CHECK_DEADLOCK FALSE
