SPECIFICATION Spec
CONSTANTS
  Looks = {"runs", "submcp", "surface", "config", "catalog", "restore", "buckets", "doors", "bodies", "templates"}
  r1 = r1
  r2 = r2
  TrRuns = {r1, r2}
  TrUsers = {"u", "v"}
  TrReaders = {"q1"}
  MaxActive = 1
  RecentLimit = 1
  MaxTrStops = 1
  SmSlugs = {"s"}
  SmConfigs = {"c1", "io"}
  SmStdio = {"io"}
  SmRequests = {"q1", "q2"}
  SmWriters = {"o1", "o2"}
  MaxSmWrites = 2
  MaxSmBuilds = 2
  TsManifests <- MCTsManifests
  TsDefines <- MCTsDefines
  TsTitles = {"s", "w"}
  TsListings <- MCTsListings
  TsOneOf = {"y"}
  TsRelocates = {"x"}
  TsLocal = {}
  TsUnfaithful = {"y"}
  TsOps <- MCTsOps
  TsDynamic = {"p"}
  TsCalls = {"k"}
  TsCalled = {"a", "c"}
  MaxTsOps = 3
  MaxTsEnv = 1
  CfWriters = {"w1", "w2"}
  CfDocs <- MCCfDocs
  CfStart <- MCCfDocs
  CfEnvs <- MCCfEnvs
  CfUnwritable = {"bad"}
  CfBus = "BUS"
  MaxCfOps = 2
  CtWorkers = {"w1", "w2"}
  CtProviders = {"p"}
  CtCode = {"code"}
  CtNew = {"c1", "c2"}
  CtDocs <- MCCtDocs
  CtLast = 4
  MaxCtOps = 3
  RsAdmins = {"a", "b"}
  RsImports <- MCRsImports
  RsCreates <- MCRsCreates
  RsScheduler = FALSE
  MaxRsOps = 2
  MaxRsFaults = 1
  LmHour = 4
  LmKeys = {"k1", "k2"}
  LmRates = {1, 2}
  LmSizes = {1, 2}
  LmLong = 6
  LmShort = 2
  LmLimit = 3
  LmBurst = 2
  LmClients = {"c1", "c2"}
  LmNet <- MCLmNet
  LmProxies = {"p", "q"}
  LmForged <- MCLmForged
  LmChains <- MCLmChains
  LmCap = 2
  LmChunks = {1, 2, 3}
  MaxLmTime = 6
  MaxLmHits = 4
  TpPaths = {"d/p", "q"}
  TpUnsafe = {"../x"}
  TpDir = {"d/p"}
  TpDep = "q"
  TpCallers = {"c1", "c2"}
  TpAdmins = {"a"}
  MaxTpWrites = 2
  MaxTpReads = 2
SYMMETRY MCTrPerms
INVARIANTS
  RunsAccounted
  SlugsCurrent
  SurfaceSound
  FilesSound
  CatalogSound
  RestoreSound
  LimitsHold
  RendersCurrent
CHECK_DEADLOCK FALSE
