SPECIFICATION Progress
CONSTANTS
  a1 = a1
  a2 = a2
  a3 = a3
  b1 = b1
  c1 = c1
  ha = ha
  hb = hb
  hc = hc
  Tasks = {a1, a2, a3, b1, c1}
  Threads = {ha, hb, hc}
  ThreadOf <- MCThreadOf
  None = None
  Depth = 2
  Limits = {1, 2}
  TrRuns = {"r1"}
  TrUsers = {"u"}
  TrReaders = {"q1"}
  MaxActive = 1
  RecentLimit = 1
  MaxTrStops = 1
  TsManifests <- MCTsManifests
  TsDefines <- MCTsDefines
  TsTitles = {"s", "w"}
  TsListings <- MCTsListings
  TsOneOf = {"y"}
  TsRelocates = {"x"}
  TsLocal = {}
  TsUnfaithful = {"y"}
  TsOps <- MCTsOps
  TsDynamic = {"p"}
  TsCalls = {}
  TsCalled = {"a", "c"}
  MaxTsOps = 3
  MaxTsEnv = 2
INVARIANTS
  CapsSound
PROPERTIES
  TurnsProceed
  OrphansSettle
  FailedMcpRecovers
CHECK_DEADLOCK FALSE
