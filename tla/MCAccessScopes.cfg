CONSTANTS
  Settings <- MCSettings
  Public = Public
  NoOne = NoOne
  NoCond = NoCond
  AcUsers = {"root", "ann", "key", "spare"}
  Accounts = {"root", "ann"}
  Urls <- MCUrls
  Scopes = {"s1", "s2"}
  InitialPolicies <- MCInitialPolicies
  InitialRoutes <- MCInitialRoutes
  RoleBodies <- MCRoleBodies
  GrantMaps <- MCGrantMaps
  PolicyInputs <- MCPolicyInputs
  Registries <- MCRegistries
  Requests <- MCRequests
  Workers = {w1, w2}
  w1 = w1
  w2 = w2
  Tokens = {"t"}
  MaxOps = 4
  MaxRequests = 2
  c1 = c1
  c2 = c2
  MaxNesting = 32
  MaxTokens = 256
  TfGrowth = 2
  CnWorkers = {w1, w2}
  CnIds = {c1, c2}
  Aliases = {"a"}
  Subs = {"s1", "s2"}
  Flows = {f1, f2}
  f1 = f1
  f2 = f2
  None = None
  CnScenarios <- MCCnScenarios
SPECIFICATION UnmapSpec
CHECK_DEADLOCK FALSE
INVARIANT
  ScopesBacked
