CONSTANTS
  Looks = {"store", "presets", "meta", "hooks", "tokens"}
  VsNames = {"n1", "n2"}
  VsBodies <- MCVsBodies
  VsPatches <- MCVsPatches
  VsProcs = {"p1", "p2"}
  MaxDocs = 2
  MaxVersions = 3
  MaxVsOps = 4
  PsWorkers = {"w1", "w2"}
  PsReqs = {"r1", "r2"}
  PsNames = {"n1", "n2"}
  PsBase = "b"
  PsSeed <- MCPsSeed
  PsBodies <- MCPsBodies
  PsVals = {1, 2}
  PsBad <- MCPsBad
  PsToggles = {"b", "n1"}
  MaxPsOps = 2
  MaxPsVersions = 3
  MaxPsFaults = 1
  TmFolders = {"a", "b"}
  TmLabels = {"x"}
  TmTools = {"t", "u"}
  TmPatches <- MCTmPatches
  TmProcs = {"p1", "p2"}
  MaxTmOps = 4
  WhTopics = {"t1", "t2"}
  WhHooks = {"k1"}
  WhLinks = {"n1"}
  WhHashes = {"h1", "h2"}
  WhBadBinding = {"t2"}
  MaxWhOps = 5
  MaxWhFires = 1
  Absent = Absent
  Procs = {"p1", "p2", "p3"}
  MaxWrites = 3
  TkScenarios <- MCTkScenarios
SPECIFICATION Spec
CHECK_DEADLOCK FALSE
INVARIANTS
  PresetsHold
  OverlayKept
  LinksSound
  CacheSound
PROPERTIES
  StoreImplements
