SPECIFICATION Spec
CONSTANTS
  Two = {a, b}
  Three = {p, q, r}
  Uploads = {1, 2}
  Images = 2
  Page = 3
  Last = 2
  Destructive = {2}
  Writes = {w1}
  k1 = k1
  k2 = k2
  k3 = k3
  Interval = 2
  PerWindow = 2
  StaleTicks = 3
  Jitter = 1
  Width = 5
  MinSide = 2
  VIEWPORT = 4
  Precision = 12
  Pixels = 12
  Items = {"a", "b", "c"}
  Compared = 4
  Block = 2
  Terms = 5
  Listed = 3
  MAX_RULES = 2
  MIN_INSIGHTS = 2
  MAX_INSIGHTS = 2
  MaxRuns = 2
  MaxData = 1
  KeepRuns = 1
  MaxExports = 2
  MaxFailures = 2
  MaxMissed = 1
  MaxStarts = 3
  MaxChanges = 3
  MaxDeaths = 1
  MaxLapses = 1
  MaxDrops = 1
  MaxCuts = 2
  MaxFetches = 1
  MaxRefused = 1
  MaxTyped = 2
  MaxOthers = 1
  MaxSaves = 3
  MaxVoters = 2
  MaxClicks = 3
  MaxEdits = 3
  MaxErrors = 1
  MaxDiscards = 1
  MaxPulls = 1
  Refusals = {"closed", "never"}
  MaxLosses = 2
  MaxLeaves = 1
  MaxFaults = 1
  MoreFaults = 2
SYMMETRY Alike
INVARIANTS
  TypeOK ResultsAreThere StoresAgree DeploymentsHold TabsConverge RulesAgree
PROPERTIES FinishedStays TabsAreFair
CHECK_DEADLOCK FALSE
