SPECIFICATION HomeSpec
CONSTANTS
  Run = {r1, r2, r3}
  Failures <- FailureLists
  AttentionId <- SomeAttentionId
  Window = 2
  MaxItems = 3
  Call = {c1, c2, c3}
  Workspace = {"w1"}
  PolicyFiles <- SomePolicyFiles
  Inputs <- SomeInputs
  Surroundings <- SomeSurroundings
  DecisionLimit = 1
  MaxDecisions = 3
  MaxEdits = 1
  Lines <- SomeLines
  DayTicks = 2
  WeekDays = 2
  MonthDays = 3
  Horizon = 7
  MaxLines = 2
  SeenRun = {v1, v2}
  Agent = {"a", "ab", "b"}
  PrefixOf <- SomePrefixes
  Bodies <- SomeBodies
  Limit = 3
  TailLines = 4
  MaxOthers = 1
  MaxTears = 2
  Process = {q1}
  Id = {i1, i2}
  Path = {x, y}
  None = None
  Initial <- Registries
  EnvSet = {}
  Failing = {q1}
  Cwd = Cwd
INVARIANTS
  ListedLoads
  TearCostsOneRow
  SkimShowsNewest
  CallsAreCounted
  ReportWasTrue
  StillHomeAgrees
  SnapshotAddsUp
  TrailTells
  RunsWhatItNames
CHECK_DEADLOCK FALSE
