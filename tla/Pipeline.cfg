SPECIFICATION Spec
CONSTANTS
  Run = {r1, r2}
  Workloads <- AllWorkloads
  Catalogs <- SkillCatalogs
  Window = 2
  MaxItems = 5
SYMMETRY Runs
INVARIANTS
  VerdictExact
  MetricsTellOutcome
  LedgerTellsOutcome
  FailuresShow
CHECK_DEADLOCK FALSE
