SPECIFICATION Spec
CONSTANTS
  Run = {r1}
  Workloads <- Single
  Catalogs <- SkillCatalogs
  Window = 2
  MaxItems = 3
INVARIANTS
  LedgerExplainsGate
CHECK_DEADLOCK FALSE
