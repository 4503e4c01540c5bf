SPECIFICATION Spec
CONSTANTS
  Call = {c1, c2}
  Requests <- SomeRequests
  Catalogs <- SomeCatalogs
SYMMETRY Calls
INVARIANTS
  PrivilegeBinds
  SkillsBind
  LinesTell
CHECK_DEADLOCK FALSE
