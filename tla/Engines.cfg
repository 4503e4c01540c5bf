SPECIFICATION EnginesSpec
CONSTANTS
  Tree = {"t1", "t2"}
  Dir = {1}
  Agent = {"own"}
  Builtin = {"docs"}
  Saved <- SomeSaved
  Ttl = 2
  MaxFill = 1
  MaxClock = 3
  MaxEdits = 2
  Remote = {"r1", "r2"}
  Resolver = {"c1", "c2", "c3"}
  MaxMs = 1
  Name = {"a", "b", "c"}
  RequestSets <- SomeRequestSets
  MaxDepths = {0, 1, 3}
  PromptRepo = {"p1", "p2"}
  Doc = {1, 2}
  Topic = {"security"}
  FirstDocs <- SomeDocs
  Rebuild = {"b1", "b2"}
  MaxDocEdits = 1
  Path <- SomePath
  Trait <- SomeTrait
  Limits <- SomeLimits
  Texts <- SomeTexts
  TooLarge = 3
  Suffix = 1
  MaxChanges = 2
  Repositories <- SomeRepositories
  MaxNodes = 6
  MaxEdges = 7
  MaxAdrFiles = 2
  MaxPolicyFiles = 1
  Layouts <- SomeLayouts
  Slug <- SomeSlug
  Numeral <- SomeNumeral
  Exporter = {"e1", "e2"}
  MaxLayouts = 2
  Adrs <- SomeAdrs
  Assets <- SomeAssets
  Repos <- SomeRepos
INVARIANTS
  CacheTells
  OwnManifest
  TreeTellsGraph
  IndexWhole
  BestWithinBudget
  GraphHangsTogether
  VaultTells
  AuditAccounts
CHECK_DEADLOCK FALSE
