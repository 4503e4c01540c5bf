SPECIFICATION FairRoute
CONSTANTS
  Cases <- AllCases
  Retries = 1
INVARIANTS
  PrivacyWins
  AsksInTurn
  ClassAsDocumented
PROPERTY Settles
CHECK_DEADLOCK FALSE
