SPECIFICATION DemandSpec
CONSTANTS
  Caller = {c1, c2, c3}
  MaxRetries = 2
  Backoff = 1
  Threshold = 3
  Cooldown = 2
INVARIANTS
  ClosedBelowThreshold
  LeakBound
PROPERTIES
  GuardsLoad
  CallsSettle
  OpenIsProbed
  Recovers
CHECK_DEADLOCK FALSE
