SPECIFICATION Spec
CONSTANTS
  Caller = {c1, c2}
  MaxRetries = 0
  Backoff = 1
  Threshold = 1
  Cooldown = 2
PROPERTIES
  StaysOpenForCooldown
CHECK_DEADLOCK FALSE
