SPECIFICATION Spec
CONSTANTS
  Process = {p1, p2}
  Note = {n1, n2, n3, n4, bad}
  Denied = {bad}
  Cap = 2
  Compressing = {p1}
  BatchMax = 2
  NestKept = 1
INVARIANTS
  StaysBoundedLog
  SerialIsBoundedLog
  RollupsClean
CHECK_DEADLOCK FALSE
