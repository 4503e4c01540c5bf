SPECIFICATION Spec
CONSTANTS
  a = a
  b = b
  c = c
  x = x
  y = y
  Process = {p1}
  Id = {a, b, c}
  Path = {x, y}
  None = None
  Initial <- Registries
  EnvSet = {p1}
  Failing = {}
PROPERTY OthersAreKept
