SPECIFICATION Spec
CONSTANTS
  a = a
  b = b
  c = c
  x = x
  y = y
  Process = {p1, p2}
  Id = {a, b}
  Path = {x, y}
  None = None
  Initial <- Registries
  EnvSet = {p2}
  Failing = {p1}
INVARIANTS
  RegistrySound
  ListingTells
PROPERTY SerialIsRegistry
