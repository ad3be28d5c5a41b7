SPECIFICATION Spec
CONSTANTS
  Clients = {c1, c2}
  Sweeper = sweeper
  Keys = {k1}
  Values = {1, 2}
  Ttls = {0, 1}
  Backends = {"Memory", "Fjall"}
  Limit = 0
  RotateAt = 9
  MaxClock = 1
  MaxOps = 2
  MaxErrors = 0
  MaxCrashes = 0
  None = None
SYMMETRY Symmetry
PROPERTY
  EvictionSafe
CHECK_DEADLOCK FALSE
