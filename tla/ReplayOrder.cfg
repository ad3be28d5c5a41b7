SPECIFICATION Spec
CONSTANTS
  Clients = {c1, c2}
  Sweeper = sweeper
  Keys = {k1}
  Values = {1, 2}
  Ttls = {0}
  Backends = {"Memory", "Fjall"}
  Limit = 0
  RotateAt = 9
  MaxClock = 0
  MaxOps = 2
  MaxErrors = 0
  MaxCrashes = 0
  None = None
SYMMETRY Symmetry
INVARIANT
  ReplayIsNoOp
CHECK_DEADLOCK FALSE
