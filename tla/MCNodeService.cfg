SPECIFICATION Spec
CONSTANTS
  Clients = {c1, c2}
  Sweeper = sweeper
  Keys = {k1, k2}
  Values = {1, 2}
  Ttls = {0, 1}
  Backends = {"Memory", "Fjall"}
  Limit = 4
  RotateAt = 1
  MaxClock = 1
  MaxOps = 2
  MaxErrors = 1
  MaxCrashes = 1
  None = None
SYMMETRY Symmetry
INVARIANTS
  TypeOK
  TtlCovered
  UsageConserved
  WatcherAgrees
PROPERTIES
  EvictsOnlyExpired
  ImplementsKvStore
CHECK_DEADLOCK FALSE
