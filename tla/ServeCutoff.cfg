SPECIFICATION Spec
CONSTANTS
  Writers = {w1}
  Keys = {k1}
  Ttls = {0, 1, 2}
  Intervals = {0, 1}
  MaxPuts = 2
  MaxSkew = 1
  LastPut = 0
  Horizon = 4
  ServeTimeout = 2
  Setups <- MCSetups
  None = None
INVARIANT ServesUntilSignal
CHECK_DEADLOCK FALSE
