SPECIFICATION Spec
CONSTANTS
  MaxAppends = 1
  MaxErrors = 1
  MaxCrashes = 0
  MaxOutages = 0
  StrayBases = {}
  Torn = Torn
  NoHeader = NoHeader
INVARIANT
  RunningSegmentOpens
CHECK_DEADLOCK FALSE
