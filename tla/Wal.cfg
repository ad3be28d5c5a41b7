SPECIFICATION Spec
CONSTANTS
  MaxAppends = 3
  MaxErrors = 2
  MaxCrashes = 2
  MaxOutages = 2
  StrayBases = {5}
  Torn = Torn
  NoHeader = NoHeader
INVARIANTS
  TypeOK
  OwedRecoverable
  LogOrdered
  RefusedOnlyAfterCutOff
PROPERTY
  ImplementsAppendLog
CHECK_DEADLOCK FALSE
