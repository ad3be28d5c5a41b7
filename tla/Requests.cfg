SPECIFICATION Spec
CONSTANTS
  k1 = k1
  k2 = k2
  k3 = k3
  Operators = {o1, o2}
  Bodies <- MCBodies
  DefaultQuota <- MCDefault
  None = None
  Clients = {c1, c2}
  Calls <- MCCalls
  Insecure = FALSE
  Own = "own"
  Nobody = Nobody
  Keys = {k1, k2, k3}
  KeySize <- MCKeySize
  Backends = {TRUE, FALSE}
  MaxKeySize = 1
  MaxValueSize = 2
  MaxBatchOps = 2
  MaxEvents = 4
CHECK_DEADLOCK FALSE
SYMMETRY Symmetry
INVARIANTS
  TypeOK
  QuotaBounds
  AccountingAgrees
  QuotaKept
  RateHeld
  AuditedWhenAnswered
  WritesPermitted
