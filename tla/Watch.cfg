SPECIFICATION Spec
CONSTANTS
  Keys = {a, b, z}
  Prefix = {a, b}
  Values = {v}
  Subscribers = {s1}
  Capacity = 2
  Heartbeat = 2
  None = None
INVARIANTS
  TypeOK
  StreamAgrees
PROPERTIES
  NeverSilent
  CutOffEnds
