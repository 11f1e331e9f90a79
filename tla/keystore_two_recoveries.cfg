SPECIFICATION Spec
CONSTANTS
  Processes = {p1, p2}
  Operators = {o1, o2}
  Keys = {k1}
  Capacity = 1
  MaxRevision = 1
  MaxLocks = 3
  NoLock = NoLock
  NoState = NoState
INVARIANTS
  LiveWriterHoldsLock
