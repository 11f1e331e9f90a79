SPECIFICATION DiligentSpec
CONSTANTS
  Processes = {p1, p2}
  Operators = {o1}
  Keys = {k1}
  Capacity = 1
  MaxRevision = 1
  MaxLocks = 2
  NoLock = NoLock
  NoState = NoState
PROPERTIES
  StaleLockRecovered
