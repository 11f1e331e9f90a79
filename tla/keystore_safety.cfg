SPECIFICATION DiligentSpec
CONSTANTS
  Processes = {p1, p2}
  Operators = {o1}
  Keys = {k1, k2, k3}
  Capacity = 2
  MaxRevision = 3
  MaxLocks = 2
  NoLock = NoLock
  NoState = NoState
INVARIANTS
  LiveWriterHoldsLock
  LiveStateIsCurrent
  AcknowledgedSurvives
  StatesAreValid
PROPERTIES
  ImplementsKeyRegister
  CompleteLockRecovered
