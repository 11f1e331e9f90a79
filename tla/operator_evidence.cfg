SPECIFICATION Spec
CONSTANTS
  Requests = {r1, r2}
  Lifetime = 2
  MaxTime = 3
  MaxEdits = 2
SYMMETRY Symmetry
PROPERTIES
  DispatchIsLet
  DispatchIsAsSigned
CHECK_DEADLOCK FALSE
