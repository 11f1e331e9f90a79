SPECIFICATION Spec
CONSTANTS
  Names <- Artifacts
  Changes = {c1, c2, c3, c4}
  MaxRevision = 3
  MaxStops = 2
INVARIANTS
  TypeOK
  AcknowledgedVerifies
  LaterTrustVerifies
  OnlySignedVerifies
  BlockedByInterruption
PROPERTIES
  EventuallyServes
CHECK_DEADLOCK FALSE
