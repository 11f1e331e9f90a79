SPECIFICATION Spec
CONSTANTS
  c1 = c1
  c2 = c2
  c3 = c3
  n1 = n1
  n2 = n2
  Calls <- MCCalls
  Names <- MCNames
  NameOf <- MCNameOf
INVARIANTS
  AcknowledgedRecordsSurvive
PROPERTIES
  RecordsAreNotReplaced
  ImplementsRecordStore
