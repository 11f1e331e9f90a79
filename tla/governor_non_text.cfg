SPECIFICATION Spec
CONSTANTS
  Width = 3
  Numerals <- MCNumerals
  Policies <- FewPolicies
  Edits <- MCEdits
  Requests <- NonTextRequests
INVARIANTS
  NonTextIntentRequired
CHECK_DEADLOCK FALSE
