SPECIFICATION Spec
CONSTANTS
  Width = 3
  Numerals <- MCNumerals
  Policies <- ManyPolicies
  Edits <- MCEdits
  Requests <- MCRequests
INVARIANTS
  TypeOK
  ActivatesWellFormedPolicies
  DecisionFollowsPolicy
  LanguagesAgree
  AllowedProofReplays
CHECK_DEADLOCK FALSE
