SPECIFICATION Spec
CONSTANTS
  q1 = q1
  q2 = q2
  k1 = k1
  k2 = k2
  Requests = {q1, q2}
  Permitted = {q1}
  Keys = {k1, k2}
  Gates = 2
  Signed <- MCSigned
  Earlier <- MCEarlier
INVARIANTS
  OutputsFollowProof
  LinkedFileUntouched
  RetainedProvesDecision
  VerifiersAgree
PROPERTIES
  ConsequenceIsAuthorized
  VerifiedIsSigned
CHECK_DEADLOCK FALSE
