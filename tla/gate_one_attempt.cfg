SPECIFICATION FairSpec
CONSTANTS
  Attempts = {a1}
  Evidence = {e1, e2}
  Permitted = {e1}
  NoEvidence = NoEvidence
  NoReceipt = NoReceipt
  MaxEpoch = 2
INVARIANTS
  DispatchHasRecord
  ReceiptTruthful
  ReceiptFollowsAuthorization
  ClaimsAreBacked
PROPERTIES
  DispatchIsFresh
  AtMostOneDispatch
  EveryAttemptSettles
  ImplementsBoundary
