SPECIFICATION FairSpec
CONSTANTS
  c1 = c1
  c2 = c2
  c3 = c3
  r1 = r1
  r2 = r2
  Calls <- MCCalls
  Reports <- MCReports
  ReportOf <- MCReportOf
  Capacity = 2
  MaxChanges = 1
INVARIANTS
  AdmissionBounds
  SuccessIsExclusive
  NotStartedHasNoEffect
PROPERTIES
  SlotsAreReturned
