CONSTANTS
  Requests <- MCRequests
  InitialRows = 3
  ClinLines = 2
  SummaryLines = 3
  OptionSheets = 2
SPECIFICATION Spec
INVARIANT TopSecretOfferingIsFound
