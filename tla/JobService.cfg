SPECIFICATION Spec
CONSTANTS
  j1 = j1
  o1 = o1
  o2 = o2
  w = w
  Worker = w
  ExportJobs <- OneExport
  MaxRetries = 2
  MaxDispatch = 2
  Jobs <- OneExport
  Operators <- TwoOperators
  Requests <- AnyRequest
  Faults = TRUE
SYMMETRY OperatorSymmetry
INVARIANTS TimestampsMatchStatus CompletedExportHasResult
PROPERTY SettledIsFinal
