SPECIFICATION Spec
CONSTANTS
  e1 = e1
  d1 = d1
  Partitions <- TwoRelationships
  NonEntity <- Documents
  MaxOffset = 3
  NoMessage = NoMessage
  MaxRequests = 3
  MaxWrites <- FewDocumentWrites
INVARIANTS EdgeConverges LossNeedsLaterSuccess
