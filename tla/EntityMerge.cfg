SPECIFICATION Spec
CONSTANTS
  a = a
  b = b
  c = c
  x = x
  ax = ax
  bx = bx
  cx = cx
  ab = ab
  q1 = q1
  q2 = q2
  None = None
  Entities <- FourEntities
  Refs <- Aliases
  InitialOwner <- AliasOwner
  Rels <- WithLoop
  Evidence <- WithLoop
  InitialRel <- WithLoopRel
  InitialEvidence <- WithLoopEvidence
  Requests <- TwoRequests
  RefCap = 3
  MaxMerges = 3
SYMMETRY RequestSymmetry
INVARIANTS NoMergeCycle RelationshipsFollowSurvivor CountsMatchEvidence
PROPERTY UndoRestores
CHECK_DEADLOCK FALSE
