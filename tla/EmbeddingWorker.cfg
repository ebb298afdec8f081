SPECIFICATION EmbeddingSpec
CONSTANTS
  p1 = p1
  d1 = d1
  e1 = e1
  none = none
  None = none
  Partitions <- MCPartitions
  MaxOffset = 2
  NoMessage = NoMessage
  Docs <- MCDocs
  Ents <- MCEnts
  Described <- MCDescribed
  Parts <- MCParts
  DocOf <- MCDocOf
  EntsOf <- MCEntsOf
  MaxRetries = 1
  MaxFaults = 1
  MaxRebuilds = 1
  MaxDrops = 1
INVARIANTS VectorGrounded RecordedIsIndexed
PROPERTY RebuildRepairs
CHECK_DEADLOCK FALSE
