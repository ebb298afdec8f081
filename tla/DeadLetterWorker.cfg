SPECIFICATION FairSpec
CONSTANTS
  p1 = p1
  Partitions <- OnePartition
  MaxOffset = 3
  NoMessage = NoMessage
INVARIANT NoSilentDrop
PROPERTY PartitionNeverBlocked
