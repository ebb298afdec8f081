SPECIFICATION IndexerFairSpec
CONSTANTS
  p1 = p1
  Partitions <- OnePartition
  MaxOffset = 3
  NoMessage = NoMessage
  BatchSize = 2
  BulkMaxRetries = 1
INVARIANT CommitAfterFlush
PROPERTY BatchIsFlushed
