SPECIFICATION ExtractionSpec
CONSTANTS
  w1 = w1
  w2 = w2
  post = post
  blog = blog
  url1 = url1
  url2 = url2
  hostname = hostname
  none = none
  None = none
  Workers <- MCWorkers
  Docs <- PostAndBlog
  Assigned <- Partitions
  Skipped <- NoDocs
  Keys <- AllKeys
  TypeOf <- Types
  Identified <- Hosts
  Items <- FoundInTwo
  LegacyIdentifiers <- OldRows
  Mergeable <- Pairs
  Imported <- Bundle
  OldProgram <- OldKeys
  EvidenceLimit = 100
  MaxMerges = 1
  MaxFaults = 1
INVARIANTS ClaimedIsDone CountsMatchEvidence MergedStaysMerged ConflictIsRecorded
PROPERTY EventuallySettled
CHECK_DEADLOCK FALSE
