SPECIFICATION Spec
CONSTANTS
  feed = feed
  news = news
  broken = broken
  host = host
  Connectors <- Feeds
  Invalid <- Broken
  Domain <- Hosts
  GlobalLimit = 2
  DomainLimit = 1
  MaxRetry = 1
  ThrottleLag = 1
  PauseLag = 2
  Latest <- Serves
  MaxFaults = 1
  MaxStops = 1
INVARIANTS EvidenceComplete CheckpointCovered
PROPERTIES CleanWhenDone EventuallyCollected
