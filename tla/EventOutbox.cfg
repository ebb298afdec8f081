SPECIFICATION FairSpec
CONSTANTS
  NumEvents = 2
  Lease = 2
  BackoffBase = 1
  BackoffMax = 1
  Retention = 1
  BatchSize = 2
  MaxAttempts = 1
  Relays <- MCRelays
  r1 = r1
  r2 = r2
INVARIANT LeaseExclusive
PROPERTIES ImplementsAtLeastOnce CommittedEventsGetPublished
