SPECIFICATION Spec
CONSTANTS
  feed = feed
  page = page
  n1 = n1
  n2 = n2
  d1 = d1
  d2 = d2
  k1 = k1
  u1 = u1
  u2 = u2
  u2x = u2x
  u2y = u2y
  u3 = u3
  h1 = h1
  h2 = h2
  h3 = h3
  news = news
  sport = sport
  chess = chess
  None = None
  Raws <- TwoRaws
  Items <- Parsed
  Supported <- TwoRaws
  Normalizers <- TwoNormalizers
  Deduplicators <- TwoDeduplicators
  Semantic = TRUE
  SimDistance = 1
  ScanLimit = 1
  MaxChainDepth = 3
  MaxId = 6
  MaxFaults = 1
INVARIANTS DocumentsOfClaim DuplicateOfOlder VerdictsAgree MissedOnlyUnseen
PROPERTY EventuallySettled
CHECK_DEADLOCK FALSE
