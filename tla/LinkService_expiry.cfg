\* Exact clocks, but a SET may be executed one unit of time after its TTL was computed.
SPECIFICATION FreshSpec
CONSTANTS
  r1 = r1
  r2 = r2
  a = a
  b = b
  Reqs = {r1}
  Ids = {1}
  Codes = {a, b}
  Code <- EncodeIds
  RawUrls <- Submitted
  Urls <- Stored
  Normalize <- NormalizeSubmitted
  maxURLLength = 4
  NoUrl = None
  Never = Never
  Exps = {1, Never}
  None = None
  Garbage = Garbage
  OldLinks <- OneOldLink
  Skew <- GoodClocks
  Behind = 0
  Ahead = 0
  CacheTTL = 2
  MaxDelay = 1
  MaxTime = 4
  MaxWire = 2
INVARIANT CacheNeverOutlivesLink
CHECK_DEADLOCK FALSE
