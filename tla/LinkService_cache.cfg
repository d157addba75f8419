\* Two requests at a time, by hosts whose clocks differ by one unit.
SPECIFICATION FreshSpec
CONSTANTS
  r1 = r1
  r2 = r2
  a = a
  b = b
  Reqs = {r1, r2}
  Ids = {1, 2}
  Codes = {a, b}
  Code <- EncodeIds
  RawUrls <- Submitted
  Urls <- Stored
  Normalize <- NormalizeSubmitted
  maxURLLength = 4
  NoUrl = None
  Never = Never
  Exps = {1, Never}
  None = None
  Garbage = Garbage
  OldLinks <- OneOldLink
  Skew <- LaggingClock
  Behind = 1
  Ahead = 0
  CacheTTL = 2
  MaxDelay = 1
  MaxTime = 4
  MaxWire = 2
CONSTRAINT OnlyCreatesUse2
INVARIANTS
  TypeOK
  CacheAgreesWithDB
  CacheExpiresInTime
  CreatedIsStored
  TargetsAreValid
  InsertsGoThrough
PROPERTIES
  AckedLinksAreFound
  ImplementsLinkStore
CHECK_DEADLOCK FALSE
