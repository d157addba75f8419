\* Two requests of any kind at once; tokens are revoked, dependencies fail.
SPECIFICATION FairSpec
CONSTANTS
  alice = alice
  bob = bob
  s = s
  t = t
  None = None
  PanicLine = PanicLine
  Tokens = {s, t}
  Users = {alice, bob}
  Deps = {postgres, redis}
  OwnerOf <- Owner
  Reqs = {r1, r2}
INVARIANTS
  TypeOK
  LoggedAsSent
  ActsForOwner
  HealthIsHonest
PROPERTY EveryRequestAnswered
CHECK_DEADLOCK FALSE
