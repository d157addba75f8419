\* One request, one of two dependencies may hang.
SPECIFICATION Spec
CONSTANTS
  alice = alice
  bob = bob
  s = s
  t = t
  None = None
  PanicLine = PanicLine
  Tokens = {s, t}
  Users = {alice, bob}
  Deps = {postgres, redis}
  OwnerOf <- Owner
  Reqs = {r1}
INVARIANT EachPingHasItsTimeout
CHECK_DEADLOCK FALSE
