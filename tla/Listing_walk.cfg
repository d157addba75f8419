\* Links of two users, inserted anywhere in the list while one of them reads.
SPECIFICATION Spec
CONSTANTS
  Users = {alice, bob}
  NoUser = NoUser
  Ids = {1, 2, 3, 4}
  Times = {1, 2}
  DefaultPage = 2
  MaxPage = 3
  Limits <- SomeLimits
INVARIANTS
  TypeOK
  WalkFindsAll
  RepeatsOnlyAfterInsert
CHECK_DEADLOCK FALSE
