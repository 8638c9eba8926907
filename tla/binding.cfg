SPECIFICATION FairSpec
CONSTANTS
  Users = {alice, bob}
  NoUser = NoUser
  Empty = Empty
  Requests = {r1, r2}
  CacheFails = TRUE
INVARIANTS
  TypeOK
  OnlyOwners
  CacheFollows
PROPERTIES
  UnbindsItsOwn
  CacheConverges
CHECK_DEADLOCK FALSE
