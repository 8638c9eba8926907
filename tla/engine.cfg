SPECIFICATION FairSpec
CONSTANTS
  Users = {u1, u2}
  NoUser = NoUser
  Policies = {p1, p2}
  Rules = {rule1}
  ZeroHits = {}
  Kinds <- AlertOrBoth
  Requests = {r1}
  Engines = {e1}
  MaxActs = 1
INVARIANTS
  TypeOK
  CleanUnlessRaced
PROPERTIES
  KeepsActing
  DeletedFallsSilent
CHECK_DEADLOCK FALSE
