SPECIFICATION Spec
CONSTANTS
  Users = {u1}
  NoUser = NoUser
  Policies = {p1}
  Rules = {rule1}
  ZeroHits = {}
  Kinds <- BothEffects
  Requests = {r1}
  Engines = {e1}
  MaxActs = 1
INVARIANT
  ValuesAreMatched
CHECK_DEADLOCK FALSE
