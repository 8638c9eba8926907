SPECIFICATION Spec
CONSTANTS
  Requests = {r1, r2, r3}
  Limit = 5
  Window = 4
  LockTime = 4
INVARIANTS
  TypeOK
  BurstBound
  RefusedBriefly
  LockCovers
