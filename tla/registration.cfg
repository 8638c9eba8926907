SPECIFICATION FairSpec
CONSTANTS
  Requests = {r1, r2}
  x = x
  y = y
  Values <- TwoValues
  Profiles <- SharedAddress
  Settings <- NewNumber
  NoAccount = NoAccount
  Constraint = FALSE
INVARIANTS
  TypeOK
  MutualExclusion
  UniqueIdentities
PROPERTIES
  RegistrationEnds
CHECK_DEADLOCK FALSE
