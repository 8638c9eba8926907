SPECIFICATION FairSpec
CONSTANTS
  c1 = c1
  d1 = d1
  Conns = {c1}
  UIDs = {d1}
  DeviceUID <- OneOfOne
  NoConn = NoConn
  Clients = {a}
  Users = {u1}
  NoUser = NoUser
  NoClient = NoClient
  DeviceCap = 1
  UserCap = 1
  PushCap = 1
  MaxPending = 0
  MaxAuths = 1
INVARIANT
  TypeOK
PROPERTIES
  GoneIsUnfiled
  BrokenLeaves
  HubServes
CHECK_DEADLOCK FALSE
