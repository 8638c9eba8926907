SPECIFICATION FairSpec
CONSTANTS
  c1 = c1
  c2 = c2
  u1 = u1
  Conns = {c1}
  UIDs = {u1}
  DeviceUID <- OneOfOne
  NoConn = NoConn
  Owned = {u1}
  Clients = {cl1, cl2}
  Engines = {en}
  SendCap = 1
  DBFails = TRUE
  MaxPending = 1
  MaxRestarts = 1
PROPERTIES
  ControlReleased
  StatusHeals
CHECK_DEADLOCK FALSE
