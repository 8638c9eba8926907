SPECIFICATION FairSpec
CONSTANTS
  c1 = c1
  c2 = c2
  u1 = u1
  Conns = {c1, c2}
  UIDs = {u1}
  DeviceUID <- TwoOfOne
  NoConn = NoConn
  Owned = {}
  Clients = {}
  Engines = {}
  SendCap = 1
  DBFails = TRUE
  MaxPending = 2
  MaxRestarts = 1
INVARIANTS
  TypeOK
  NoDeadEntry
  IInv
PROPERTIES
  PresenceSpec
  StatusHeals
  BrokenLeaves
CHECK_DEADLOCK FALSE
