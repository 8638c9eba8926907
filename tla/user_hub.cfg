SPECIFICATION Spec
CONSTANTS
  Clients = {a, b}
  Users = {u1, u2}
  NoUser = NoUser
  NoClient = NoClient
  SendCap = 1
  MaxAuths = 2
SYMMETRY Symmetry
INVARIANTS
  TypeOK
  FiledAsItself
  AuthenticatedIsFiled
  PanicNeedsReauth
CHECK_DEADLOCK FALSE
