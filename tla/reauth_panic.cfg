SPECIFICATION Spec
CONSTANTS
  Clients = {a}
  Users = {u1}
  NoUser = NoUser
  NoClient = NoClient
  SendCap = 1
  MaxAuths = 2
CHECK_DEADLOCK FALSE
INVARIANT
  AuthIsAnswered
