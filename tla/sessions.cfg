SPECIFICATION Spec
CONSTANTS
  Clients = {c1, c2}
  Captchas = {k1}
  NoCaptcha = NoCaptcha
  Life = 2
  MaxTime = 3
SYMMETRY Symmetry
INVARIANTS
  TypeOK
  SessionLives
  SignedOutIsRefused
  SetExpires
PROPERTIES
  CaptchaOnce
CHECK_DEADLOCK FALSE
