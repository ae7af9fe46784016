SPECIFICATION Spec
CONSTANTS
  None = None
  MaxFd = 11
  Begun <- Standard
  Dropped = {}
  Envs <- Short
INVARIANTS
  TypeOK
  InOrder
  NumbersAgree
CHECK_DEADLOCK FALSE
