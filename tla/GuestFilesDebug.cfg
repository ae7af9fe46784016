SPECIFICATION SpecDebug
CONSTANTS
  None = None
  MaxFd = 11
  Begun <- Standard
  Dropped = {4}
  Envs <- Short
INVARIANTS
  NumbersAgree
CHECK_DEADLOCK FALSE
