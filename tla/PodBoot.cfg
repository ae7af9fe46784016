SPECIFICATION Spec
CONSTANTS
  p = p
  a = a
  b = b
  c = c
  d = d
  None = None
  Helpers = {p, a, b, c, d}
  Pause = p
  Conf <- Pod
  Movable = {p}
  Apart = TRUE
INVARIANTS
  TypeOK
  OneOwner
  InNetns
  OwnServer
  VolumesReady
CHECK_DEADLOCK FALSE
