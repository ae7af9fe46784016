SPECIFICATION Safety
CONSTANTS
  c = c
  s = s
  d = d
  k = k
  q = q
  w = w
  x = x
  Exits = Exits
  None = None
  Reqs = {c, s, d, k, q, x}
  Op <- Ask
  Orderly = TRUE
  EventCap = 1
INVARIANTS
  TypeOK
  ExitTruth
  StateAfterExit
  HoldersMove
  ExitPursued
PROPERTIES
  ImplementsTask
CHECK_DEADLOCK FALSE
