SPECIFICATION Safety
CONSTANTS
  c = c
  s = s
  d = d
  k = k
  q = q
  w = w
  x = x
  Exits = Exits
  None = None
  Reqs = {c, s, d, x}
  Op <- Ask
  Orderly = TRUE
  EventCap = 2
INVARIANTS
  ShutdownIdle
CHECK_DEADLOCK FALSE
