SPECIFICATION Spec
CONSTANTS
  c = c
  s = s
  d = d
  k = k
  q = q
  w = w
  x = x
  Exits = Exits
  None = None
  Reqs = {c, s, d, w}
  Op <- Ask
  Orderly = FALSE
  EventCap = 1
PROPERTIES
  RequestsReturn
  
  ExitPublished
CHECK_DEADLOCK FALSE
