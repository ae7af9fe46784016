SPECIFICATION Spec
CONSTANTS
  w1 = w1
  p1 = p1
  Service = Service
  None = None
  Waiters = {w1}
  Polls = {p1}
  Cap = 1
INVARIANTS
  TypeOK
  NoSendOnClosed
  AtMostOnce
  TimerDrained
  NoLostExit
  HoldersMove
PROPERTIES
  WaitReturns
  ServiceHears
  ImplementsBroadcast
CHECK_DEADLOCK FALSE
