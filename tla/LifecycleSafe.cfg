SPECIFICATION Safety
CONSTANTS
  g1 = g1
  g2 = g2
  g3 = g3
  s1 = s1
  k1 = k1
  None = None
  Gens = {g1, g2, g3}
  RunGens = {}
  Starts = {s1}
  Kills = {k1}
  KillSig <- AllKill
  Caller = "containerd"
  Platform = "linux"
  SpecMissing = {}
SYMMETRY Generations
INVARIANTS
  TypeOK
  ReadyWhenCreated
  NoLostWake
  BootOwnsDir
  ServerStopped
  PidFileFresh
  OrphanAsleep
  StoppedTruth
PROPERTIES
  NoRegress
CHECK_DEADLOCK FALSE
