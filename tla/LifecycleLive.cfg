SPECIFICATION Spec
CONSTANTS
  g1 = g1
  g2 = g2
  s1 = s1
  k1 = k1
  None = None
  Gens = {g1, g2}
  RunGens = {g2}
  Starts = {s1}
  Kills = {k1}
  KillSig <- AllKill
  Caller = "containerd"
  Platform = "linux"
  SpecMissing = {}
PROPERTIES
  KillCompletes
  ImplementsOCI
CHECK_DEADLOCK FALSE
