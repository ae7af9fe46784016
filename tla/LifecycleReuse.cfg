SPECIFICATION Safety
CONSTANTS
  g1 = g1
  g2 = g2
  k1 = k1
  None = None
  Gens = {g1, g2}
  RunGens = {g1, g2}
  Starts = {}
  Kills = {k1}
  KillSig <- AllKill
  Caller = "shell"
  Platform = "linux"
  SpecMissing = {}
INVARIANTS
  StoppedTruth
CHECK_DEADLOCK FALSE
