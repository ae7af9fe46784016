SPECIFICATION Safety
CONSTANTS
  g1 = g1
  s1 = s1
  None = None
  Gens = {g1}
  RunGens = {}
  Starts = {s1}
  Kills = {}
  KillSig <- AllKill
  Caller = "containerd"
  Platform = "linux"
  SpecMissing = {}
INVARIANTS
  ExitRecorded
CHECK_DEADLOCK FALSE
