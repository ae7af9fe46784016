SPECIFICATION Spec
CONSTANTS
  k1 = k1
  g1 = g1
  g2 = g2
  None = None
  Gens = {g1, g2}
  RunGens = {g2}
  Starts = {}
  Kills = {k1}
  KillSig <- AllTerm
  Caller = "any"
  Platform = "linux"
  SpecMissing = {}
INVARIANTS
  NoWaitInVain
PROPERTIES
  CreateReturns
CHECK_DEADLOCK FALSE
