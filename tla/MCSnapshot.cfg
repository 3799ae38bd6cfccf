CONSTANTS
  a1 = a1  f1 = f1  r1 = r1
  pa = pa  pa2 = pa2  pf = pf  pr = pr
  None = None
  Pes <- MCAgents
  Atn <- MCAtn
  Ffn <- MCFfn
  Ranks <- MCRanks
  device <- MCDevice
  Procs <- First
  slot <- FirstSlot
  Spares <- NoSpares
  MaxGenerations = 1
  Attempts = 2
  MaxEvents = 0
  Kinds = {}
SPECIFICATION FairSpec
CHECK_DEADLOCK FALSE
PROPERTY DeploymentServes
