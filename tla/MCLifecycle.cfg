CONSTANTS
  a1 = a1  f1 = f1  r1 = r1
  pa = pa  pa2 = pa2  pf = pf  pr = pr
  None = None
  Pes <- MCAgents
  Atn <- MCAtn
  Ffn <- MCFfn
  Ranks <- MCRanks
  device <- MCDevice
  Procs <- Both
  slot <- BothSlot
  Spares <- MCSpares
  MaxGenerations = 1
  Attempts = 2
  MaxEvents = 1
  Kinds = {"close", "signal", "crash", "native", "device", "lost", "delayed", "stale", "timeout", "replace"}
SPECIFICATION Spec
CHECK_DEADLOCK FALSE
INVARIANTS RetirementOrdered ExecutableIsActive OneWorld ClosedIsEmpty
