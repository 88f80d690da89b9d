SPECIFICATION NodeSpec
CONSTANTS
  Jobs = {1, 2, 3}
  Intervals = {1, 2}
  None = None
  Horizon = 2
  MaxRun = 2
  MaxChanges = 1
  Workers = {k1, k2}
  MaxHandlers = 2
  MaxShutdowns = 2
  Runners = {w1, w2}
  NoRunner = NoRunner
  MaxSlot = 4
  MaxEdits = 2
  MaxBusy = 1
  MaxCut = 2
  NoStage = NoStage
  MaxStages = 2
  MaxWrites = 1
  MaxFaults = 2
INVARIANTS LatenessBounded ClosedWhenUnused BackupsOnTime RestoreSound
PROPERTIES StartsApart WorkGoesOn NodeOpensAgain
CHECK_DEADLOCK FALSE
