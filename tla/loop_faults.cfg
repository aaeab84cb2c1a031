SPECIFICATION FairSpec
CONSTANTS
  Notes = {"k"}
  KernelNote = "k"
  Pollers = {"hb"}
  Signals = {"suspend"}
  Faults = {"empty", "transient", "hang"}
  ToolEffects = {"plain"}
  MaxRequests = 0
  MaxKernelNotes = 1
  MaxRounds = 1
  MaxTransient = 1
  MaxAed = 2
  CanFallback = TRUE
  Windows = {"overlap", "commit"}
INVARIANTS TypeOK
PROPERTIES PoisonFrozen TurnEnds ShutdownStops PoisonRefreshes
CHECK_DEADLOCK FALSE
