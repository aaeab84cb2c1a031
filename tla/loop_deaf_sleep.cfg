SPECIFICATION FairSpec
CONSTANTS
  Notes = {"k", "n1"}
  KernelNote = "k"
  Pollers = {"hb"}
  Signals = {"sleep"}
  Faults = {}
  ToolEffects = {"plain"}
  MaxRequests = 1
  MaxKernelNotes = 0
  MaxRounds = 1
  MaxTransient = 1
  MaxAed = 1
  CanFallback = FALSE
  Windows = {}
PROPERTY DeliveryRetried
CHECK_DEADLOCK FALSE
