SPECIFICATION FairSpec
CONSTANTS
  Notes = {"k", "n1"}
  KernelNote = "k"
  Pollers = {"hb", "soul"}
  Signals = {}
  Faults = {}
  ToolEffects = {"plain", "dismiss", "molt"}
  MaxRequests = 1
  MaxKernelNotes = 1
  MaxRounds = 1
  MaxTransient = 1
  MaxAed = 1
  CanFallback = FALSE
  Windows = {}
INVARIANTS NoLostWake
PROPERTIES NotificationSeen
CHECK_DEADLOCK FALSE
