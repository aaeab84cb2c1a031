SPECIFICATION Spec
CONSTANTS
  Notes = {"k", "n1"}
  KernelNote = "k"
  Pollers = {"hb"}
  Signals = {}
  Faults = {}
  ToolEffects = {"plain", "sleep"}
  MaxRequests = 1
  MaxKernelNotes = 0
  MaxRounds = 1
  MaxTransient = 1
  MaxAed = 1
  CanFallback = FALSE
  Windows = {}
INVARIANT NoLostWake
CHECK_DEADLOCK FALSE
