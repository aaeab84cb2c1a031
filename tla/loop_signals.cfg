SPECIFICATION Spec
CONSTANTS
  Notes = {"k", "n1"}
  KernelNote = "k"
  Pollers = {"hb"}
  Signals = {"interrupt", "sleep", "refresh", "idle_timeout"}
  Faults = {"hang", "refresh"}
  ToolEffects = {"plain", "sleep", "force_sleep", "poll"}
  MaxRequests = 1
  MaxKernelNotes = 1
  MaxRounds = 1
  MaxTransient = 1
  MaxAed = 1
  CanFallback = FALSE
  Windows = {}
INVARIANTS NothingDropped SleepWireAppendable
CHECK_DEADLOCK FALSE
