SPECIFICATION AsSpec
CONSTANTS
  AsPresets = {"home", "cheap"}
  AsEdits = 2
  AsBoots = 2
INVARIANT SelfAuthoredWins
CHECK_DEADLOCK FALSE
