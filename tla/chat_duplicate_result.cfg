SPECIFICATION Spec
CONSTANTS
  Prompts = {"p1", "p2"}
  FirstPrompt = "p1"
  NoPrompt = "none"
  MoltKeeps = {0, 3}
  MaxCalls = 4
  MaxSends = 3
  MaxTrims = 1
  MaxCrashes = 1
  MaxUpdates = 1
  Races = {"late"}
INVARIANT OneResultPerId
CHECK_DEADLOCK FALSE
