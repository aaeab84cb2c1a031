SPECIFICATION Spec
CONSTANTS
  Parts = {"pair", "threads", "tracked", "legacy", "followed", "buffered", "cursor",
           "refresh", "rebuild", "mcp", "tools"}
  Backends = {"lingtai", "claude-p", "claude", "cursor"}
  MaxRuns = 2
  MaxBatches = 2
  MaxTasks = 2
  MaxRestarts = 1
  RlProcs = {1, 2, 3, 4}
  RlRebuilds = {4}
  RlTries = 2
  RlFaults = 1
  McClients = 2
  McLoops = 3
  McDeaths = 1
  TbSize = 2
INVARIANTS TypeOK EndAnnounced EndsAsTold OneAgent RawPreserved
PROPERTIES AgentComesBack AllEnd
CHECK_DEADLOCK FALSE
