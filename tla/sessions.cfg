SPECIFICATION SessionsSpec
CONSTANTS
  Parts = {"chat", "codex", "provider", "consult", "timed", "log", "meta", "pressure",
           "setup", "rules", "family", "voices", "asks",
           "desk_in", "desk_out", "desk_both", "mailbox", "retried", "registry", "search", "pages"}
  Prompts = {"p1", "p2"}
  FirstPrompt = "p1"
  NoPrompt = "none"
  MoltKeeps = {0, 3}
  MaxCalls = 3
  MaxSends = 3
  MaxTrims = 1
  MaxCrashes = 1
  MaxUpdates = 1
  Races = {}
  CxTransports = {"rest", "websocket"}
  CxMaxIds = 5
  CxMaxFaults = 1
  PtKinds = {"openai", "anthropic", "claude-code", "gemini", "responses"}
  PtSends = 4
  PtTrims = 1
  PtRebuilds = 1
  CsLength = 4
  CsWindow = 5
  CsRounds = 3
  TcSources = {"soul", "mail"}
  TcKeepsOne = {"soul"}
  TcItems = 4
  TcFaults = 2
  LgMax = 5
  LgScan = 2
  LgCrashes = 1
  LgTrouble = {"write", "query", "delete"}
  LmMax = 3
  LmPayloads = 2
  LmTurnovers = 1
  PsRounds = 3
  PsBatch = 1
  PsWrites = 2
  PsMolts = 1
  PsBudget = 1
  AsPresets = {"home", "cheap"}
  AsEdits = 2
  AsBoots = 2
  AvAgents = {1, 2, 3}
  AvRules = 2
  AvFaults = 1
  SfFires = 3
  SfQuestions = 2
  SfFaults = 1
  DkKinds = {"telegram", "feishu", "wechat", "imap"}
  DkMessages = 3
  DkLimit = 1
  DkFaults = 1
  MbMessages = 2
  MbCalls = 2
  MbFaults = 2
  RgNames = {"imap", "telegram", "mine"}
  RgCatalog = {"imap", "telegram"}
  RgEdits = 2
  RgBoots = 2
  FsEntries = {"x", "y", "z"}
  FsTrees <- Trees
  FsWorkers = {"t1", "t2"}
  FsMaxHits = 2
  FrLines = 3
  FrChars = 3
INVARIANTS SessionTypes HistoryLegal ShownOnce ModelSeesHistory NoticesKept DesksKeep StartsWell
PROPERTY DerivedAgrees
CHECK_DEADLOCK FALSE
