SPECIFICATION Spec
CONSTANTS
  Parts = {"store", "bash"}
  Posters = {"p1"}
  PostRefs = {"r"}
  Goals = {"g", "h"}
  MaxEvents = 2
  MaxPosts = 3
  MaxGoalMoves = 1
  Jobs = {"j1", "j2"}
  Stubborn = {"j2"}
  MaxRestarts = 1
INVARIANTS TypeOK OneReminder OverIsOver
PROPERTIES UnreadKept StaleReminderGoes PollAnswers
CHECK_DEADLOCK FALSE
