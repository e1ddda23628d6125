SPECIFICATION ScenarioSpec
CONSTANTS
  JobId = {j1}
  EventId = {e1}
  Socket = {s1, s2}
  None = None
  MaxAttempts = 2
  SlackConfigured = TRUE
  MaxTasks = 2
  MaxResets = 1
  MaxCrashes = 1
  MaxLosses = 1
INVARIANTS
  WorkHasAlarm
  EdgePostsAccounted
PROPERTIES
  EdgeImplementsReplies
  EdgeTurnSettles
