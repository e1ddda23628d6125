SPECIFICATION SystemSpec
CONSTANTS
  JobId = {j1, j2}
  EventId = {e1, e2}
  Socket = {s1, s2}
  Runtime = {r1}
  Self = r1
  None = None
  TurnTtl = 2
  OfferLease = 0
  RunningTimeout = 0
  DeliveryLease = 0
  JobRetention = 0
  MaxAttempts = 1
  SlackConfigured = FALSE
  MaxResets = 1
  MaxFaults = 1
  MaxDrops = 1
  MaxRestarts = 1
  MaxInFlight = 1
SYMMETRY Symmetry
CONSTRAINT Scenario
INVARIANTS
  PromptRunOnce
PROPERTIES
  AnswerKept
