SPECIFICATION FairSpec
CONSTANTS
  JobId = {j1}
  EventId = {e1}
  Socket = {s1}
  Runtime = {r1}
  None = None
  TurnTtl = 2
  OfferLease = 1
  RunningTimeout = 1
  DeliveryLease = 1
  JobRetention = 1
  MaxAttempts = 2
  SlackConfigured = TRUE
  MaxResets = 1
  MaxFaults = 2
PROPERTIES
  EveryTurnSettles
  ImplementsTurnReplies
