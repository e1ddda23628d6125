SPECIFICATION TimedSystemSpec
CONSTANTS
  JobId = {j1}
  EventId = {e1}
  Socket = {s1}
  Runtime = {r1}
  Self = r1
  None = None
  TurnTtl = 1
  OfferLease = 0
  RunningTimeout = 0
  DeliveryLease = 0
  JobRetention = 0
  MaxAttempts = 1
  SlackConfigured = FALSE
  MaxResets = 1
  MaxFaults = 0
  MaxDrops = 1
  MaxRestarts = 0
  MaxInFlight = 1
PROPERTIES
  CompletionAcknowledged
