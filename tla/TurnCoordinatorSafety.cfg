SPECIFICATION Spec
CONSTANTS
  JobId = {j1, j2}
  EventId = {e1, e2}
  Socket = {s1, s2}
  Runtime = {r1}
  None = None
  TurnTtl = 2
  OfferLease = 0
  RunningTimeout = 0
  DeliveryLease = 0
  JobRetention = 0
  MaxAttempts = 2
  SlackConfigured = TRUE
  MaxResets = 1
  MaxFaults = 1
SYMMETRY Symmetry
INVARIANTS
  EnvelopesMatchStatus
  OffersExclusive
  LeaseHeldWhilePosting
  RepliesAccounted
  RemovalIsFinal
PROPERTIES
  NoPostAfterRemoval
  StartedNeverRequeued
  OutcomeIsFinal
