SPECIFICATION FairSpec
CONSTANTS
  Claws = {c1}
  Slugs = {s1}
  Policies = {p1, p2}
  None = None
  MaxChanges = 2
  MaxTurns = 1
  MaxFaults = 2
  MaxLosses = 1
PROPERTIES
  RemovalCompletes
  ServingConverges
