SPECIFICATION RolloutSpec
CONSTANTS
  Claws = {c1, c2}
  Slugs = {s1, s2}
  Policies = {p1, p2}
  None = None
  MaxChanges = 1
  MaxTurns = 0
  MaxFaults = 0
  MaxLosses = 0
  MaxRollouts = 1
PROPERTIES
  UnconvergedCanaryStops
