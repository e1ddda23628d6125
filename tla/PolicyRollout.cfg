SPECIFICATION RolloutSpec
CONSTANTS
  Claws = {c1, c2}
  Slugs = {s1, s2}
  Policies = {p1, p2}
  None = None
  MaxChanges = 1
  MaxTurns = 0
  MaxFaults = 2
  MaxLosses = 1
  MaxRollouts = 1
SYMMETRY Symmetry
CONSTRAINT Scenario
PROPERTIES
  RolloutKeepsEdits
  CanaryProven
