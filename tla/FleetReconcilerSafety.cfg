SPECIFICATION Spec
CONSTANTS
  Claws = {c1, c2}
  Slugs = {s1}
  Policies = {p1}
  None = None
  MaxChanges = 3
  MaxTurns = 1
  MaxFaults = 1
  MaxLosses = 1
SYMMETRY Symmetry
INVARIANTS
  WorkspaceOwned
  ReleaseSparesTurns
  HonestGeneration
PROPERTIES
  RemovalAdvances
