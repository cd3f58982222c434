CONSTANTS
  Mappings = {m1}
  NumResources = 3
  DependsOn <- Chained
  Slots = {s1, s2}
  JobAttempts = 2
  OrchAttempts = 1
  MaxFaults = 1
  MaxStalls = 1
  MaxLost = 1
  MaxEdits = 1
SPECIFICATION Spec
INVARIANT NoOrphanRow
SYMMETRY Symmetry
CHECK_DEADLOCK FALSE
