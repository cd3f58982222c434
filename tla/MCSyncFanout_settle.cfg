CONSTANTS
  Mappings = {m1, m2}
  NumResources = 2
  DependsOn <- Chained
  Slots = {1}
  JobAttempts = 2
  OrchAttempts = 2
  MaxFaults = 1
  MaxStalls = 1
  MaxLost = 0
  MaxEdits = 1
SPECIFICATION FairSpec
INVARIANTS TypeOK LastRunAgrees
PROPERTIES VerdictIsTruthful SettledIsFinal NoOutcomeLost RunSettles
CHECK_DEADLOCK FALSE
