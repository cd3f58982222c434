CONSTANTS
  Mappings = {m1}
  NumResources = 2
  DependsOn <- Chained
  Slots = {1, 2}
  JobAttempts = 2
  OrchAttempts = 2
  MaxFaults = 0
  MaxStalls = 1
  MaxLost = 1
  MaxEdits = 0
SPECIFICATION Spec
PROPERTIES NoOutcomeLost
CHECK_DEADLOCK FALSE
