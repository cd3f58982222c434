SPECIFICATION Spec
CONSTANTS
  RunIds = {r1, r2, r3}
  Occurrences = {o1, o2}
  Manuals = {m1}
  Workers = {w1, w2}
  ManualAttempts = 2
  MaxStalls = 1
  MaxLost = 1
  MaxFaults = 1
INVARIANTS TypeOK OneRunPerOccurrence NoStrandedRun TurnedAwayByAFlight
PROPERTIES FliesAlone
SYMMETRY Symmetry
CHECK_DEADLOCK FALSE
