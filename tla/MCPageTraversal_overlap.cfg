CONSTANTS
  rec1 = rec1
  rec2 = rec2
  rec3 = rec3
  Records <- ThreeRecords
  PageOf <- OnThreePages
  LastPage = 3
  Workers = {w1, w2}
  MaxClock = 2
  MaxTrouble = 1
SYMMETRY Symmetry
SPECIFICATION Spec
INVARIANT FullTraversalUndisturbed
PROPERTIES GapsMoveForward StaleOnlyIfAbsent
CHECK_DEADLOCK FALSE
