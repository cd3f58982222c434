CONSTANTS
  rec1 = rec1
  rec2 = rec2
  rec3 = rec3
  Records <- ThreeRecords
  PageOf <- OnThreePages
  LastPage = 3
  Workers = {w1}
  MaxClock = 3
  MaxTrouble = 2
SPECIFICATION Spec
INVARIANTS TypeOK HighWaterCovers CursorResumable
CHECK_DEADLOCK FALSE
