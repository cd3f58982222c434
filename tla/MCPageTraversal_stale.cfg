CONSTANTS
  rec1 = rec1
  rec2 = rec2
  rec3 = rec3
  Records <- ThreeRecords
  PageOf <- OnThreePages
  LastPage = 3
  Workers = {w1}
  MaxClock = 2
  MaxTrouble = 2
SPECIFICATION Spec
PROPERTY OnlyUnseenGoStale
CHECK_DEADLOCK FALSE
