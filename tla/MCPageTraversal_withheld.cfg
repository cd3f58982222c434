CONSTANTS
  rec1 = rec1
  rec2 = rec2
  rec3 = rec3
  Records <- TwoRecords
  PageOf <- OnTwoPages
  LastPage = 2
  Workers = {w1}
  MaxClock = 4
  MaxTrouble = 0
SPECIFICATION Spec
INVARIANT WithheldStaysVisible
CHECK_DEADLOCK FALSE
