SPECIFICATION Spec
CONSTANTS
  Uploads = {u1}
  Contents = {good, bad}
  Bad = {bad}
  Puts = {p1, p2}
  Confirms = {k1, k2}
  Sweepers = {s1, s2}
  Batch = 1
  MaxFaults = 1
INVARIANTS TypeOK StoredAsConfirmed RowFollowsBytes
PROPERTIES RetentionHonoured NothingLingers
CHECK_DEADLOCK FALSE
