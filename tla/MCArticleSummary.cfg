SPECIFICATION Spec
CONSTANTS
  Bodies = {b1, b2}
  Savers = {s1}
  Discarders = {d1}
  Workers = {w1}
  Attempts = 2
  MaxRevision = 3
  MaxVersions = 3
  MaxEvents = 1
INVARIANTS TypeOK SummaryOfPublished LiveIsPublished OnlyPublishedLeaves
PROPERTIES HistoryKept EventuallySettled
CHECK_DEADLOCK FALSE
