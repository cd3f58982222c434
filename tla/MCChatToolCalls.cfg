SPECIFICATION Spec
CONSTANTS
  Creates = {c1}
  Edits = {e1}
  Requests = {q1, q2}
  Intents = {i1, i2}
  ArticleIds = {a1, a2}
  MaxRevision = 3
  MaxFaults = 2
INVARIANTS TypeOK CreatedAsPinned NoLostEdit TruthfulReport RejectedStandsNot
PROPERTIES SettledForGood
SYMMETRY Symmetry
CHECK_DEADLOCK FALSE
