CONSTANTS
  Requests = {r1, r2}
  Leeway = 2
  MaxLatency = 1
  ExpiresAt = 3
  MaxClock = 4
  MaxToken = 3
  MaxTrouble = 1
SYMMETRY Symmetry
SPECIFICATION Spec
INVARIANTS
  TypeOK
  CookieNotStranded
  NoFalseReuse
  ReuseAuditedOnce
PROPERTY ImplementsTokenChain
CHECK_DEADLOCK FALSE
