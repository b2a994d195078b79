SPECIFICATION FairSpec
CONSTANTS
  h1 = h1
  h2 = h2
  h3 = h3
  d1 = d1
  d2 = d2
  f1 = f1
  f2 = f2
  Handler = {h1, h2}
  Did = {d1}
  File = {f1, f2}
  Size <- Sizes
  MaxBytes = 3
  UserMax = 2
  Word = 8
  MaxRequests = 3
  MaxRestarts = 1
  MaxReplicas = 2
INVARIANTS
  TypeOK
  LedgerWithinLimit
  CounterIsExact
PROPERTIES
  RequestsEnd
CHECK_DEADLOCK FALSE
