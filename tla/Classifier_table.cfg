SPECIFICATION FairSpec
CONSTANTS
  x1 = x1
  x2 = x2
  x3 = x3
  Articles = {x1, x2, x3}
  Before <- InOrder
  Unrated = Unrated
  Nothing = Nothing
  BatchSize = 2
  MaxAttempts = 2
  MaxCalls = 2
  Window = 1
  MaxFaults = 1
INVARIANTS
  TypeOK
  Accounted
  BillBounded
PROPERTIES
  TableSpec
  Drained
CHECK_DEADLOCK FALSE
