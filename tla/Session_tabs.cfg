SPECIFICATION FairSpec
CONSTANTS
  t1 = t1
  t2 = t2
  v1 = v1
  v2 = v2
  v3 = v3
  Tabs = {t1}
  Calls = {v1, v2}
  TabOf <- Owner
  AccessTtl = 1
  RefreshTtl = 2
  MaxTime = 3
  MaxFaults = 1
  MaxReloads = 1
INVARIANTS
  TypeOK
PROPERTIES
  KeptWhileLive
  TypingKept
  CallsEnd
  CutOff
CHECK_DEADLOCK FALSE
