SPECIFICATION Spec
CONSTANTS
  s1 = s1
  s2 = s2
  u1 = u1
  u2 = u2
  u3 = u3
  x1 = x1
  x2 = x2
  x3 = x3
  c1 = c1
  r1 = r1
  r2 = r2
  Sources = {s1, s2}
  CityOf <- OneCity
  Urls = {u1, u2}
  UrlsOf <- OwnUrl
  Intervals <- IntervalZero
  Stories = {x1, x2, x3}
  Entries <- SharedEntries
  MaxVersion = 2
  MaxAges = {0}
  ColumnMax = 9
  Outcomes = {"same", "body"}
  None = None
  Tick = tick
  Requests = {r1}
  MaxFetches = 2
  MaxBackoff = 0
  MaxExponent = 2
  MaxFailures = 0
  MaxAge = 0
  FetchTime = 0
  MaxFaults = 0
  MaxCrashes = 1
  MaxEdits = 0
INVARIANTS
  NoSilentGap
