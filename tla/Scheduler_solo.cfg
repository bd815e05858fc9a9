SPECIFICATION FairSpec
CONSTANTS
  s1 = s1
  s2 = s2
  u1 = u1
  u2 = u2
  u3 = u3
  x1 = x1
  x2 = x2
  x3 = x3
  c1 = c1
  r1 = r1
  r2 = r2
  Sources = {s1, s2}
  CityOf <- OneCity
  Urls = {u1, u2}
  UrlsOf <- OwnUrl
  Intervals <- IntervalTwo
  Stories = {x1, x2, x3}
  Entries <- SharedEntries
  MaxVersion = 1
  MaxAges = {0, 4, 10}
  ColumnMax = 9
  Outcomes = {"error", "junk", "body"}
  None = None
  Tick = tick
  Requests = {}
  MaxFetches = 2
  MaxBackoff = 3
  MaxExponent = 2
  MaxFailures = 1
  MaxAge = 4
  FetchTime = 1
  MaxFaults = 0
  MaxCrashes = 0
  MaxEdits = 0
INVARIANTS
  HistoryConsistent
PROPERTIES
  SpacingRespected
  DueIsPolled
