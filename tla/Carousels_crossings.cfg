SPECIFICATION CrossSpec
CONSTANTS
  s1 = s1
  s2 = s2
  s3 = s3
  c1 = c1
  c2 = c2
  CarouselIds = {k1}
  Stories = {s1}
  Ranked <- InThatOrder
  Cities = {c1}
  CityOf <- TwoCities
  Intro = Intro
  Cta = Cta
  Blank = Blank
  None = None
  Requests = {r1, r2}
  MaxStories = 2
  MaxRequests = 4
SYMMETRY Interchangeable
INVARIANTS
  UncrossedFits
  UncrossedOnce
PROPERTIES
  SaveRepairs
CHECK_DEADLOCK FALSE
