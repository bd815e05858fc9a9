SPECIFICATION FairStudioSpec
CONSTANTS
  s1 = s1
  s2 = s2
  c1 = c1
  CarouselIds = {k1}
  Stories = {s1}
  Ranked <- InThatOrder
  Cities = {c1}
  CityOf <- OneTown
  Intro = Intro
  Cta = Cta
  Blank = Blank
  None = None
  Requests = {r1}
  MaxStories = 1
  MaxRequests = 5
  Asks = {"create", "add", "open", "delete", "zip"}
  MaxEdits = 2
  Lossy = FALSE
  Reloads = FALSE
PROPERTIES
  Autosaved
CHECK_DEADLOCK FALSE
