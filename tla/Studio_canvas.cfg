SPECIFICATION StudioSpec
CONSTANTS
  s1 = s1
  s2 = s2
  c1 = c1
  CarouselIds = {k1, k2}
  Stories = {s1, s2}
  Ranked <- InThatOrder
  Cities = {c1}
  CityOf <- OneTown
  Intro = Intro
  Cta = Cta
  Blank = Blank
  None = None
  Requests = {r1, r2}
  MaxStories = 1
  MaxRequests = 3
  Asks = {"create", "add", "open", "delete", "zip"}
  MaxEdits = 1
  Lossy = TRUE
  Reloads = TRUE
SYMMETRY Interchangeable
INVARIANTS
  StudioTypeOK
  EvidenceComplete
  SavedHonest
PROPERTIES
  PicksSurvive
  StaysDownloaded
CHECK_DEADLOCK FALSE
