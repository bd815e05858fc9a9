SPECIFICATION Spec
CONSTANTS
  a1 = a1
  a2 = a2
  b1 = b1
  slugA = slugA
  slugB = slugB
  CityIds = {c1, c2}
  Sources = {s1, s2}
  Names = {a1, a2, b1}
  SlugOf <- TwoSpellings
  None = None
  Requests = {r1, r2}
  Operations = {"add", "archive", "unarchive", "update", "retire"}
  Cap = 1
SYMMETRY Interchangeable
INVARIANTS
  TypeOK
  SlugsUnique
  NoBareCity
PROPERTIES
  RevivedByUnarchive
