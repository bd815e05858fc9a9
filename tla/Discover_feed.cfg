SPECIFICATION FairSpec
CONSTANTS
  c1 = c1
  c2 = c2
  Stories = {1, 2, 3, 4, 5}
  Cities = {c1, c2}
  NoCity = NoCity
  CityOf <- TwoTowns
  Published <- Dates
  Start <- Rows
  Remembered <- FirstVisitOrSecond
  Levels <- Judgings
  Locals = {1, 2, 4, 5}
  PageSize = 2
  MaxEvents = 3
INVARIANTS
  TypeOK
  ShownCity
  NoGap
  EndMeansEnd
  StrongFirst
PROPERTIES
  Settles
  ButtonReturns
CHECK_DEADLOCK FALSE
