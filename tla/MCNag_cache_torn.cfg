SPECIFICATION Spec
CONSTANTS
  NumPaths = 1
  StartPage <- PageStartPage
  EndPage <- PageEndPage
  MetaPage = 1
  PointsPerPage = 2
  Read_MaxSize = 4
  Yaws = {y1}
  Blank = Blank
  Fix = Fix
  CacheWords = 2
  Nag_Set_mileage = 2
  TickSteps <- MCTickSteps
  MaxMileage = 2
  MaxGnssSaves = 1
  MaxPowerLosses = 1
INVARIANTS
  CacheIsComplete
