SPECIFICATION FairSpec
CONSTANTS
  NumPaths = 2
  StartPage <- TwoStartPage
  EndPage <- TwoEndPage
  MetaPage = 1
  PointsPerPage = 1
  Read_MaxSize = 2
  Yaws = {y1}
  Blank = Blank
  Fix = Fix
  CacheWords = 1
  Nag_Set_mileage = 2
  TickSteps <- MCTickSteps
  MaxMileage = 2
  MaxGnssSaves = 0
  MaxPowerLosses = 1
PROPERTIES
  OtherPathsUntouched
  SaveCompletes
  PreloadCompletes
