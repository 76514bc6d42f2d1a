SPECIFICATION GroupSpec
CONSTANTS
  Names = {"lat", "lon", "g"}
  Lat = "lat"
  Lon = "lon"
  Worlds <- MCWorlds
  OpenPaths <- MCOpenPaths
  Datasets <- MCDatasets
  NoGroup = NoGroup
  NoDataset = NoDataset
  NoEntry = NoEntry
  Unreadable = Unreadable
  NaN = NaN
  Infinity = 9
INVARIANTS
  GridTypeOK
  AnswersAreTheStores
  GridIsOwn
  FailuresHaveCause
  NearestExact
CHECK_DEADLOCK FALSE
