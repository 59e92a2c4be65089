SPECIFICATION MCSpec
CONSTANTS
  MaxLat = 8
  MaxLon = 7
  SampleLats <- Lats
  SampleLons <- Lons
  SampleCounts <- Counts
  LowIndices <- SomeIndices
  LevelLimit = 4
  CutsPerLevel = 2
  PerCut = 1
  LeafSide = 1
  MinSide = 1
  MaxSide = 2
  MaxSamples = 3
  SplitThreshold = 1
  Routes = {r1, r2}
  NoRoute = none
  Paths <- SomePaths
  MaxPaths = 3
  Reports <- SomeReports
  Near = 1
  Wide = 3
SYMMETRY Symmetry
INVARIANTS
  LeavesTileGlobe
  QueryFindsFiles
  PathsFound
PROPERTY IndexKeepsRoutes
CHECK_DEADLOCK FALSE
