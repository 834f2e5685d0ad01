CONSTANTS
  c1 = c1  c2 = c2  c3 = c3  c4 = c4
  release = release  source = source
  Callers = {c1, c2, c3}
  Keys = {release, source}
  KeyOf <- TwoSources
  Nobody = Nobody
  Denied = {}
  Fragile = {c2}
  MaxRealizations = 1
  PathsOf <- OnePath
  Sources = {source}
  ObstacleAt <- FirstObstacle
  Discardable = {}
SPECIFICATION FairSpec
PROPERTY EveryRequestEnds
CHECK_DEADLOCK FALSE
