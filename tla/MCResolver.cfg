CONSTANTS
  c1 = c1  c2 = c2  c3 = c3  c4 = c4
  release = release  source = source
  Callers = {c1, c2, c3, c4}
  Keys = {release, source}
  KeyOf <- Requests
  Nobody = Nobody
  Denied = {c4}
  Fragile = {}
  MaxRealizations = 1
  PathsOf <- Sizes
  Sources = {source}
  ObstacleAt <- OneObstacle
  Discardable = {c3}
SPECIFICATION Spec
INVARIANTS PermitsAroundCommands RootedOnSuccess ReleaseFromItsCache SelectionIsNotLent FailureLeavesNoRoot
CHECK_DEADLOCK FALSE
