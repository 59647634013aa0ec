SPECIFICATION PlacementSpec
CONSTANTS
  MaxBuild = 3
  MaxChanges = 3
  BuildDate <- ThreeBuilds
  Callers = {"sync", "cleanup", "download"}
  Saves = {a1}
INVARIANTS PlacementTypeOK RowsArePlaced ServedIsPlaced OnlyExpiredIsNotFound
PROPERTIES ImplementsStore LeftOnlyWhenNotActive
CONSTRAINT TwoAtATime
