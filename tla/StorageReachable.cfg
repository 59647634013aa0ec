SPECIFICATION PlacementSpec
CONSTANTS
  MaxBuild = 3
  MaxChanges = 3
  BuildDate <- ThreeBuilds
  Callers = {"sync", "cleanup", "download"}
  Saves = {a1}
INVARIANT CurrentIsReachable
CONSTRAINT TwoAtATime
