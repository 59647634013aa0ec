SPECIFICATION Spec
CONSTANTS
  MaxBuild = 3
  BuildDate <- ThreeBuilds
  Products = {p1}
  Syncers = {s1, s2}
  Cleaners = {c1, c2}
  Clients = {k1}
INVARIANTS TypeOK Inv AtMostOneCurrent SupersededIsScheduled ArtifactsAreWhole ServedIsRequested
PROPERTIES PublishNeverRegresses SkipIsSound
SYMMETRY Permute
