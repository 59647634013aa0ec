SPECIFICATION CacheSpecWithoutRollback
CONSTANTS
  MaxBuild = 3
  BuildDate <- ThreeBuilds
  Products = {p1}
  Syncers = {s1, s2}
  Cleaners = {c1, c2}
  Clients = {}
  Readers = {r1, r2}
SYMMETRY Permute
INVARIANTS CacheTypeOK StaleOnlyWhenOvertaken SupersededStaysBehind CurrentIsKept
