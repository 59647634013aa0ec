SPECIFICATION Spec
CONSTANTS
  MaxBuild = 2
  BuildDate <- TwoDays
  Products = {p1}
  Syncers = {s1}
  Cleaners = {c1}
  Clients = {}
INVARIANTS CurrentIsKept
