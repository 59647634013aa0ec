SPECIFICATION SchedulingSpec
CONSTANTS
  MaxBuild = 2
  BuildDate <- TwoDays
  Products = {p1}
  Syncers = {s1}
  Cleaners = {c1}
  Clients = {}
  ScheduledSync = s1
  ScheduledCleanup = c1
INVARIANT SchedulingTypeOK
PROPERTIES TicksAreTaken AgainFresh ExpiredIsPurged
