SPECIFICATION CacheLiveSpec
CONSTANTS
    MaxBuild = 2
    BuildDate <- TwoDays
    Products = {p1}
    Syncers = {s1}
    Cleaners = {}
    Clients = {k1}
    Readers = {r1}
PROPERTY ManifestConverges
