SPECIFICATION OperationsSpec
CONSTANTS
    d1 = d1
    d2 = d2
    d3 = d3
    d4 = d4
    Digests = {d1, d2, d3, d4}
    r1 = r1
    r2 = r2
    r3 = r3
    Releases = {r1, r2, r3}
    Scripts <- AllScripts
    Calls = {c1, c2}
    MaxSecond = 3
    Keep = 1
INVARIANTS OperationsTypeOK ServesVerified SuccessIsASnapshot
PROPERTIES KeepsTheNewest ComesUp
