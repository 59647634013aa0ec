SPECIFICATION LiveSpec
CONSTANTS
    Products = {p1}
    Versions = {v1, v2}
    Keys = {k1}
    Tokens = {t1}
    Requests = {q1, q2}
    Limit = 1
INVARIANTS ClientTypeOK SlotsAreHeld TokenScopeHolds
PROPERTY RevokedKeyDrains
