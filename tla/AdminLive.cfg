SPECIFICATION LiveSpec
CONSTANTS
    Names = {n1, n2}
    Passwords = {w1}
    Sessions = {t1}
    Requests = {q1, q2}
INVARIANT AdminTypeOK
PROPERTIES SetupOnce LockoutEnds
