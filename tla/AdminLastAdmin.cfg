SPECIFICATION Spec
CONSTANTS
    Names = {n1, n2}
    Passwords = {w1}
    Sessions = {t1, t2}
    Requests = {q1, q2}
SYMMETRY AnyoneAlike
INVARIANT ActiveAdminRemains
