CONSTANTS
    Receptions = {r1}
    StayIds = {s1, s2}
    Requests = {p1, p2}
    Codes = {k1, k2}
    MaxTime = 2
    MaxCredentials = 2
    Ttl = 1
    Window = 2
    ThrottleMax = 2
    None = None
SPECIFICATION Spec
SYMMETRY Symmetry
INVARIANTS CodeWorks
