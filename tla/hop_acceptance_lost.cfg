\* The staff member's answer against another event of the same call.
SPECIFICATION Spec
CONSTANTS
    c1 = c1
    P = P
    Q = Q
    NoPolicy = NoPolicy
    NoCall = NoCall
    Workers = {w1, w2}
    Calls = {c1, c2, c3}
    FirstCalls <- MCFirstCalls
    Heard = {"completed", "coming"}
    Policies <- MCPolicies
    Entry = P
    MaxHops = 2
    MaxEvents = 4
    ReceptionStates <- MCReceptionStates
    Faults = {}
    ClockTicks = TRUE
SYMMETRY Symmetry
PROPERTIES AcceptanceKept
