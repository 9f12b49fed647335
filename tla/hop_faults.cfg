\* Two webhook deliveries at a time, every fault, writes in one millisecond.
SPECIFICATION Spec
CONSTANTS
    c1 = c1
    P = P
    Q = Q
    NoPolicy = NoPolicy
    NoCall = NoCall
    Workers = {w1, w2}
    Calls = {c1, c2, c3}
    FirstCalls <- MCFirstCalls
    Heard = {"answered", "completed", "coming"}
    Policies <- MCPolicies
    Entry = P
    MaxHops = 2
    MaxEvents = 3
    ReceptionStates <- MCReceptionStates
    Faults = {"unwired", "reserve", "dial", "unreached", "create", "repoint", "save"}
    ClockTicks = FALSE
SYMMETRY Symmetry
INVARIANTS OneChild AcceptedStops ChainCarries DialsBounded
PROPERTIES SettledStays
CHECK_DEADLOCK FALSE
