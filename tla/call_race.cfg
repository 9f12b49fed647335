\* A cancellation against the whole call; two webhook deliveries at a time.
SPECIFICATION Spec
CONSTANTS
    c1 = c1
    P = P
    NoPolicy = NoPolicy
    NoCall = NoCall
    Posts = {post}
    Polls = {poll}
    Cancels = {cancel}
    GiveUps = {}
    Workers = {w1, w2}
    Calls = {c1, c2, c3}
    FirstCalls <- MCFirstCalls
    Heard = {"completed", "coming"}
    Policies <- MCPolicies
    Entry = P
    MaxHops = 2
    MaxEvents = 2
    Faults = {}
SYMMETRY Symmetry
INVARIANTS ConnectedIsAnswered PointsAtRecord OneRinging
PROPERTIES HopSpec
CHECK_DEADLOCK FALSE
