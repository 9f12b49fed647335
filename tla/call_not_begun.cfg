\* The first call ends before startCall has begun.
SPECIFICATION Spec
CONSTANTS
    c1 = c1
    P = P
    NoPolicy = NoPolicy
    NoCall = NoCall
    Posts = {post}
    Polls = {poll}
    Cancels = {cancel}
    GiveUps = {}
    Workers = {w1}
    Calls = {c1, c2}
    FirstCalls <- MCFirstCalls
    Heard = {"completed", "coming"}
    Policies <- MCPolicies
    Entry = P
    MaxHops = 2
    MaxEvents = 4
    Faults = {}
PROPERTIES RefusedOnlyAfterCalling
CHECK_DEADLOCK FALSE
