\* Every fault; no webhook has to arrive, the kiosk may give up.
SPECIFICATION FairSpec
CONSTANTS
    c1 = c1
    P = P
    NoPolicy = NoPolicy
    NoCall = NoCall
    Posts = {post}
    Polls = {poll}
    Cancels = {}
    GiveUps = {giveup}
    Workers = {w1}
    Calls = {c1, c2}
    FirstCalls <- MCFirstCalls
    Heard = {"completed", "coming"}
    Policies <- MCPolicies
    Entry = P
    MaxHops = 2
    MaxEvents = 4
    Faults = {"dial", "create", "repoint", "unwired", "reserve", "unreached", "save"}

PROPERTIES CallEnds EndedIsFiled
CHECK_DEADLOCK FALSE
