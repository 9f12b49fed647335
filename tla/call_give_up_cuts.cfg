\* The kiosk gives up while a member of staff answers.
SPECIFICATION Spec
CONSTANTS
    c1 = c1
    P = P
    NoPolicy = NoPolicy
    NoCall = NoCall
    Posts = {post}
    Polls = {poll}
    Cancels = {}
    GiveUps = {giveup}
    Workers = {w1}
    Calls = {c1, c2}
    FirstCalls <- MCFirstCalls
    Heard = {"completed", "coming"}
    Policies <- MCPolicies
    Entry = P
    MaxHops = 2
    MaxEvents = 4
    Faults = {}
PROPERTIES GiveUpSparesConnected
CHECK_DEADLOCK FALSE
