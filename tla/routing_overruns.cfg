\* Stored routings against the time the kiosk waits.
CONSTANTS
    NoPolicy = NoPolicy
    PolicySets <- MCPolicySets
    Entry = "first"
    Results = {"no_answer", "declined", "staff_coming"}
    MaxHops = 5
    Margin = 1
    ClientWait = 10
SPECIFICATION Spec
CHECK_DEADLOCK FALSE
INVARIANTS FitsClientWait
