\* Loop and resumable routing over every small policy set.
CONSTANTS
    NoPolicy = NoPolicy
    PolicySets <- MCPolicySets
    Entry = "first"
    Results = {"no_answer", "declined", "staff_coming"}
    MaxHops = 3
    Margin = 1
    ClientWait = 10
SPECIFICATION FairSpec
CHECK_DEADLOCK FALSE
INVARIANTS SameRoute
PROPERTIES Terminates
