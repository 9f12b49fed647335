\* The staff response against the timeout.
CONSTANTS
    Requests = {r1, r2, r3}
    Functions = {"start", "timeout", "respond"}
    Calls = {c1, c2}
    NoCall = NoCall
    StartAlone = TRUE
    Failing = FALSE
SPECIFICATION Spec
SYMMETRY Symmetry
CHECK_DEADLOCK FALSE
PROPERTIES StateFollowsTable
