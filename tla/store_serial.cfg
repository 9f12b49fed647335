\* All functions, one after the other.
CONSTANTS
    Requests = {r1, r2, r3, r4, r5}
    Functions = {"start", "cancel", "complete", "connected", "timeout", "failed", "respond", "repoint", "fallback", "feedback"}
    Calls = {c1}
    NoCall = NoCall
    StartAlone = TRUE
    Failing = FALSE
SPECIFICATION SerialSpec
SYMMETRY Symmetry
CHECK_DEADLOCK FALSE
INVARIANTS HistoryMatches
PROPERTIES KeepsPromise
