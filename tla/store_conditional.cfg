\* The conditional writers, interleaved, and failing half way.
CONSTANTS
    Requests = {r1, r2, r3, r4}
    Functions = {"start", "timeout", "failed", "repoint"}
    Calls = {c1, c2}
    NoCall = NoCall
    StartAlone = TRUE
    Failing = TRUE
SPECIFICATION Spec
SYMMETRY Symmetry
CHECK_DEADLOCK FALSE
INVARIANTS TypeOK HistoryOnce HistoryTruthful RepointSticks
PROPERTIES StateFollowsTable KeepsPromise
