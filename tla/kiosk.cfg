\* Two visitors, one lost or late request.
CONSTANTS
    Visits = 2
    MaxFaults = 1
    MaxPolls = 1
    None = None
SPECIFICATION FairSpec
CHECK_DEADLOCK FALSE
INVARIANTS OwnVisitor IdleIsBlank ScreenTellsTruth
PROPERTIES BackToIdle
