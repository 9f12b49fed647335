CONSTANTS
    Visits = 2
    MaxFaults = 1
    MaxPolls = 1
    None = None
SPECIFICATION Spec
CHECK_DEADLOCK FALSE
PROPERTIES RingsForSomebody
