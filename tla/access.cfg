SPECIFICATION Spec
CONSTANTS
    Requests = {r1, r2}
    Origins = {o1}
    Global = global
    Anonymous = TRUE
    Budget <- BudgetOne
    Window = 2
    Skew = 1
    CasRetries = 2
    MaxTime = 2
    MaxTokens = 2
    MaxGeneration = 3
    None = none
SYMMETRY Symmetry
INVARIANTS WindowBudget WindowsApart EnrolledOnce AcceptedIsLatest
PROPERTIES RefusedForCause LinksStop
CHECK_DEADLOCK FALSE
