CONSTANTS
    Terminals = {t1}
    Clerks = {a1}
    Scans = {s1, s2}
    Functions = {"reissue"}
    Policies = {"single_use", "same_day"}
    MaxDay = 1
    MaxTokens = 2
    None = None
SPECIFICATION Spec
PROPERTIES UsedStaysUsed
