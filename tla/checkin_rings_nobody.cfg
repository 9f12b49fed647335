CONSTANTS
    Terminals = {t1}
    Clerks = {a1}
    Scans = {s1, s2}
    Functions = {}
    Policies = {"single_use", "same_day"}
    MaxDay = 1
    MaxTokens = 1
    None = None
SPECIFICATION Spec
INVARIANTS RingsForSomebody
