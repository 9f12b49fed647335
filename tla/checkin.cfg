\* Two chains of requests of one terminal against an administrator who reissues the code.
CONSTANTS
    Terminals = {t1}
    Clerks = {a1}
    Scans = {s1, s2}
    Functions = {"reissue"}
    Policies = {"single_use"}
    MaxDay = 1
    MaxTokens = 2
    None = None
SPECIFICATION FairSpec
INVARIANTS CompletedIsAnswered
PROPERTIES UsedIsRefused OnlyEditsRevive CallingEnds
