\* Every sequence of at most four events.
CONSTANT MaxEvents = 4
SPECIFICATION VoiceSpec
CHECK_DEADLOCK FALSE
INVARIANTS FirstDecisionStands
