CONSTANTS
    MaxMsgs = 3
    MaxSessions = 3
SPECIFICATION Spec
CHECK_DEADLOCK FALSE
INVARIANTS
    RestartLimitEnforced
