CONSTANTS
    Prompts <- Turns
    Gen = 2
    MinPrefix = 1
    Budget = 3
    BurstT = 2
    K = 1
    MaxCtx = 14
    Configs <- WithErrors
    MaxTurns = 3
SPECIFICATION Spec
CHECK_DEADLOCK FALSE
INVARIANT ParkedExact
