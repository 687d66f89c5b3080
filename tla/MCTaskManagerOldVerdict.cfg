CONSTANTS
    t1 = t1
    t2 = t2
    Tasks <- MCOne
    Confirm <- MCNone
    MaxConcurrent = 1
    Faulty = TRUE
    SlowStart = FALSE
    MaxAttempts = 2
    MaxTokens = 3
    MaxReboots = 1
    MaxGlitches = 0
SPECIFICATION Spec
INVARIANTS
    VerdictOfOwnAttempt
CHECK_DEADLOCK FALSE
