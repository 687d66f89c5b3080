CONSTANTS
    t1 = t1
    t2 = t2
    Tasks <- MCOne
    Confirm <- MCNone
    MaxConcurrent = 1
    Faulty = TRUE
    SlowStart = TRUE
    MaxAttempts = 1
    MaxTokens = 2
    MaxReboots = 1
    MaxGlitches = 0
SPECIFICATION FairSpec
PROPERTIES
    CancelSettles
CHECK_DEADLOCK FALSE
