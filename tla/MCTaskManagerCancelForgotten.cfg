CONSTANTS
    t1 = t1
    t2 = t2
    Tasks <- MCOne
    Confirm <- MCNone
    MaxConcurrent = 1
    Faulty = FALSE
    SlowStart = FALSE
    MaxAttempts = 1
    MaxTokens = 1
    MaxReboots = 1
    MaxGlitches = 0
SPECIFICATION Spec
PROPERTIES
    CancelSurvives
CHECK_DEADLOCK FALSE
