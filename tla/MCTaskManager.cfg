CONSTANTS
    t1 = t1
    t2 = t2
    Tasks <- MCOne
    Confirm <- MCNone
    MaxConcurrent = 1
    Faulty = TRUE
    SlowStart = TRUE
    MaxAttempts = 2
    MaxTokens = 3
    MaxReboots = 1
    MaxGlitches = 1
SPECIFICATION Spec
INVARIANTS
    EveryLaunchIsOnRecord
    OneTokenPerAttempt
    SuccessIsComputed
    CancelledIsDead
CHECK_DEADLOCK FALSE
