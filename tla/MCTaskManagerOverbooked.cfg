CONSTANTS
    t1 = t1
    t2 = t2
    Tasks <- MCTwo
    Confirm <- MCNone
    MaxConcurrent = 1
    Faulty = FALSE
    SlowStart = FALSE
    MaxAttempts = 1
    MaxTokens = 1
    MaxReboots = 0
    MaxGlitches = 1
SPECIFICATION Spec
PROPERTIES
    LaunchWithinCapacity
CHECK_DEADLOCK FALSE
