CONSTANTS
    a1 = a1
    a2 = a2
    t1 = t1
    r1 = r1
    None = None
    Attempts <- MCAttempts
    Tasks <- MCTasks
    TaskOf <- MCTaskOf
    Forking = TRUE
    MaxFaults = 2
    Readers = {r1}
SPECIFICATION InspectionSpec
INVARIANT VerdictIsLast
CHECK_DEADLOCK FALSE
