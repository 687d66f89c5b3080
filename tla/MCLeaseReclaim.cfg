CONSTANTS
    a1 = a1
    a2 = a2
    a3 = a3
    t1 = t1
    t2 = t2
    None = None
    Attempts <- MCAttempts
    Tasks <- MCTasks
    TaskOf <- MCTaskOf
    Forking = TRUE
    MaxFaults = 1
    Pooled <- MCOnlyA1
    Cpus <- MCCpus
    Headroom = 2
    Need <- MCNeed
    MaxTasks = 2
    LateDeaths = FALSE
SPECIFICATION ReclaimSpec
INVARIANTS
    OneLeasedCommand
    ActiveHoldsReservation
    HeldHasItsRoot
CONSTRAINTS OneCancel OneAnswers
CHECK_DEADLOCK FALSE
