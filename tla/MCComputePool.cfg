CONSTANTS
    a1 = a1
    a2 = a2
    a3 = a3
    t1 = t1
    t2 = t2
    None = None
    Attempts <- MCAttempts
    Tasks <- MCTasks
    TaskOf <- MCTaskOf
    Forking = FALSE
    MaxFaults = 0
    Pooled <- MCAttempts
    Cpus <- MCCpus
    Headroom = 2
    Need <- MCNeed
    MaxTasks = 2
SPECIFICATION PoolFairSpec
INVARIANTS
    CpuExclusive
PROPERTIES
    ReservationsReturn
CHECK_DEADLOCK FALSE
