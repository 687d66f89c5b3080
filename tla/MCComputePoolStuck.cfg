CONSTANTS
    a1 = a1
    a2 = a2
    a3 = a3
    t1 = t1
    t2 = t2
    None = None
    Attempts <- MCPair
    Tasks <- MCTasks
    TaskOf <- MCPairTaskOf
    Forking = TRUE
    MaxFaults = 0
    Pooled <- MCPair
    Cpus <- MCCpus
    Headroom = 2
    Need <- MCPairNeed
    MaxTasks = 1
SPECIFICATION PoolFairSpec
PROPERTIES
    CancelCompletesAfterExit
CHECK_DEADLOCK FALSE
