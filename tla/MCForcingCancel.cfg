CONSTANTS
    o1 = o1
    t1 = t1
    admin = admin
    None = None
    Ops <- MCOps
    Cycles <- MCCycles
    Latest <- MCLatest
    Stored <- MCStored
    Holdable <- MCHoldable
    CycleOf <- MCCycleOf
    Tasks <- MCTasks
    Covers <- MCCovers
    Plans <- MCTwoPlans
    Actors <- MCActors
    Approved = TRUE
    Retain = 1
    MaxQueue = 2
    MaxInodes = 2
    MaxPatches = 1
    MaxLate = 1
    MaxReboots = 1
SPECIFICATION Spec
PROPERTIES
    CancelBeatsReady
CHECK_DEADLOCK FALSE
