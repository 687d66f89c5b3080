CONSTANTS
    p1 = p1
    p2 = p2
    a1 = a1
    a2 = a2
    i1 = i1
    i2 = i2
    j1 = j1
    k1 = k1
    None = None
    Plans <- MCOne
    Owner <- MCOwner
    Inodes <- MCInodes
    Versions = {1}
    Failures = {1}
    MaxAttempts = 2
    MaxQueue = 1
    MaxReboots = 1
SYMMETRY MCSymmetryOne
SPECIFICATION Spec
INVARIANTS
    LiveProductHasFiles
PROPERTIES
    NoRecoveryUnderDeletion
    OneRecoveryPerState
CHECK_DEADLOCK FALSE
