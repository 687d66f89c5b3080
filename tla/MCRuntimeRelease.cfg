CONSTANTS
    Releases = {r1, r2}
    Transactions = {t1, t2}
    Tasks = {k1}
    Requests <- MCRequests
    Processes = 4
    MaxFaults = 2
    MaxDamage = 1
    None = None
SPECIFICATION Spec
INVARIANTS
    CurrentIsComplete
    PinnedIsServed
    ThinStaysBound
    AdmittedRunFits
SYMMETRY MCSymmetry
CHECK_DEADLOCK FALSE
