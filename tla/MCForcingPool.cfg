SPECIFICATION Spec
CONSTANTS
    new = new
    old = old
    f1 = f1
    f2 = f2
    g1 = g1
    r1 = r1
    None = None
    Cycles = {new, old}
    Files = {f1, f2, g1}
    Refs = {r1}
    CycleOf <- MCCycleOf
    Rank <- MCRank
    Requests <- MCRequests
    MaxAttempts = 1
    MaxFaults = 1
INVARIANTS
    OneWriter
    QuarantineSparesClaims
    ReadyIsOnDisk
    ManifestIsComplete
    DownloadingIsAttended
PROPERTIES
    ReferencesKept
