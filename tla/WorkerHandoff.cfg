CONSTANTS
    Modes = {"legacy", "modern"}
    Missing = {"ecmwf"}
    MaxRequests = 1
    MaxCrashes = 1
SPECIFICATION Spec
INVARIANTS
    UnactedIsUntouched
    ActsAlone
    StoppedIsOwned
PROPERTIES
    BoundaryOnly
CHECK_DEADLOCK FALSE
