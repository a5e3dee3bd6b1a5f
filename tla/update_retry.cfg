SPECIFICATION Spec
CONSTANTS
    Newest = 2
    MaxFaults = 1
    LateSignals = FALSE
    EarlyUpdates = FALSE
INVARIANTS
    NoOrphanSnapshot
CHECK_DEADLOCK FALSE
