SPECIFICATION LiveSpec
CONSTANTS
    Newest = 3
    MaxFaults = 5
    LateSignals = FALSE
    EarlyUpdates = FALSE
INVARIANTS
    WholeRelease
    RecoveryIsPossible
PROPERTIES
    ImplementsInstalled
    JournalsEnd
CHECK_DEADLOCK FALSE
