SPECIFICATION Spec
CONSTANTS
    Newest = 3
    MaxFaults = 1
    LateSignals = FALSE
    EarlyUpdates = FALSE
INVARIANTS
    GuardLinksLead
CHECK_DEADLOCK FALSE
