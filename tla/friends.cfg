SPECIFICATION Spec
CONSTANTS
    k1 = k1
    k2 = k2
    n1 = n1
    Keys = {k1, k2}
    Names = {n1, n2}
    NoName = NoName
    NoKey = NoKey
    MaxIp = 2
    Legacy <- MCStart
    MaxFaults = 2
INVARIANTS
    RoutersAreNoFriends
    RemovedStaysOut
    WarpSourcesAreGuarded
PROPERTIES
    OthersKeepTheirRoutes
    ReportsAreTrue
