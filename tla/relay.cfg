SPECIFICATION FairSpec
CONSTANTS
    Clients = {c1, c2}
    Sources = {s1, s2}
    NoSource = NoSource
    MaxClients = 1
    Idle = 2
    MaxWorkers = 3
    MaxFaults = 1
INVARIANTS
    SessionsAreSound
PROPERTIES
    RecentSessionsStay
    ServiceGoesOn
