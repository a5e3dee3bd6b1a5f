SPECIFICATION FairSpec
CONSTANTS
    Keys = {k1}
    Endpoints = {e1}
    Creds = {}
    Routings = {r1}
    Macs = {m1}
    MaxExclusions = 1
    NoKey = NoKey
    NoCred = NoCred
    NoServer = NoServer
    NoConfig = NoConfig
    NoTable = NoTable
    NoGuard = NoGuard
    NoRouting = NoRouting
    Torn = Torn
    Closed = Closed
    DefaultConfig <- MCDefault
PROPERTIES
    LockIsReleased
