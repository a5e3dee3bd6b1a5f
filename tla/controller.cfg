SPECIFICATION Spec
CONSTANTS
    Keys = {k1, k2}
    Endpoints = {e1}
    Creds = {}
    Routings = {r1, r2}
    Macs = {m1, m2}
    MaxExclusions = 1
    NoKey = NoKey
    NoCred = NoCred
    NoServer = NoServer
    NoConfig = NoConfig
    NoTable = NoTable
    NoGuard = NoGuard
    NoRouting = NoRouting
    Torn = Torn
    Closed = Closed
    DefaultConfig <- MCDefault
SYMMETRY Symmetry
INVARIANTS
    IInv
    UnguardedMeansEnforced
    ExemptDevicesSeeCommittedPolicy
    NoPinnedDnsFlows
    IdleMeansCoherent
PROPERTIES
    AnswersTellTheTruth
    ImplementsGateway
