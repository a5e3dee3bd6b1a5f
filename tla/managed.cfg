SPECIFICATION Spec
CONSTANTS
    Hosts = {h1}
    HostKeys = {k1, k2}
    Peers = {p1, p2}
    NoKey = NoKey
    NoPeer = NoPeer
    Legacy = {h1}
    MaxLate = 1
    MaxFaults = 3
SYMMETRY Symmetry
INVARIANTS
    TrustIsDurable
    EnrolledKeepsAccess
PROPERTIES
    FirstKeyStays
    AnswersAreTrue
CHECK_DEADLOCK FALSE
