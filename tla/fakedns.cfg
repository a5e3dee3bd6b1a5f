SPECIFICATION FairSpec
CONSTANTS
    d1 = d1
    d2 = d2
    r1 = r1
    r2 = r2
    lan = lan
    Domains = {d1, d2}
    Reals = {r1, r2, lan}
    LanReals = {lan}
    NoLease = NoLease
    NoReal = NoReal
    Nobody = Nobody
    MinTtl = 1
    MaxTtl = 2
    Zone <- MCPairZone
    Policies <- MCPolicies
    Workers = {w1}
    PoolSize = 2
    MaxLeases = 1
    Ttls = {0}
    Margin = 0
    Grace = 1
    MaxTime = 3
    MaxFaults = 2
INVARIANTS
    LiveFakesAreKept
    ForwardingIsExact
    ToldFakesLead
PROPERTIES
    ExpiredLeasesGo
    RequestsAreAnswered
