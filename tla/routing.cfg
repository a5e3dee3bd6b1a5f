SPECIFICATION MCSpec
CONSTANTS
    NoName = NoName
    NoAddress = NoAddress
    NoOrder = NoOrder
    Fake = Fake
    Public = Public
    Private = Private
    Own = Own
    Site = Site
    Printer = Printer
    MaxListed = 3
    MaxRules = 3
    Names <- MCNames
    LocalNames <- MCLocalNames
    Addresses <- MCAddresses
    LanRanges = {Private}
    Subnet = {Own}
    Requested <- MCRequested
    Width = 3
    MaxNetworks = 4
    MaxIntervals = 2
INVARIANTS
    TrafficFollowsPolicy
    LookupsAreSafe
    NothingSlipsPast
    AggregationIsExact
    KernelAgrees
