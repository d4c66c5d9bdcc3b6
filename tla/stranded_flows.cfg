SPECIFICATION FlowsSpec
CONSTANTS
    w1 = w1
    w2 = w2
    i1 = i1
    i2 = i2
    g1 = g1
    g2 = g2
    gwA = gwA
    gwB = gwB
    Wans = {w1, w2}
    Groups = {g1}
    Ifaces = {i1, i2}
    Families = {"v4"}
    Interface <- OwnIface
    PointToPoint <- None
    Probed <- AllFamilies
    FamilyPolicyAny <- None
    Thresholds <- AllBands
    ConsecutiveUp <- One
    ConsecutiveDown <- One
    Members <- AllMembers
    Priority <- FirstPreferred
    NameRank <- TwoRanks
    NoActive = NoActive
    NoPending = NoPending
    NoData = NoData
    Gateways = {gwA, gwB}
    Defaults <- OneHop
    NoEntry = NoEntry
    ScopeLink = ScopeLink
    NoRoute = NoRoute
    Removed = Removed
    NoHook = NoHook
    NoLink = NoLink
    LinkStates <- UpDown
    Stats <- Filling
    StateWriteFails = FALSE
    MaxDecisions = 3
INVARIANT
    NoStrandedFlows
