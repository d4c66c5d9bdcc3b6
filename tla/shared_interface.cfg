SPECIFICATION Spec
CONSTANTS
    w1 = w1
    w2 = w2
    i1 = i1
    i2 = i2
    g1 = g1
    g2 = g2
    gwA = gwA
    gwB = gwB
    Wans = {w1, w2}
    Groups = {g1, g2}
    Ifaces = {i1}
    Families = {"v4"}
    Interface <- SameIface
    PointToPoint <- AllPtp
    Probed <- AllFamilies
    FamilyPolicyAny <- None
    Thresholds <- AllBands
    ConsecutiveUp <- One
    ConsecutiveDown <- One
    Members <- SecondOnlyW2
    Priority <- OppositePriorities
    NameRank <- TwoRanks
    NoActive = NoActive
    NoPending = NoPending
    NoData = NoData
    Gateways = {gwA, gwB}
    Defaults <- NoHops
    NoEntry = NoEntry
    ScopeLink = ScopeLink
    NoRoute = NoRoute
    Removed = Removed
    NoHook = NoHook
    NoLink = NoLink
    LinkStates <- UpDown
    Stats <- Healed
    StateWriteFails = TRUE
    MaxDecisions = 2
INVARIANTS
    IntentFollowsHealth
    StateFileCurrent
