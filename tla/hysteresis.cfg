SPECIFICATION Spec
CONSTANTS
    w1 = w1
    w2 = w2
    i1 = i1
    Wans = {w1, w2}
    Groups = {g}
    Ifaces = {i1}
    Families = {"v4", "v6"}
    Interface <- SameIface
    PointToPoint <- None
    Probed <- FirstBothFamilies
    FamilyPolicyAny <- FirstAny
    Thresholds <- AllBands
    ConsecutiveUp <- Ups
    ConsecutiveDown <- Downs
    Members <- OneGroup
    Priority <- OnePriority
    NameRank <- Ranks
    NoData = NoData
    LinkStates <- LinkEdges
    Stats <- Edges
    MaxResults <- MostlyFirst
INVARIANTS
    HealthMatchesHistory
PROPERTIES
    BetweenBandsHolds
