SPECIFICATION SubscribersSpec
CONSTANTS
    i1 = i1
    i2 = i2
    x1 = x1
    x2 = x2
    x3 = x3
    gwA = gwA
    gwB = gwB
    Ifaces = {i1, i2}
    Watched = {i1, i2}
    Indexes = {x1, x2, x3}
    StartNames <- TwoLinks
    Absent = Absent
    Families = {"v4"}
    Routes <- Single
    NoEntry = NoEntry
    NoRoute = NoRoute
    DumpAttempts = 2
    OutCapacity = 1
    Backlog = 2
    MidDelete = TRUE
    MaxChanges = 3
    Links <- UpDown
    Missing = Missing
    NoReport = NoReport
    SocketCapacity = 2
    UpdateBuffer = 1
    MaxLinkChanges = 3
INVARIANTS
    CacheAgrees
CHECK_DEADLOCK FALSE
