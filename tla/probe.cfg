SPECIFICATION ProbersSpec
CONSTANTS
    t1 = t1
    t2 = t2
    Targets <- TwoTargets
    Capacity = 2
    NoData = NoData
    SeqSpace = 6
    Lifetime = 2
    MaxIndex = 2
    NoConn = NoConn
    NoReply = NoReply
    RTTs = {1, 4}
    MaxSamples = 5
    Keys = {k1, k2, k3, k4}
    IdentSpace = 3
INVARIANTS
    CreditsOwnProbe
    OneSamplePerCycle
    StatisticsMatchHistory
    IdentsDistinct
PROPERTIES
    ProbesThroughInterface
    EndsWhenCancelled
    AllocatesWhenItFits
CHECK_DEADLOCK FALSE
