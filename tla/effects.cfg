SPECIFICATION EffectsSpec
CONSTANTS
    QueueCapacity = 2
    MaxHooks = 2
    MaxFiles = 3
    MaxEvents = 3
    a4 = a4
    a6 = a6
    ll = ll
    other = other
    e1 = e1
    e2 = e2
    e3 = e3
    e4 = e4
    Entries = {e1, e2, e3, e4}
    IfaceAddrs <- TwoGlobal
    NotGlobal = {ll}
    FamilyOf <- AddrFamily
    ReplyDst <- Destination
    EntryFamily <- FlowFamily
    DumpAttempts = 2
    Groups = {g1}
    Families = {"v4", "v6"}
    MaxPref = 3
    MaxWrites = 3
    NoFile = NoFile
INVARIANTS
    QueueIsSound
    KillReachesGroup
    FlushIsExact
    OneRuleEach
    ReplacedAtomically
PROPERTIES
    HooksNeverBlock
    RulesUndisturbed
CHECK_DEADLOCK FALSE
