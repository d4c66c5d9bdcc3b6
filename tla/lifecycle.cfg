SPECIFICATION Spec
CONSTANTS
    Probers = {p1, p2}
    MaxStarts = 3
    NoCause = NoCause
INVARIANTS
    ExitCodeTellsWhy
PROPERTIES
    BlindDaemonReplaced
    StuckDaemonReplaced
    StopCompletes
    MetricsServedAgain
CHECK_DEADLOCK FALSE
