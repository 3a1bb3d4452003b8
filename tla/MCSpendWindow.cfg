CONSTANTS
    MAX_WINDOW_ENTRIES = 2
    I128_MAX = 6
    U32_MAX = 6
    WindowSecs = 3
    Amounts = {1, 2}
    MaxTime = 8
SPECIFICATION Spec
INVARIANTS
    TypeOK
    NeverUnderCounts
    ExactBelowBound
    QuietWindowFreesBudget
    PruneDropsExactlyExpired
    BoundedAndSummed
