SPECIFICATION Spec
CONSTANTS
    NoString = NoString
    ReadLimit = 5
    IntMax = 5000
    Kb = 2
    Empty = Empty
    Texts <- MCTexts
    OldStats <- MCOldStats
    InputSizes = {0, 3, 9000}
    Lz4Sizes = {2, 9000}
    ENABLE_COMPRESSION = FALSE
    MaxRuns = 3
INVARIANTS
    ActsAsTold
    StatsAddUp
PROPERTY EmptyStatsStopAll
CHECK_DEADLOCK FALSE
