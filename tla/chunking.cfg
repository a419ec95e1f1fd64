SPECIFICATION Spec
CONSTANTS
    Gear <- MCGear
    FpMod = 8
    Factor = 2
    FrontPass <- MCFront
    BackPass <- MCBack
    Pass8KB = {0, 4}
    MaxFile = 9
    Files <- MCFiles
    Levels = {0, 1, 2, 3}
    Averages = {1, 2, 3, 4}
    FixedSizes = {2, 4}
    FileCache = 6
    U16 = 5
INVARIANTS
    ChunksTile
    ContentDefined
    BlocksAlike
PROPERTY CutsEverything
CHECK_DEADLOCK FALSE
