SPECIFICATION Spec
CONSTANTS
    f1 = f1
    f2 = f2
    f3 = f3
    Contents <- MCContents
    NoContent = NoContent
    EmptyContent = f1
    Mixed = Mixed
    HashCounts = {0, 2}
    CacheEntries = 3
    TrailingSlash = FALSE
    CrashPoints = {"count", "save", "remove"}
    MaxTasks = 6
INVARIANTS
    HeldUntilCrash
    OneLiveEntry
    FInv
PROPERTIES
    ImplementsFileLibrary
CHECK_DEADLOCK FALSE
