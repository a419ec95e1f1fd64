SPECIFICATION Spec
CONSTANTS
    k1 = k1
    k2 = k2
    k3 = k3
    k4 = k4
    Junk = Junk
    Chunk <- MCChunk
    ChunkLen <- MCChunkLen
    ContainerSize = 5
    U32 = 16
    IndexCap = 100
    Files <- MCFiles
    Tasks = {"write", "write_pipeline"}
    CrashPoints = {"loop", "rev"}
    DenseOnly = TRUE
    VersionMod = 256
    MaxTasks = 4
INVARIANTS
    DurableUntilMishap
    VersionsRestorable
CHECK_DEADLOCK FALSE
