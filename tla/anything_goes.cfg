SPECIFICATION Spec
CONSTANTS
    k1 = k1
    k2 = k2
    k3 = k3
    k4 = k4
    Junk = Junk
    Chunk <- MCChunk
    ChunkLen <- MCChunkLen
    ContainerSize = 4
    U32 = 16
    IndexCap = 2
    Files <- MCSmallFiles
    Tasks <- AllTasks
    CrashPoints = {"loop", "rev", "trunc", "save", "del"}
    DenseOnly = FALSE
    VersionMod = 3
    MaxTasks = 4
INVARIANTS
    SoundUntilMishap
    IInv
CHECK_DEADLOCK FALSE
