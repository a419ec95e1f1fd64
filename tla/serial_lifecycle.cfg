SPECIFICATION Spec
CONSTANTS
    k1 = k1
    k2 = k2
    k3 = k3
    k4 = k4
    Junk = Junk
    Chunk <- MCChunk
    ChunkLen <- MCChunkLen
    ContainerSize = 5
    U32 = 16
    IndexCap = 100
    Files <- MCFiles
    Tasks <- SerialTasks
    CrashPoints = {}
    DenseOnly = TRUE
    VersionMod = 256
    MaxTasks = 6
INVARIANTS
    RefCountsExact
    NoLeak
    NoMishap
PROPERTIES
    FlushedContainersStay
    ImplementsVersionStore
CHECK_DEADLOCK FALSE
