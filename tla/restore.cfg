SPECIFICATION Spec
CONSTANTS
    k1 = k1
    k2 = k2
    k3 = k3
    k4 = k4
    Junk = Junk
    MaxRecipe = 4
    Chunk <- MCChunk
    ChunkLen <- MCChunkLen
    ContainerSize = 4
    U32 = 16
    IndexCap = 100
    Stores <- MCStores
    RecipeDirs <- MCRecipeDirs
    Requests = {0}
    Olds <- MCOlds
    Methods <- AllMethods
    CacheMax <- MCCacheMax
    FileCache = 4
INVARIANTS
    ContainerCacheAgrees
    LruInStep
    BufferFits
    TruncationNoticed
PROPERTIES
    ImplementsRestoration
    Terminates
CHECK_DEADLOCK FALSE
