SPECIFICATION Spec
CONSTANTS
    k1 = k1
    k2 = k2
    k3 = k3
    Chunk <- MCChunk
    Files <- MCFiles
    GroupSize = 2
    MaxLevel = 3
    LevelCap = 2
    MaxTasks = 3
INVARIANTS
    NonDuplicatesSaved
CHECK_DEADLOCK FALSE
