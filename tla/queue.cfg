SPECIFICATION FairSpec
CONSTANTS
    p1 = p1
    p2 = p2
    p3 = p3
    c1 = c1
    c2 = c2
    Producers <- MCProducers
    Consumers <- MCConsumers
    Size = 2
    MaxPushes = 2
INVARIANTS
    SleepersHaveReason
    WithinLimit
    FifoOnce
PROPERTIES
    ConsumersReturn
    PushesReturn
CHECK_DEADLOCK FALSE
