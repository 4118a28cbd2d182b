SPECIFICATION Spec
CONSTANTS
    Workloads <- MCReadsFail
    Pins <- MCPins
    QueueLimit = 4
    PitMax = 2
    QueueSize = 2
    IndexMod = 4
    UartCapacity = 2
    BacklogCap = 2
    RxBatch = 1
INVARIANT
    KeepsServing
