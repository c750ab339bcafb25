\* Four books contending for the lanes: two of one series on the agent lane, a
\* source reader, and a book enqueued while they run.
SPECIFICATION Spec
CONSTANTS
    MaxFixAttempts = 2
    Book = {1, 2, 3, 4}
    KindOf <- MCAllAudio
    SeriesOf <- MCSharedSeries
    PosOf <- MCPosById
    Client = {c1}
    AgentCap = 2
    MaxQARounds = 2
    AutoPurge = TRUE
    StartAt <- MCShared
    Ops = {"enqueue"}
    Faults = {}
    MaxOps = 1
    MaxFaults = 0
    MaxCrashes = 0
    MaxStarts = 4
INVARIANTS
    LaneCapacity
    OneSourceReader
    SeriesOrder
    AuthoringExclusive
PROPERTIES
    ImplementsPool
