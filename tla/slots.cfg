\* Two operators on one book between splitting and asr: the in-flight slot
\* against the worker, the purge, the deletion and the dispatch loop.
SPECIFICATION Spec
CONSTANTS
    MaxFixAttempts = 2
    Book = {1}
    KindOf <- MCAllAudio
    SeriesOf <- MCNoSeries
    PosOf <- MCPosById
    Client = {c1, c2}
    AgentCap = 1
    MaxQARounds = 2
    AutoPurge = FALSE
    StartAt <- MCAtSplitting
    Ops = {"pause", "resume", "purge", "retry", "delete"}
    Faults = {"fail", "human"}
    MaxOps = 3
    MaxFaults = 1
    MaxCrashes = 0
    MaxStarts = 2
INVARIANTS
    SlotExclusion
    NoWorkOnDeleted
    PositionRunnable
    HoldRespected
CHECK_DEADLOCK FALSE
