\* Violation: a book deleted while the daemon reconciles ends the start: the
\* dispatch loop never runs.
SPECIFICATION FairSpec
CONSTANTS
    MaxFixAttempts = 2
    Book = {1}
    KindOf <- MCAllAudio
    SeriesOf <- MCNoSeries
    PosOf <- MCPosById
    Client = {c1}
    AgentCap = 1
    MaxQARounds = 2
    AutoPurge = TRUE
    StartAt <- MCAtSynthesizing
    Ops = {"delete"}
    Faults = {}
    MaxOps = 1
    MaxFaults = 0
    MaxCrashes = 0
    MaxStarts = 1
PROPERTIES
    StartReachesLoop
CHECK_DEADLOCK FALSE
