\* Every other control call, once, against a running agent stage, with a
\* rate limit or a failed removal, and a crash.
SPECIFICATION Spec
CONSTANTS
    MaxFixAttempts = 2
    Book = {1}
    KindOf <- MCAllAudio
    SeriesOf <- MCNoSeries
    PosOf <- MCPosById
    Client = {c1}
    AgentCap = 1
    MaxQARounds = 2
    AutoPurge = TRUE
    StartAt <- MCAtSynthesizing
    Ops = {"cancel", "readmit", "terminate", "rerun", "park", "delete", "purge"}
    Faults = {"rate_limit", "io"}
    MaxOps = 1
    MaxFaults = 1
    MaxCrashes = 1
    MaxStarts = 2
INVARIANTS
    TypeOK
CHECK_DEADLOCK FALSE
