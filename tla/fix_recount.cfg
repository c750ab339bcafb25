\* Violation: a crash between a fix pass and its record forgets the pass.
SPECIFICATION Spec
CONSTANTS
    MaxFixAttempts = 2
    Book = {1}
    KindOf <- MCAllAudio
    SeriesOf <- MCNoSeries
    PosOf <- MCPosById
    Client = {c1}
    AgentCap = 1
    MaxQARounds = 2
    AutoPurge = TRUE
    StartAt <- MCAtValidating
    Ops = {}
    Faults = {}
    MaxOps = 0
    MaxFaults = 0
    MaxCrashes = 1
    MaxStarts = 99
INVARIANTS
    FixCap
