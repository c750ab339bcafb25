\* Violation: a pause is overwritten by the rate-limit park of the stage it left
\* running, and the loop re-admits the book.
SPECIFICATION Spec
CONSTANTS
    MaxFixAttempts = 2
    Book = {1}
    KindOf <- MCAllAudio
    SeriesOf <- MCNoSeries
    PosOf <- MCPosById
    Client = {c1}
    AgentCap = 1
    MaxQARounds = 2
    AutoPurge = TRUE
    StartAt <- MCAtSynthesizing
    Ops = {"pause"}
    Faults = {"rate_limit"}
    MaxOps = 1
    MaxFaults = 1
    MaxCrashes = 0
    MaxStarts = 99
INVARIANTS
    HoldRespected
