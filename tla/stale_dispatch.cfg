\* Violation: a book that parks between the dispatch loop's list and its look
\* at the in-flight table is started again.
SPECIFICATION Spec
CONSTANTS
    MaxFixAttempts = 2
    Book = {1}
    KindOf <- MCAllAudio
    SeriesOf <- MCNoSeries
    PosOf <- MCPosById
    Client = {c1}
    AgentCap = 1
    MaxQARounds = 2
    AutoPurge = TRUE
    StartAt <- MCAtSynthesizing
    Ops = {}
    Faults = {"human"}
    MaxOps = 0
    MaxFaults = 1
    MaxCrashes = 0
    MaxStarts = 99
PROPERTIES
    ParkedStaysPut
