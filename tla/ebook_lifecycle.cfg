\* One ebook from the queue to done with an operator pausing it and a
\* crash or shutdown anywhere.
SPECIFICATION FairSpec
CONSTANTS
    MaxFixAttempts = 1
    Book = {1}
    KindOf <- MCAllEbook
    SeriesOf <- MCNoSeries
    PosOf <- MCPosById
    Client = {c1}
    AgentCap = 1
    MaxQARounds = 2
    AutoPurge = FALSE
    StartAt <- MCAtQueued
    Ops = {"pause"}
    Faults = {}
    MaxOps = 1
    MaxFaults = 0
    MaxCrashes = 1
    MaxStarts = 99
INVARIANTS
    RunsPrepared
    OneOpenRun
PROPERTIES
    ProseReclaimed
