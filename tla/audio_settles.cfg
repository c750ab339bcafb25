\* One audio book from the queue to done: every branch, both loops, the caps,
\* transient and permanent parks, under fairness.
SPECIFICATION FairSpec
CONSTANTS
    MaxFixAttempts = 2
    Book = {1}
    KindOf <- MCAllAudio
    SeriesOf <- MCNoSeries
    PosOf <- MCPosById
    Client = {c1}
    AgentCap = 1
    MaxQARounds = 2
    AutoPurge = TRUE
    StartAt <- MCAtQueued
    Ops = {}
    Faults = {"rate_limit", "unavailable"}
    MaxOps = 0
    MaxFaults = 1
    MaxCrashes = 0
    MaxStarts = 99
INVARIANTS
    FixCap
PROPERTIES
    AllSettle
    TransientParkHeals
