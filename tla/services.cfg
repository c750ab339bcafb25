SPECIFICATION ServicesSpec
CONSTANTS
    SupPolicy <- MCPolicies
    SupAttempts = 1
    SupRepeats = 2
    SupModelCalls = 2
    SupHourly = 3
    SupBudget = 2
    SupFailures = {"rate_limit"}
    SupParks = {"agent_rate_limited", "markers_not_confident"}
    SupHealth = {"gone", "cost_limit"}
    QAChapter = {1}
    QAFindings <- MCFindings
    QARounds = 3
    QACases <- MCCuts
    FPChunks = 3
    FPWorkers = 2
    FPSlots = 1
    FPRetries <- MCRetries
    FPCases <- MCPasses
INVARIANTS
    ServicesTypeOK
    IncidentHandledOnce
    CapsHold
    ExitCovered
    StallEarned
    FactsOfThisLayout
    OvershootBounded
PROPERTIES
    HealthyNotAccused
    ParkedGetsPlan
    AcceptedStays
    QASettles
    FactPassEnds
CHECK_DEADLOCK FALSE
