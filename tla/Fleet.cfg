SPECIFICATION FairSpec
CONSTANTS
    h1 = h1
    h2 = h2
    Hosts <- TwoHosts
    AgentIds = {1, 2}
    Tasks = {1, 2, 3}
    MaxConcurrency = 1
    HealthChecks = TRUE
    Targets = {"draining"}
    MaxFaults = 1
INVARIANTS
    RunsMatchRows
    OverrunIsBounded
PROPERTIES
    OperatorWins
    TasksOnce
    OfflineRecovers
    EveryTaskEnds
CHECK_DEADLOCK FALSE
