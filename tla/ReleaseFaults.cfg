SPECIFICATION Spec
CONSTANTS
    Domains = {1}
    Agents = {1}
    GroupOf <- OneShard
    AgentGroup <- NoAgentGroup
    HasPrevious = TRUE
    MaxFinalizeRetries = 1
    Ops = {"cancel", "rollback"}
    JobIds = {1, 2, 3}
    MaxFaults = 2
    MaxRollbacks = 1
INVARIANTS
    ReleaseHasArtifact
    RecordIsTrue
PROPERTIES
    TerminalIsFinal
    TasksOnce
CHECK_DEADLOCK FALSE
