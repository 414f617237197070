SPECIFICATION FairSpec
CONSTANTS
    Domains = {1, 2}
    Agents = {1}
    GroupOf <- ShardEach
    AgentGroup <- NoAgentGroup
    HasPrevious = TRUE
    MaxFinalizeRetries = 2
    Ops = {"cancel", "rollback"}
    JobIds = {1, 2, 3}
    MaxFaults = 0
    MaxRollbacks = 2
PROPERTIES
    Settles
    RollbackSettles
CHECK_DEADLOCK FALSE
