SPECIFICATION Spec
CONSTANTS
    Domains = {1, 2}
    Agents = {1, 2}
    GroupOf <- ShardEach
    AgentGroup <- AgentEach
    HasPrevious = TRUE
    MaxFinalizeRetries = 1
    Ops = {"pause", "resume", "cancel", "rollback"}
    JobIds = {1, 2, 3, 4}
    MaxFaults = 0
    MaxRollbacks = 1
INVARIANTS
    EarlierShardsClean
    SucceededIsCounted
    RolledBackIsUndone
CHECK_DEADLOCK FALSE
