SPECIFICATION FairSpec
CONSTANTS
    Policies = {"p"}
    Tier <- TierTwo
    Rules <- SomeRules
    Channels = {"mail"}
    Workers = {1, 2}
    TaskIds = {1, 2}
    Sites = {"fine", "cut"}
    MaxEvents = 1
INVARIANTS
    ProbedOnce
    DedupPerWorker
    ToldOnce
PROPERTIES
    DownAlerts
    EveryAlertTold
