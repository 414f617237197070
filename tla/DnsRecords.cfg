SPECIFICATION Spec
CONSTANTS
    PageSize = 1
    CloudflarePage = 2
    Domains = {"www"}
    ProviderIds = {1, 2}
    ProviderRows <- SomeProviders
    r1 = r1
    r2 = r2
    Requests = {r1, r2}
    Inputs <- SomeInputs
    Templates <- SomeTemplates
    Values = {"ip"}
    Foreign <- Console
    MaxOps = 3
    MaxFaults = 1
INVARIANTS
    NothingMissed
    RowsAreTrue
    OneAlertPerHour
CHECK_DEADLOCK FALSE
