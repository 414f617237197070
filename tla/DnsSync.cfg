SPECIFICATION Spec
CONSTANTS
    r1 = r1
    r2 = r2
    PageSize = 2
    CloudflarePage = 3
    Domains = {"www"}
    ProviderIds = {1}
    ProviderRows <- SomeProviders
    Requests = {r1}
    Inputs <- SomeInputs
    Templates <- SomeTemplates
    Values = {"ip"}
    Foreign <- Console
    MaxOps = 2
    MaxFaults = 0
PROPERTIES
    PrunedAreGone
CHECK_DEADLOCK FALSE
