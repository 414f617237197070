\* Import, registrar sync and expiry check on the rows of domains.
SPECIFICATION FairSpec
CONSTANTS
    Fqdns = {1, 2, 3}
    Projects = {1, 2}
    Accounts = {1, 2}
    Files <- MCFiles
    InitDomains <- MCInitDomains
    Jobs = {1}
    MaxRows = 3
    ProgressEvery = 2
    MaxRetry = 1
    MaxEvents = 3
    RegistrarIds = {1, 2}
    Logins = {1}
    InitHeld <- MCInitHeld
    Dates = {0, 100}
    Days = {0, 10, 93, 100}
    Requests = {1}
    ListLimit = 2
    RegistrarPage = 1
INVARIANTS EveryLineAccounted SyncIsTrue NothingMissed ExpiryIsTold
PROPERTIES JobEnds
CHECK_DEADLOCK FALSE
