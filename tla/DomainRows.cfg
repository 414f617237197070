SPECIFICATION FairSpec
CONSTANTS
    Providers = {1, 2}
    Registrars = {"r1"}
    Traffic <- OneKind
    Requests = {1, 2}
    Checks = {1}
    MaxMoves = 5
    MaxFaults = 1
INVARIANTS
    HistoryIsPath
    TransferAgrees
PROPERTIES
    VerifiedInTheEnd
    MismatchAlerts
CHECK_DEADLOCK FALSE
