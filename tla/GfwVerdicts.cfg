SPECIFICATION Spec
CONSTANTS
    bj = bj
    sh = sh
    hk = hk
    Nodes = {bj, sh, hk}
    RoleOf <- Roles
    Rules <- OneRule
    Requests = {1, 2}
    Worlds <- SomeWorlds
    Troubles <- SomeTroubles
    MaxMeasured = 3
    MaxEvents = 1
INVARIANTS
    VerdictsAreRight
    BlockedIsCorroborated
    ReportsHaveVerdict
CHECK_DEADLOCK FALSE
SYMMETRY Inside
