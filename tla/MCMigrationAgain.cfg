CONSTANTS
    Accts = {a1, a2}
    Recs = {x}
    Runners = {g1, g2}
    Admins = {d1}
    MaxTasks = 2
    MaxIds = 7
    MaxItems = 4
    MaxRequests = 1
    MaxFaults = 1
    AdminMay = {"retry", "cleanup", "update"}
    UserMay = {"create", "delete"}
    FaultKinds = {"crash", "provider"}
SPECIFICATION Spec
SYMMETRY Symmetry
INVARIANTS OneUnfinished ServedAtHome ReadOnlyWhileMigrating
CHECK_DEADLOCK FALSE
