CONSTANTS
    Accts = {a1, a2}
    Recs = {x, y}
    Runners = {g1}
    Admins = {d1, d2}
    MaxTasks = 1
    MaxIds = 7
    MaxItems = 4
    MaxRequests = 2
    MaxFaults = 3
    AdminMay = {"retry"}
    UserMay = {}
    FaultKinds = {"db", "provider", "crash"}
SPECIFICATION FairSpec
INVARIANT OutcomeMatchesItems
PROPERTY MigrationEnds
CHECK_DEADLOCK FALSE
