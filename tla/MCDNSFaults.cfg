CONSTANTS
    Recs = {a, c}
    Cnames = {c}
    NoRec = NoRec
    Workers = {w1, w2}
    NoWorker = NoWorker
    Keys = {k1, k2}
    NoKey = NoKey
    MaxDNSRecords = 2
    DeleteAttempts = 2
    BatchAttempts = 2
    CallAttempts = 2
    MaxRows = 4
    MaxPids = 9
    MaxFaults = 2
SPECIFICATION FairSpec
INVARIANT NoOrphanSequential
PROPERTY EveryExecutionEnds
CHECK_DEADLOCK FALSE
