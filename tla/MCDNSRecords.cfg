CONSTANTS
    Recs = {a, b, d, c}
    Cnames = {c}
    NoRec = NoRec
    Workers = {w1, w2}
    NoWorker = NoWorker
    Keys = {k1, k2, k3}
    NoKey = NoKey
    MaxDNSRecords = 2
    DeleteAttempts = 2
    BatchAttempts = 2
    CallAttempts = 1
    MaxRows = 4
    MaxPids = 7
    MaxFaults = 1
SPECIFICATION Spec
SYMMETRY Symmetry
INVARIANTS TypeOK CnameExclusive RowLimit NoOrphan
PROPERTIES DeletedStaysDeleted ImplementsIdempotent
CHECK_DEADLOCK FALSE
