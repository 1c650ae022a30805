\* An address and three values, two differing in case only; two operations at once.
SPECIFICATION Spec
CONSTANTS
    a = a  t = t  u = u  v = v
    w1 = w1  w2 = w2
    Recs = {a, t, u, v}
    Txts = {t, u, v}
    Twins = {t, u}
    Workers = {w1, w2}
    Attempts = 2
    MaxIds = 5
    MaxOps = 3
    MaxFaults = 2
SYMMETRY Symmetry
INVARIANTS OneCopy GoneIsGone OthersServed
CHECK_DEADLOCK FALSE
