SPECIFICATION Spec
CONSTANTS
  u1 = u1
  p1 = p1
  p2 = p2
  Users = {u1}
  MaxApps = 2
  Procs = {p1, p2}
  MaxRulings = 2
  MaxEvents = 1
  FirstSettings <- MCFirstSettings
INVARIANTS OneUnfinished VerdictStands NobodyStranded
PROPERTY VerifiedStays
SYMMETRY Symmetry
CHECK_DEADLOCK FALSE
