SPECIFICATION Spec
CONSTANTS
  a1 = a1
  a2 = a2
  m1 = m1
  s1 = s1
  s2 = s2
  r1 = r1
  r2 = r2
  r3 = r3
  g1 = g1
  g2 = g2
  Nobody = Nobody
  Users = {a1, a2, m1}
  Admins = {a1, a2}
  Groups = {g1, g2}
  AdminGroups = {g2}
  Subs = {s1, s2}
  Requests = {r1, r2, r3}
  Threshold = 1
  MaxFaults = 1
SYMMETRY Interchangeable
INVARIANTS AnAdminIsLeft NothingLeftBehind OneDefaultGroup
CHECK_DEADLOCK FALSE
