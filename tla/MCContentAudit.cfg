SPECIFICATION Spec
CONSTANTS
  s1 = s1
  s2 = s2
  ra = ra
  rb = rb
  w1 = w1
  w2 = w2
  Nothing = Nothing
  Subs = {s1, s2}
  Recs = {ra, rb}
  SubOf <- MCSubOf
  Workers = {w1, w2}
  Tasks = {1}
  MaxMessages = 2
  Rules <- MCRules
  Opinions = {"none", "site"}
  MaxEvents = 2
INVARIANTS  ActiveServed RecheckUnderway SkipIsSafe
SYMMETRY Symmetry
CHECK_DEADLOCK FALSE
