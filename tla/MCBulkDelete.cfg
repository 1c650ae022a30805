SPECIFICATION BulkSpec
CONSTANTS
  r1 = r1
  r2 = r2
  p1 = p1
  p2 = p2
  Absent = Absent
  Records = {r1, r2}
  Jobs = {1, 2}
  Runs = {p1, p2}
  MaxAttempts = 2
  ResumeLimit = 1
  MaxFailures = 1
  MaxStops = 1
INVARIANT SucceededMeansGone
PROPERTY EveryJobEnds
CHECK_DEADLOCK FALSE
