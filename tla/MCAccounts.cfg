SPECIFICATION Spec
CONSTANTS
  a1 = a1
  a2 = a2
  p1 = p1
  p2 = p2
  w1 = w1
  w2 = w2
  NoOne = NoOne
  Addresses = {a1, a2}
  Passwords = {p1, p2}
  Workers = {w1, w2}
  RateLimit = 1
  MaxUsers = 2
  MaxTokens = 3
  MaxSessions = 1
  MaxVersion = 2
  MaxRequests = 4
  MaxFaults = 1
SYMMETRY Interchangeable
INVARIANTS SessionsFollowPassword OneFirstAdmin
PROPERTY LinksInOrder
CHECK_DEADLOCK FALSE
