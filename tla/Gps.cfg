SPECIFICATION GpsSpec
CONSTANTS
  d1 = d1
  d2 = d2
  a = a
  b = b
  m1 = m1
  m2 = m2
  m3 = m3
  Message = {m1, m2, m3}
  Late = TRUE
  Rankable = {1, 2, 3, 4, 5}
  rank <- MCRank
  NULL = NULL
  Elem = {1, 2, 3}
  Data = {d1, d2}
  Client = {a, b}
  Session = {1, 2, 3}
  OwnerOf <- MCOwner
  Options <- MCOptions
  MaxCommands = 4
  MaxFails = 1
  MaxResets = 1
INVARIANTS ListIntact FastEnough  QueueOutlivesUsers
PROPERTIES ImplementsRankedSet ImplementsMailbox TaskEnds
CHECK_DEADLOCK FALSE
