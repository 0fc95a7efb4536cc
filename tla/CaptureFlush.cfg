SPECIFICATION CaptureSpec
CONSTANTS
  prev = prev
  snap = snap
  OutStreams = {prev, snap}
  Kinds <- MCKinds
  MaxRequests = 2
  MaxErrors = 0
  MaxFailures = 0
  LiveMod = 8
INVARIANTS FlushKeepsToList
CHECK_DEADLOCK FALSE
