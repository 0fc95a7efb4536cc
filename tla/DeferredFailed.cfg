SPECIFICATION DeferredSpec
CONSTANTS
  MaxJobs = 13
  MaxPreviews = 2
  MaxPictures = 2
  MaxFaults = 1
INVARIANTS OnlyFailuresFail
CHECK_DEADLOCK FALSE
