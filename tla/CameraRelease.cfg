SPECIFICATION MCSpec
CONSTANTS
  MayFail = {}
  ZslBusy = FALSE
  MaxStray = 0
  MaxJobs = 1
  MaxPreviews = 0
  MaxPictures = 0
  MaxFaults = 0
PROPERTIES ReleaseReturns
CHECK_DEADLOCK FALSE
