SPECIFICATION MCSpec
CONSTANTS
  MayFail = {"VIDEO", "SNAPSHOT", "CAPTURE"}
  ZslBusy = FALSE
  MaxStray = 1
  MaxJobs = 4
  MaxPreviews = 2
  MaxPictures = 2
  MaxFaults = 2
INVARIANTS  LiveHasChannel PayloadAlive JobsDrained
PROPERTIES RecordingSurvives CallsReturn WaitsEnd
CHECK_DEADLOCK FALSE
