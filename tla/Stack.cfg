SPECIFICATION Spec
CONSTANTS
  Buffers = {1, 2}
  Modes <- MCModes
  MaxSessions = 2
  MaxFails = 1
  meta = meta
  prev = prev
  snap = snap
  Streams = {meta, prev}
  Meta = meta
  Depth = 4
  MaxFrame = 5
  MaxUnmatched = 1
  WaterMark = 1
  LookBack = 0
  PostSkip = 1
  Priorities = {"normal", "low"}
  Future = 2
  Marks = {2, 4}
  MaxWork = 1
  MaxCmds = 2
  OutStreams = {prev, snap}
  Kinds <- MCKinds
  MaxRequests = 3
  MaxErrors = 1
  MaxFailures = 1
  LiveMod = 8
  MaxPictures = 3
  MaxMissing = 1
  MaxStops = 2
  Mixed = FALSE
  s1 = s1
  s2 = s2
  JpegSession = {s1, s2}
  NoSession = NoSession
  MaxJobs = 3
  MaxCreates = 3
  MaxOmxErrors = 1
INVARIANTS RefcountExact KernelExclusive NoFrameUnpolled
  BuffersConserved MatchedFirst QueueBounded
  BuffersBalanced OneOutcome LiveCount ErrorAnswersAll
  NothingStranded OneAnswer NoCircularWait
  NoJobStranded OneConfigured
PROPERTIES SentInOrder JobAnsweredOnce
CHECK_DEADLOCK FALSE
