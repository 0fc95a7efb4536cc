SPECIFICATION BothSpec
CONSTANTS
  h1 = h1
  h2 = h2
  Handle = {h1, h2}
  Nif = {"agnss", "internet"}
  NifPresent = {"agnss", "internet"}
  WaitForClose = TRUE
  Native = FALSE
  Wds = TRUE
  MaxMsgs = 2
  MaxSSR = 1
INVARIANTS StateMatchesSubscribers OpenIsAcquired SubscribersKnownToModem
PROPERTIES ReleaseCompletes 
CHECK_DEADLOCK FALSE
