SPECIFICATION Spec
CONSTANTS
  h1 = h1
  h2 = h2
  Handle = {h1, h2}
  Nif = {"agnss", "internet"}
  NifPresent = {"internet"}
  WaitForClose = TRUE
  Native = TRUE
  Wds = TRUE
  MaxMsgs = 2
  MaxSSR = 0
INVARIANTS OpenOnlyWhenUp
CHECK_DEADLOCK FALSE
