SPECIFICATION GnssSpec
CONSTANTS
  a = a
  Client = {a}
  Session = {1}
  OwnerOf <- MCOwner
  Options <- MCOptions
  MaxCommands = 3
  MaxFails = 0
  MaxResets = 0
INVARIANTS StoppedStaysStopped
CHECK_DEADLOCK FALSE
