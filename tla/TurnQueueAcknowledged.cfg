CONSTANTS
  Inputs = {1, 2}
  Attached = {2}
  BusyRetries = 1
  MaxForeign = 1
  Worlds <- MCCurrentEngine
SPECIFICATION Spec
INVARIANTS
  AcknowledgedIsTaken
CHECK_DEADLOCK FALSE
