CONSTANTS
  Inputs = {1, 2}
  Attached = {2}
  BusyRetries = 1
  MaxForeign = 1
  Worlds <- MCSubmitEngine
SPECIFICATION Spec
INVARIANTS
  QueuedIsKept
CHECK_DEADLOCK FALSE
