CONSTANTS
  Inputs = {1, 2}
  Attached = {2}
  BusyRetries = 1
  MaxForeign = 1
  Worlds <- MCGenerations
SPECIFICATION Spec
INVARIANTS
  TypeOK
  InOnePlace
  AtMostOnce
  QueuedIsNotTaken
PROPERTIES
  CancelledStaysOut
CHECK_DEADLOCK FALSE
