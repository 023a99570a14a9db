SPECIFICATION LiveSpec
CONSTANTS
  PageSize = 1
  MaxPages = 2
  MaxLog = 2
  MaxStreamFaults = 1
  MaxSuperseded = 1
  BatchSize = 2
  MaxEvents = 3
  MaxFaults = 2
  Inputs = {1, 2}
  Attached = {2}
  BusyRetries = 0
  MaxForeign = 1
INVARIANTS
  AcksTypeOK
  NothingForgotten
  ClosedIsQuiet
PROPERTIES
  ShutdownIsAcked
  EveryEventAcked
  ShutdownProceeds
  ConnectResolves
  CatchesUp
  InputSettles
CHECK_DEADLOCK FALSE
