SPECIFICATION SpecStaged
CONSTANTS
  Messages = {m1, m2}
  MaxChoices = 2
  BusyDelays = 1
  SendRetries = 1
  MaxTurns = 1
  MaxFaults = 1
INVARIANTS
  WaitingStays
CHECK_DEADLOCK FALSE
