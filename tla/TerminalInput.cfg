SPECIFICATION SpecTerminal
CONSTANTS
  MaxKeys = 1
  MaxStreams = 2
  MaxUpdates = 1
  MaxHandoffs = 0
  Overlapping = FALSE
  MaxBreaks = 0
INVARIANTS
  NoHiddenController
CHECK_DEADLOCK FALSE
