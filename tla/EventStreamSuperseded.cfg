CONSTANTS
  FeatureSets <- MCCurrentEngine
  PageSize = 1
  MaxPages = 2
  MaxLog = 3
  MaxFaults = 2
  MaxSuperseded = 1
SPECIFICATION Spec
INVARIANTS
  ReadyIsAuthoritative
CHECK_DEADLOCK FALSE
