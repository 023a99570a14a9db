CONSTANTS
  FeatureSets <- MCEngines
  PageSize = 1
  MaxPages = 2
  MaxLog = 3
  MaxFaults = 2
  MaxSuperseded = 1
SPECIFICATION Spec
ACTION_CONSTRAINT OnlyLegacySupersedes
INVARIANTS
  TypeOK
  ReadyIsAuthoritative
  NothingLost
  RecoverySummaryHolds
  SnapshotNotOlder
PROPERTIES
  StoredOnlyAdvances
  FeedSpec
CHECK_DEADLOCK FALSE
