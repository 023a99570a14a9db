SPECIFICATION Spec
CONSTANTS
  MaxServes = 2
  MaxFlows = 2
  Pids = {p1, p2}
  MaxRuns = 3
  Procs = {d1, d2}
  Releases = {v1, v2}
  Own = Own
  Odd = Odd
  None = None
  Elsewhere = Elsewhere
  MaxEdits = 1
  MaxCores = 3
  MaxCreations = 1
  MaxUpdates = 1
  MaxMoves = 1
  MaxChanges = 1
  MaxLosses = 1
  Channels = {room1, room2}
  NoChannel = NoChannel
  MaxTexts = 2
  MaxItems = 2
  MaxVisits = 1
  MaxChecks = 1
  MaxLost = 1
  Conversations = {c1, c2}
  Artifacts = {a1, a2}
  TabLimit = 1
  MaxRevisions = 2
  MaxCalls = 2
INVARIANTS
  HostTypeOK
  MarkersAreExact
  ProcessesAreHandedOver
  ChannelsAreTrue
PROPERTIES
  DockIsTrue
  CliIsTheUsers
CHECK_DEADLOCK FALSE
