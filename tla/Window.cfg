SPECIFICATION Spec
CONSTANTS
  Sessions = {s1, s2}
  Grants = {g1}
  NoGrant = NoGrant
  None = None
  RevokeRequests = {r1}
  StateLimit = 2
  MaxEvents = 2
  MaxConnects = 2
  MaxSwitches = 0
  Intents = {i, j}
  MaxAttempts = 3
  MaxPending = 1
  MaxAge = 0
  MaxClock = 1
  MaxLosses = 1
  Requests = {q1, q2}
  Turn = {q1}
  Limit = 1
  MaxFeed = 2
  MaxDrops = 1
  MaxOpens = 3
  Agents = {a1, a2}
  Nobody = Nobody
  MaxViewReads = 3
  MaxVersions = 2
  Keys = {k1, k2}
  MaxTexts = 2
  MaxSends = 3
  MaxChecks = 2
  Channels = {c1, c2}
  FeedChannels = {c1, c2}
  NoChannel = NoChannel
  HistoryPage = 1
  SyncPage = 1
  MaxShown = 2
  MaxMessages = 3
  MaxKeyed = 1
  MaxReads = 3
  MaxFlying = 2
  MaxWritten = 1
  MaxItems = 3
  MaxVisits = 2
  MaxIdentities = 1

  Messages = {m1, m2}
  MaxChoices = 2
  BusyDelays = 1
  SendRetries = 1
  MaxTurns = 1
  MaxFaults = 1

  MaxKeys = 2
  MaxStreams = 2
  MaxUpdates = 1
  MaxHandoffs = 1
  Overlapping = FALSE
  MaxBreaks = 1

  Spaces = {personal, company}
  HomeSpace = personal
  HomeChats = {h1, h3}
  HomeProjects = {h2}
  OtherChats = {w1}
  NoSession = NoSession
  Listed = {h1, w1}
  MaxSteps = 2
  MaxOthers = 1

  Organizations = {org1, org2}
  NoOrganization = NoOrganization
  DeskTasks = {task1}
  MaxDeskVisits = 2
  MaxChanges = 2
INVARIANTS
  WindowTypeOK
  SentOnce
  DecidedOnce
  ViewsAreComplete
  SpacesAreTrue
  NewestChoiceIsUsed
  OneConnection
  PermissionsAreTrue
  HandoffIsExact
CHECK_DEADLOCK FALSE
