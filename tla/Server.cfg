SPECIFICATION ServerSpec
CONSTANTS
  s1 = s1
  s2 = s2
  Streams <- TwoStreams
  None = None
  MaxBuffer = 2
  MaxSeq = 2
  MaxCommands = 2
  Disturbances = {"pg", "listen", "fetch", "restart", "wake", "crash", "break", "background", "connect", "ack", "malformed", "refuse", "decrypt", "commit", "fatal"}
  MaxDisturbances = 2
  MaxListeners = 2
  MaxOffers = 2
  MaxFetch = 1
  QueueErrors = 1
  OperationType = "GetInviteCode"
  MaxNameTokens = 2
  LowNameTokens = 1
  RotationPeriod = 2
  OverlapDays = 0
  RefreshAge = 2
  KeyIds = {1, 2}
  MaxDay = 3
  MaxOther = 0
  MaxCalls = 2
  TokenFaults = {"network", "lost", "refused", "locked", "quota", "database", "crash", "dbcrash"}
  MaxTokenFaults = 1
  Procs = {"fg", "bg"}
  Senders = {"carol", "dave"}
  MaxAttempts = 2
  SinglePackages = {"p"}
  LastResort = "last"
  EarlierPackages = {"old"}
  ConnectFaults = {"network", "crash", "expire", "twice"}
  MaxConnectFaults = 1
  alice = alice
  bob = bob
  Members <- TwoMembers
  NoSlot = NoSlot
  MaxRetries = 2
  MaxCommits = 3
  GroupFaults = {"network", "overlap", "dispatch", "internal"}
  MaxGroupFaults = 2
  FirstMembers <- MCFirstMembers
  Nobody = "nobody"
  MaxMade = 4
  MaxWishes = 2
  MembershipFaults = {"network", "crash", "local"}
  MaxMembershipFaults = 2
CHECK_DEADLOCK FALSE
INVARIANTS
  QueueWindow
  NewestListens
  ListenFollowsRegistry
  WokenWhileListening
  HandledInOrder
  RestingHasSeenRows
  SpentOnce
  PackageUsedOnce
  OffersCanBeRead
  ConfirmationComes
  NoFork
  OwnCommitKept
  OperationHasItsCommit
  CaughtUpAgrees
  LeaveHolds
PROPERTIES
  RemovedStaysOut
