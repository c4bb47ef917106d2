SPECIFICATION ClientSpec
CONSTANTS
  MaxStreamEvents = 2
  MaxQueued = 1
  MaxRunOnce = 1
  ServiceFaults = {"crash", "network", "background"}
  MaxServiceFaults = 1
  r1 = r1
  r2 = r2
  r3 = r3
  r4 = r4
  a = a
  b = b
  ReceiptIds <- MCReceiptIds
  Chats <- MCChats
  ChatOf <- MCChatOf
  MaxTags = 3
  ReceiptFaults = {"cancel", "pending", "network", "fatal", "crash", "sibling", "dispatch"}
  MaxReceiptFaults = 1
  Messages = {"m", "n"}
  MaxRequests = 3
  OutboxFaults = {"local", "cancel", "crash", "operation", "resync", "collide", "network"}
  MaxOutboxFaults = 2
  Incoming = {"i", "j"}
  Outgoing = {"o"}
  MaxProvisioned = 3
  NumDownloads = 1
  AttachmentFaults = {"open", "expired", "network", "database", "lag", "cancel", "outbox", "crash", "unread"}
  MaxAttachmentFaults = 2
  MaxToggles = 3
  ReactionFaults = {"cancel", "crash", "defer", "network", "block", "dispatch"}
  MaxReactionFaults = 3
  CreationFaults = {"crash", "network", "database", "late"}
  MaxCreationFaults = 3
  alice = alice
  bob = bob
  Members <- TwoMembers
  NoSlot = NoSlot
  MaxRetries = 2
  MaxCommits = 2
  GroupFaults = {"network", "crash", "internal"}
  MaxGroupFaults = 2
  OperationType = "AddUsername"
  MaxNameTokens = 2
  LowNameTokens = 1
  RotationPeriod = 2
  OverlapDays = 0
  RefreshAge = 3
  KeyIds = {1, 2}
  MaxDay = 4
  MaxOther = 1
  MaxCalls = 1
  TokenFaults = {"network", "lost", "refused", "locked", "quota", "database", "crash", "dbcrash"}
  MaxTokenFaults = 1
CHECK_DEADLOCK FALSE
INVARIANTS
  NoLiveWorkWhileReceiving
  RecordedIsDelivered
  SentIsAccepted
  NoMessageForgotten
  PeersAgree
  RetryPossible
  SentIsUploaded
  ReactionsAgree
  SecretsAgree
  NothingMissed
PROPERTIES
  ProcessorGoesOn
  QueuedWorkIsDone
  ReceiptsLeaveQueue
  MessagesLeaveQueue
  DownloadsStart
  CreationIsResumed
  EventuallyResolved
  StockComesBack
