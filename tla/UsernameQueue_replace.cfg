SPECIFICATION UsernameQueueSpec
CONSTANTS
  MaxListeners = 2
  MaxOffers = 1
  MaxFetch = 1
  QueueErrors = 0
CHECK_DEADLOCK FALSE
INVARIANT EmittedToNewListener
