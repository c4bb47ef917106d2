SPECIFICATION OutboxSpec
CONSTANTS
  Messages = {"m", "n"}
  MaxRequests = 3
  OutboxFaults = {"local", "cancel", "crash", "operation", "resync", "collide", "network"}
  MaxOutboxFaults = 0
CHECK_DEADLOCK FALSE
INVARIANT RequestKept
