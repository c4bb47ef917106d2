SPECIFICATION ReceiptsSpec
CONSTANTS
  r1 = r1
  r2 = r2
  r3 = r3
  r4 = r4
  a = a
  b = b
  ReceiptIds <- MCReceiptIds
  Chats <- MCChats
  ChatOf <- MCChatOf
  MaxTags = 3
  ReceiptFaults = {"network"}
  MaxReceiptFaults = 1
INVARIANT DeferredReceiptsKept
CHECK_DEADLOCK FALSE
