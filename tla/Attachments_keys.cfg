SPECIFICATION AttachmentsSpec
CONSTANTS
  Incoming = {"i"}
  Outgoing = {"o"}
  MaxProvisioned = 1
  NumDownloads = 1
  AttachmentFaults = {"network", "outbox"}
  MaxAttachmentFaults = 2
CHECK_DEADLOCK FALSE
INVARIANT KeysStay
