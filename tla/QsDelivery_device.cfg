SPECIFICATION Spec
CONSTANTS
  s1 = s1
  s2 = s2
  Streams <- TwoStreams
  None = None
  MaxBuffer = 1
  MaxSeq = 2
  MaxCommands = 2
  Disturbances = {"wake", "crash", "break", "ack", "connect", "refuse"}
  MaxDisturbances = 2
  Procs = {"fg", "bg"}
CHECK_DEADLOCK FALSE
SYMMETRY Symmetry2
ACTION_CONSTRAINT MessageWaits
INVARIANTS
  TypeOK
  NoMessageLost
  NoGap
  DeliveryInv
PROPERTY ReliableDelivery
