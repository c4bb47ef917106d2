SPECIFICATION FairSpec
CONSTANTS
  s1 = s1
  s2 = s2
  Streams <- TwoStreams
  None = None
  MaxBuffer = 1
  MaxSeq = 1
  MaxCommands = 2
  Disturbances = {"wake", "background", "break", "ack", "malformed", "decrypt", "commit", "fatal"}
  MaxDisturbances = 2
  Procs = {"fg", "bg"}
CHECK_DEADLOCK FALSE
PROPERTY EventuallySettled
