SPECIFICATION Spec
CONSTANTS
  s1 = s1
  s2 = s2
  Streams <- TwoStreams
  None = None
  MaxBuffer = 2
  MaxSeq = 2
  MaxCommands = 2
  Disturbances = {"wake", "fatal"}
  MaxDisturbances = 2
  Procs = {"bg"}
CHECK_DEADLOCK FALSE
INVARIANT AckedIsSettled
