SPECIFICATION CreationSpec
CONSTANTS
  CreationFaults = {"network"}
  MaxCreationFaults = 1
CHECK_DEADLOCK FALSE
PROPERTY InterruptedIsResumed
