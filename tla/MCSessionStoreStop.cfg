SPECIFICATION Spec
CONSTANTS
  Ids = {s1}
  MaxMessages = 1
  MaxFaults = 1
  None = None
PROPERTIES StopSavesUpdates
CHECK_DEADLOCK FALSE
