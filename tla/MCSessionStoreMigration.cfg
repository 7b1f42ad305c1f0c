SPECIFICATION Spec
CONSTANTS
  Ids = {s1}
  MaxMessages = 1
  MaxFaults = 1
  None = None
PROPERTIES ReadableStays
CHECK_DEADLOCK FALSE
