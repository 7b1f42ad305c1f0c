SPECIFICATION FairSpec
CONSTANTS
  Calls = {c1}
  Keys = {k1}
  MaxProcs = 2
  Limits = {1}
  Overlap = FALSE
  None = None
PROPERTY CrashEndsMessage
CHECK_DEADLOCK FALSE
