SPECIFICATION FairSpec
CONSTANTS
  Sessions = {s1}
  Streams = {r1}
  MaxAsks = 1
  Loaded = {"active", "waiting_input", "error"}
  None = None
CHECK_DEADLOCK FALSE
PROPERTIES
  AbortedRunEnds
