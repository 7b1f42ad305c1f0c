SPECIFICATION Spec
CONSTANTS
  Calls = {c1, c2}
  Keys = {k1, k2}
  MaxProcs = 2
  Limits = {1}
  Overlap = TRUE
  None = None
INVARIANT NoOrphan
CHECK_DEADLOCK FALSE
