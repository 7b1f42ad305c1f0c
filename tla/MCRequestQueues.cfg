CONSTANTS
  MaxConnections = 2
  Keys = {k1}
  None = None
  MaxRequests = 3
SPECIFICATION Spec
CHECK_DEADLOCK FALSE
INVARIANT TypeOK
INVARIANT InOrder
INVARIANT QuietAfterCleanup
INVARIANT NoContextLeak
PROPERTY EveryRequestEnds
PROPERTY CleanupComes
PROPERTY OrderedExecutionSpec
