SPECIFICATION Spec
CONSTANTS
  Threads = {t1, t2}
  Workers = {w1, w2}
  None = None
  MaxRunning = 1
  Retries = 1
  Lease = 2
  RetryDelay = 1
  Cooldown = 2
  Idle = 0
  MaxUnused = 0
  MaxTime = 2
  Deletable = {t1}
  Calm = TRUE
SYMMETRY Symmetry
INVARIANTS
  TypeOK
  RunningCap
  OutputIsDone
  DeletedStaysForgotten
  OneConsolidation
  SelectedInBaseline
PROPERTY MemoryVersionsSpec
