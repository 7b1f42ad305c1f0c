SPECIFICATION Spec
CONSTANTS
  Sessions = {s1}
  Streams = {r1, r2}
  MaxAsks = 1
  Loaded = {"active", "waiting_input"}
  None = None
SYMMETRY Symmetry
CHECK_DEADLOCK FALSE
INVARIANTS
  TypeOK
  ResolverIffAwaited
  WaitingIsAnswerable
  GrantedOnlyByAllow
  RegisteredIsLive
  RegisteredResponseIsDropped
  FinishedMeansEnded
PROPERTY AgentRunsSpec
