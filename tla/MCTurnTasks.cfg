SPECIFICATION Spec
CONSTANT MaxTurns = 3
CONSTANT None = None
CONSTANT Prompt = TRUE
INVARIANT TypeOK
INVARIANT Owned
INVARIANT EndsOnce
INVARIANT Answerable
INVARIANT NoStuckSlot
PROPERTY NoMadeUpVerdict
PROPERTY AbortEnds
CHECK_DEADLOCK FALSE
PROPERTY TurnLifecycleSpec
