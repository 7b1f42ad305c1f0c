SPECIFICATION Spec
CONSTANTS
  Ids = {s1, s2}
  MaxMessages = 2
  MaxFaults = 2
  None = None
INVARIANTS TypeOK MemoryIsLogged SessionIsSaved NothingToWrite
PROPERTIES DurableLogSpec
SYMMETRY Symmetry
