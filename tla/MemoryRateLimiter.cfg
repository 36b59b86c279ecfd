SPECIFICATION MemorySpec
CONSTANTS
  Keys = {k1, k2}
  Limit = 2
  Window = 3
  PruneEvery = 1
  MaxTime = 7
  MaxTries = 6
INVARIANTS
  MemoryTypeOK
  IdleKeysAreForgotten
PROPERTIES
  MemoryImplementsRateLimit
CHECK_DEADLOCK FALSE
