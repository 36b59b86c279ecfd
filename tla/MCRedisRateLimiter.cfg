SPECIFICATION RedisSpec
CONSTANTS
  Keys = {k1, k2}
  Requests = {r1, r2}
  Limit = 2
  Window = 2
  Second = 2
  MaxDelay = 1
  MaxTime = 7
  MaxTries = 5
  NoKey = NoKey
INVARIANTS
  RedisTypeOK
PROPERTIES
  RedisImplementsRateLimit
SYMMETRY Symmetry
CHECK_DEADLOCK FALSE
