SPECIFICATION MCSpec
CONSTANTS
  Users = {u1}
  Tokens = {t1, t2, t3}
  Requests = {r1, r2}
  NoUser = NoUser
  NoToken = NoToken
  NoRequest = NoRequest
CHECK_DEADLOCK FALSE
INVARIANTS
  TypeOK
  TokensHaveUsers
  RefreshFindsUser
  DoubleUseComesFromRaces
  NewTokenIsUsable
PROPERTIES
  ImplementsSessions
  LogoutSticks
  EveryRequestReturns
