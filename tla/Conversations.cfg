SPECIFICATION FairSpec
CONSTANTS
  Users = {u1, u2, u3}
  Convs = {c1, c2}
  Requests = {r1, r2}
  NoUser = NoUser
  NoConv = NoConv
  NoRequest = NoRequest
INVARIANTS
  TypeOK
  FoundAnswerNamesPartner
  DuplicatesComeFromRaces
PROPERTIES
  ImplementsDirectory
  EveryRequestReturns
CHECK_DEADLOCK FALSE
