SPECIFICATION FairSpec
CONSTANTS
  Users = {u1}
  Requests = {r1, r2}
  Values = {0, 1}
  MaxPool = 2
  NoUser = NoUser
  NoQuestion = NoQuestion
CHECK_DEADLOCK FALSE
INVARIANTS
  TypeOK
PROPERTIES
  ImplementsColumnStore
  EveryRequestReturns
