SPECIFICATION Spec
CONSTANTS
  Users = {u1, u2}
  Convs = {c1, c2}
  Requests = {r1, r2}
  NoUser = NoUser
  NoConv = NoConv
  NoRequest = NoRequest
INVARIANTS
  OneDirectConversation
CHECK_DEADLOCK FALSE
