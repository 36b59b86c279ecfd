SPECIFICATION FairSpec
CONSTANTS
  Users = {u1, u2}
  Members = {u1}
  Sockets = {s1, s2}
  Workers = {w1, w2}
  Msgs = {m1, m2}
  NoUser = NoUser
  NoWorker = NoWorker
INVARIANTS
  TypeOK
  ClientsMissNothing
  OutsidersGetNothing
PROPERTIES
  RoomGetsEveryMessage
CHECK_DEADLOCK FALSE
