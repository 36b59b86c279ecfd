SPECIFICATION MCSpec
CONSTANTS
  u1 = u1
  u2 = u2
  u3 = u3
  c1 = c1
  c2 = c2
  Users = {u1, u2, u3}
  Convs = {c1, c2}
  m1 = m1
  m2 = m2
  m3 = m3
  Msgs = {m1, m2, m3}
  OldMsgs = {m1}
  MaxMsgs = 2
  Requests = {r1, r2}
  k1 = k1
  k2 = k2
  old = old
  lost = lost
  Keys = {k1, k2, old, lost}
  OldKeys = {old, lost}
  Master <- MCMaster
  Members <- MCMembers
  NoUser = NoUser
  NoConv = NoConv
  NoMsg = NoMsg
  NoKey = NoKey
  Encrypted = Encrypted
CHECK_DEADLOCK FALSE
SYMMETRY Symmetry
INVARIANTS
  TypeOK
  EveryMessageReadable
  ReadersSeePlaintext
  PreviewTextsStayInConversation
PROPERTIES
  ImplementsChatLog
