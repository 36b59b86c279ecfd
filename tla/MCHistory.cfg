SPECIFICATION Spec
CONSTANTS
  Users = {u1, u2}
  Msgs = {1, 2, 3}
  Walks = {w1, w2}
  Limit = 1
  MaxTime = 1
  NoUser = NoUser
  NoMsg = NoMsg
INVARIANTS
  TypeOK
  PagesDescend
  WalkIsComplete
  MarkingClears
SYMMETRY Symmetry
CHECK_DEADLOCK FALSE
