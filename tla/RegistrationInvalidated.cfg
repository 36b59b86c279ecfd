SPECIFICATION Spec
CONSTANTS
  Emails = {e1, e2}
  Accounts = {a1, a2}
  Rows = {k1, k2, k3}
  Values = {c1, c2}
  Requests = {r1, r2}
  NoEmail = NoEmail
  NoAccount = NoAccount
  NoValue = NoValue
  NoRow = NoRow
SYMMETRY Symmetry
INVARIANTS
  CodesAreInvalidated
CHECK_DEADLOCK FALSE
