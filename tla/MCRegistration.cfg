SPECIFICATION FairSpec
CONSTANTS
  Emails = {e1, e2}
  Accounts = {a1, a2}
  Rows = {k1, k2}
  Values = {c1, c2}
  Requests = {r1, r2}
  NoEmail = NoEmail
  NoAccount = NoAccount
  NoValue = NoValue
  NoRow = NoRow
INVARIANTS
  TypeOK
  InactiveHasCode
  MailedCodeIsStored
  LeftoversComeFromRaces
PROPERTIES
  ImplementsVerification
  EveryRequestReturns
CHECK_DEADLOCK FALSE
