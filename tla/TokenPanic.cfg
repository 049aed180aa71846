\* Expected to fail: a stale save writes the record back without a new token, whose index entry stays.
CONSTANTS
  Empty = Empty
  Proc = {p1, p2}
  UserID = {u1}
  Email = {e1}
  LoginName = {l1}
  Token = {t1}
  Profile = {f1}
  Password = {w1}
  Driver = "memory"
  Earlier <- OldTables
  Request <- AllRequests
  AuthEmailMustBeVerified = FALSE
  ResetPasswordExpireTime = 1
  MaxTime = 0
  MaxFaults = 0
  MaxCrashes = 0
  Factory = "uuid"
  IdOf <- NoNumbers
  TokenOf <- NoNumbers
  MaxRequests = 4
SYMMETRY Symmetry
SPECIFICATION Spec
INVARIANT NoPanic
CHECK_DEADLOCK FALSE
