\* Expected to fail: a request saves the whole user as it once read it.
CONSTANTS
  Empty = Empty
  Proc = {p1, p2}
  UserID = {u1}
  Email = {e1, e2}
  LoginName = {l1, l2}
  Token = {}
  Profile = {f1}
  Password = {w1}
  Driver = "redis"
  Earlier <- OldTables
  Request <- AllRequests
  AuthEmailMustBeVerified = FALSE
  ResetPasswordExpireTime = 1
  MaxTime = 0
  MaxFaults = 0
  MaxCrashes = 0
  Factory = "uuid"
  IdOf <- NoNumbers
  TokenOf <- NoNumbers
  MaxRequests = 2
SPECIFICATION Spec
PROPERTY SavesOnlyItsChange
CHECK_DEADLOCK FALSE
