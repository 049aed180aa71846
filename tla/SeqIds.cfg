\* Expected to fail: the sequence of user ids starts again with the process, and the store does not.
CONSTANTS
  Empty = Empty
  Proc = {p1}
  UserID = {u1, u2}
  Email = {e1, e2}
  LoginName = {l1, l2}
  Token = {t1, t2}
  Profile = {f1}
  Password = {w1}
  Driver = "redis"
  Earlier <- EmptyTables
  Request <- Creates
  AuthEmailMustBeVerified = FALSE
  ResetPasswordExpireTime = 1
  MaxTime = 0
  MaxFaults = 0
  MaxCrashes = 1
  Factory = "seq"
  IdOf <- IdNumbers
  TokenOf <- TokenNumbers
  MaxRequests = 2
SPECIFICATION Spec
PROPERTY CreatesNewUser
CHECK_DEADLOCK FALSE
