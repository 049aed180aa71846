\* Every request is answered, of requests that damage each other's user.
CONSTANTS
  Empty = Empty
  Proc = {p1, p2}
  UserID = {u1, u2}
  Email = {e1}
  LoginName = {l1}
  Token = {t1, t2}
  Profile = {f1}
  Password = {w1}
  Driver = "redis"
  Earlier <- OldTables
  Request <- AllRequests
  AuthEmailMustBeVerified = FALSE
  ResetPasswordExpireTime = 1
  MaxTime = 0
  MaxFaults = 1
  MaxCrashes = 0
  Factory = "seq"
  IdOf <- IdNumbers
  TokenOf <- TokenNumbers
  MaxRequests = 2
SPECIFICATION FairSpec
INVARIANT InternalErrorsAreStorageErrors
PROPERTIES RequestsAnswered LoginsGoThrough
CHECK_DEADLOCK FALSE
