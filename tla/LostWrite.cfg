\* Expected to fail: Save drops the error of the write of the user.
CONSTANTS
  Empty = Empty
  Proc = {p1}
  UserID = {u1, u2}
  Email = {e1, e2}
  LoginName = {l1, l2}
  Token = {}
  Profile = {f1}
  Password = {w1}
  Driver = "redis"
  Earlier <- OldTables
  Request <- AllRequests
  AuthEmailMustBeVerified = FALSE
  ResetPasswordExpireTime = 1
  MaxTime = 0
  MaxFaults = 1
  MaxCrashes = 0
  Factory = "uuid"
  IdOf <- NoNumbers
  TokenOf <- NoNumbers
  MaxRequests = 2
SYMMETRY Symmetry
SPECIFICATION Spec
INVARIANT CreatedUsersAreStored
CHECK_DEADLOCK FALSE
