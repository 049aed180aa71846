\* Two overlapping requests that change the keys of users or log in, with a crash.
CONSTANTS
  Empty = Empty
  Proc = {p1, p2}
  UserID = {u1, u2}
  Email = {e1, e2}
  LoginName = {l1, l2}
  Token = {t1}
  Profile = {f1}
  Password = {w1}
  Driver = "redis"
  Earlier <- FewUsers
  Request <- KeyRequests
  AuthEmailMustBeVerified = FALSE
  ResetPasswordExpireTime = 1
  MaxTime = 0
  MaxFaults = 0
  MaxCrashes = 1
  Factory = "uuid"
  IdOf <- NoNumbers
  TokenOf <- NoNumbers
  MaxRequests = 3
SYMMETRY Symmetry
SPECIFICATION Spec
INVARIANTS LookupsExact CreatedUsersAreStored
CHECK_DEADLOCK FALSE
