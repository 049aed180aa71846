\* Two overlapping requests for tokens, with a failing driver call and a crash.
CONSTANTS
  Empty = Empty
  Proc = {p1, p2}
  UserID = {u1, u2}
  Email = {e1, e2}
  LoginName = {l1, l2}
  Token = {t1, t2}
  Profile = {f1}
  Password = {w1}
  Driver = "redis"
  Earlier <- FullTables
  Request <- TokenRequests
  AuthEmailMustBeVerified = FALSE
  ResetPasswordExpireTime = 1
  MaxTime = 0
  MaxFaults = 1
  MaxCrashes = 1
  Factory = "uuid"
  IdOf <- NoNumbers
  TokenOf <- NoNumbers
  MaxRequests = 3
SYMMETRY Symmetry
SPECIFICATION Spec
INVARIANTS TypeOK TokenBelongs
CHECK_DEADLOCK FALSE
