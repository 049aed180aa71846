\* One request at a time: the service acts as a directory of users.
CONSTANTS
  Empty = Empty
  Proc = {p1}
  UserID = {u1, u2}
  Email = {e1, e2}
  LoginName = {l1, l2}
  Token = {t1}
  Profile = {f1}
  Password = {w1, w2}
  Driver = "redis"
  Earlier <- OldTables
  Request <- AllRequests
  AuthEmailMustBeVerified = TRUE
  ResetPasswordExpireTime = 1
  MaxTime = 2
  MaxFaults = 0
  MaxCrashes = 0
  Factory = "uuid"
  IdOf <- NoNumbers
  TokenOf <- NoNumbers
  MaxRequests = 3
SYMMETRY Symmetry
SPECIFICATION Spec
INVARIANTS SpentTokensAreGone ClientSeesOutcome
PROPERTIES ActsAsDirectory ActsAsUserStore
CHECK_DEADLOCK FALSE
