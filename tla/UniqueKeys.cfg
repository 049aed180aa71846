\* Expected to fail: two overlapping Saves both find an email free.
CONSTANTS
  Proc = {p1, p2}
  UserID = {u1, u2}
  Email = {e1}
  LoginName = {l1, l2}
  Token = {}
  Payload = {d1}
  Utf8 <- AllValid
  Earlier <- AllTables
  Empty = Empty
  Driver = "memory"
  MaxFaults = 0
  MaxCrashes = 0
SPECIFICATION Spec
INVARIANT EmailsUnique
CHECK_DEADLOCK FALSE
