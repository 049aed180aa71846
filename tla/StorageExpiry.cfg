\* Two concurrent callers on etcd with a ttl, and one crash.
CONSTANTS
  Proc = {p1, p2}
  UserID = {u1, u2}
  Email = {e1, e2}
  LoginName = {l1, l2}
  Token = {}
  Payload = {d1}
  Utf8 <- AllValid
  Earlier <- EmptyTables
  Empty = Empty
  Driver = "etcd"
  MaxFaults = 0
  MaxCrashes = 1
SYMMETRY Symmetry
SPECIFICATION ExpirySpec
INVARIANT EntriesLeadToUsers
CONSTRAINT NotSuspect
