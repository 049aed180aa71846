\* Two concurrent callers on etcd, with one crash and one failing driver call.
CONSTANTS
  Proc = {p1, p2}
  UserID = {u1, u2}
  Email = {e1, e2}
  LoginName = {l1, l2}
  Token = {t1}
  Payload = {d1}
  Utf8 <- AllValid
  Earlier <- AllTables
  Empty = Empty
  Driver = "etcd"
  MaxFaults = 1
  MaxCrashes = 1
SYMMETRY Symmetry
SPECIFICATION Spec
INVARIANTS TypeOK LookupsExact KeysUnique StorageInv
PROPERTIES RefusedSaveWritesNothing SavesLeaveOthersKeys
CONSTRAINT NotSuspect
