-------------------------- MODULE MCKeyValueStorage --------------------------
(* Small instances of KeyValueStorage.                                     *)
EXTENDS KeyValueStorageProps, TLC

(* All emails and login names are valid UTF-8.                             *)
AllValid == [key \in Email \cup LoginName \cup {Empty} |-> key]

EmptyTables == {EmptyTable}

(* Every table that earlier runs can have left.                            *)
AllTables ==
  {tbl \in [UserID -> User \cup {NoUser}] : WellFormed(tbl) /\ NoSharedKeys(tbl)}

(* Keys of one kind, users and goroutines are interchangeable.             *)
Symmetry ==
  Permutations(Proc) \cup Permutations(UserID) \cup Permutations(Email)
    \cup Permutations(LoginName) \cup Permutations(Token)

(* The invariants say nothing of a store that may be damaged for good, so   *)
(* the runs that check them go no further once it is.                      *)
NotSuspect == ~suspect
=============================================================================
