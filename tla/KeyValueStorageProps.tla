------------------------ MODULE KeyValueStorageProps -------------------------
(***************************************************************************)
(* What keyValueStorage promises its callers, over KeyValueStorage.        *)
(***************************************************************************)
EXTENDS KeyValueStorage

(* Every variable holds a value of its type; a record is stored under its   *)
(* own id, and a stored record is never half filled in.                    *)
TypeOK ==
  /\ table \in [UserID -> User \cup {NoUser}]
  /\ WellFormed(table)
  /\ index \in [Kind -> [Key -> UserID \cup {Empty}]]
  /\ call \in [Proc -> Call]
  /\ faults \in Nat /\ crashes \in Nat
  /\ interrupted \in User \cup {NoUser}
  /\ suspect \in BOOLEAN

(* What a call holds where it stands: a record to save, keys of an index,   *)
(* an id that may be stored.                                                *)
Fits(c) ==
  /\ c.pc \in SavePhase => c.user \in User /\ c.kind \in Kind
  /\ c.pc = "lookup" => c.kind \in Kind /\ c.key \in Key
  /\ c.pc = "fetch" => c.id \in UserID

CallOK == \A p \in Proc : Fits(call[p])

(* The properties below say nothing of a store that is suspect: since it     *)
(* started, a Save began while another one with the same user or a common   *)
(* key was under way, or with a key or the id of a Save that a crash had    *)
(* cut short and that was not repeated yet; or a failing write was dropped; *)
(* or an email or login name was not valid UTF-8; or a crash cut two Saves  *)
(* short, or one whose old key another user had taken meanwhile.            *)
Settled(id) == \A p \in Proc : Saving(p) => call[p].user.id # id

(* Save keeps the indexes and the table in step: while a user is not being  *)
(* saved, each index maps a key to that user exactly when the key is in    *)
(* the user's record, so FindBy* neither misses a user nor finds a user by *)
(* a key it gave up.  A crash leaves that user alone out of step whose Save *)
(* it cut short, and repeating that Save repairs what the crash tore, with *)
(* other users saved before, while and after.                              *)
LookupsExact ==
  ~suspect =>
    \A id \in UserID \ {interrupted.id}, k \in Kind, key \in Key :
      Settled(id) => (index[k][key] = id <=> table[id][k] = key)

(* The unique index validation of Save works: no two users that are not     *)
(* being saved have the same email, login name or reset token, not even one *)
(* whose Save a crash has cut short.                                        *)
KeysUnique ==
  ~suspect =>
    \A i, j \in UserID, k \in Kind :
      i # j /\ Settled(i) /\ Settled(j) /\ table[i][k] # Empty => table[i][k] # table[j][k]

-----------------------------------------------------------------------------
(* Why this is so.  A Save goes through the indexes in the order email,     *)
(* login, token, three times: it checks them, clears them of the old keys   *)
(* and enters the new ones.                                                 *)
Before(j, k) == (j = "email" /\ k # "email") \/ (j = "login" /\ k = "token")

Checked(p, k) == Saving(p) /\ (call[p].pc = "check" => Before(k, call[p].kind))
Cleared(p, k) == call[p].pc \in {"put", "set"} \/ (call[p].pc = "remove" /\ Before(k, call[p].kind))
Entered(p, k) == call[p].pc = "set" \/ (call[p].pc = "put" /\ Before(k, call[p].kind))

(* The key under which index k has the user that p saves.                   *)
Holds(p, k, key) ==
  IF Entered(p, k) THEN call[p].user[k] = key
  ELSE ~Cleared(p, k) /\ table[call[p].user.id][k] = key

Exact(id) ==
  \A k \in Kind, key \in Key : index[k][key] = id <=> table[id][k] = key

ExactFor(p) ==
  \A k \in Kind, key \in Key : index[k][key] = call[p].user.id <=> Holds(p, k, key)

(* Saves in progress neither write the same user nor claim the same key.    *)
Separate ==
  \A p, q \in Proc : p # q /\ Saving(p) /\ Saving(q) => ~Claims(call[p].user, call[q].user)

(* What a Save read of its user is still true when it writes.               *)
OldKnown == \A p \in Proc : Writing(p) => call[p].old = table[call[p].user.id]

NotTaken ==
  \A p \in Proc, k \in Kind :
    Checked(p, k) /\ call[p].user[k] # Empty =>
      index[k][call[p].user[k]] \in {Empty, call[p].user.id}

SettledExact == \A id \in UserID : id # interrupted.id /\ Settled(id) => Exact(id)

SavingExact == \A p \in Proc : Saving(p) /\ call[p].user.id # interrupted.id => ExactFor(p)

(* After a crash no other Save has the user it cut short or a key of it.    *)
Apart ==
  interrupted # NoUser =>
    \A p \in Proc : Saving(p) =>
      \/ call[p].user = interrupted
      \/ /\ ~Claims(call[p].user, interrupted)
         /\ ~Claims(call[p].user, table[interrupted.id])

(* What a Save enters in the indexes is what the record will say.           *)
Faithful == \A p \in Proc : Saving(p) => Encoded(call[p].user) = call[p].user

(* Of the user whose Save a crash cut short, the indexes have some of the   *)
(* old keys and some of the new ones, which nobody else has, and a repeated *)
(* Save brings them back in line.                                           *)
TornKeys ==
  LET id == interrupted.id
  IN  \A k \in Kind :
        /\ \A key \in Key : index[k][key] = id => key \in {table[id][k], interrupted[k]}
        /\ \A key \in {table[id][k], interrupted[k]} :
             key # Empty => index[k][key] \in {Empty, id}

Repairing(p) ==
  \A k \in Kind :
    /\ Cleared(p, k) =>
         \A key \in Key : index[k][key] = interrupted.id => key = interrupted[k]
    /\ Entered(p, k) /\ interrupted[k] # Empty => index[k][interrupted[k]] = interrupted.id

TornOK ==
  interrupted # NoUser =>
    TornKeys /\ \A p \in Proc : Saving(p) /\ call[p].user = interrupted => Repairing(p)

(* The inductive invariant behind LookupsExact and KeysUnique.              *)
StorageInv ==
  ~suspect =>
    /\ Separate /\ OldKnown /\ NotTaken /\ SettledExact /\ SavingExact
    /\ Apart /\ Faithful /\ TornOK
-----------------------------------------------------------------------------
(* A Save that answers an error has changed nothing, for any number of      *)
(* concurrent callers: the only steps that write are those past the point  *)
(* where Save can still refuse.                                            *)
RefusedSaveWritesNothing ==
  [][\A p \in Proc :
       Saving(p) /\ call'[p].pc = "done" /\ call'[p].err # "nil"
         => call[p].pc \in {"check", "old"} /\ UNCHANGED store]_vars

(* A Save removes keys and enters keys without looking whose they are by    *)
(* then, several calls after it checked.  Still, in a store that is not     *)
(* suspect, it neither takes nor removes an index entry of another user, be *)
(* it a first attempt, the repetition of a Save that a crash cut short, or  *)
(* the Save of another user while that repetition is outstanding.           *)
SavesLeaveOthersKeys ==
  [][\A p \in Proc :
       ~suspect /\ crashes' = crashes /\ Saving(p) /\ call'[p] # call[p]
         => \A k \in Kind, key \in Key :
              index'[k][key] # index[k][key] => index[k][key] \in {Empty, call[p].user.id}]_vars

(* The README's promise, with nothing said of callers that overlap: each     *)
(* email and login name is unique among all users.                          *)
EmailsUnique ==
  \A i, j \in UserID, k \in {"email", "login"} :
    i # j /\ table[i][k] # Empty => table[i][k] # table[j][k]

(* What a caller waits for, and what it was answered.                       *)
Asked(p) ==
  CASE Ready(p)  -> [op |-> "none", kind |-> "id", key |-> Empty, user |-> NoUser]
    [] Saving(p) -> [op |-> "save", kind |-> "id", key |-> Empty, user |-> call[p].user]
    [] OTHER     -> [op |-> "find", kind |-> call[p].kind, key |-> call[p].key, user |-> NoUser]

Answered(p) ==
  IF call[p].pc = "done" THEN [err |-> call[p].err, user |-> call[p].user]
                         ELSE [err |-> "none", user |-> NoUser]

(* Calls that do not overlap behave as if each were one step on a map of     *)
(* users.  A find takes effect when it reads the record or misses the      *)
(* index, a Save when it writes the record or refuses: everything before   *)
(* the last step of a call leaves the map of users alone.                  *)
Store == INSTANCE UserStore WITH
  users  <- table,
  asked  <- [p \in Proc |-> Asked(p)],
  answer <- [p \in Proc |-> Answered(p)]

ActsAsUserStore == Store!Spec
-----------------------------------------------------------------------------
(* Why this is so.  While no call overlaps another and no driver call fails, *)
(* the entry that a find has followed is that of the record it will read.   *)
Calm ==
  /\ faults = 0 /\ crashes = 0 /\ Faithful
  /\ \A p, q \in Proc : ~Ready(p) /\ ~Ready(q) => p = q

FindOK(p) ==
  /\ call[p].pc = "lookup" => call[p].kind \in Kind /\ call[p].key \in Key
  /\ call[p].pc = "fetch" =>
       \/ call[p].kind = "id" /\ call[p].key = call[p].id
       \/ /\ call[p].kind \in Kind /\ call[p].key \in Key
          /\ index[call[p].kind][call[p].key] = call[p].id

FindsOK == \A p \in Proc : FindOK(p)

CalmInv == ~suspect /\ interrupted = NoUser /\ FindsOK
=============================================================================
