--------------------------- MODULE KeyValueStorage ---------------------------
(***************************************************************************)
(* service/storage/keyvalue.go: the UserStorage built from one table of    *)
(* user records and three indexes, with no lock around Save or FindBy*.    *)
(* Every call of a driver is a step of its own, so the calls of concurrent *)
(* requests interleave between any two of them, a driver call can fail,    *)
(* and the process can die between any two of them.                        *)
(*                                                                         *)
(* Kind names the indexes: "email" is s.Emails, "login" is s.LoginNames    *)
(* and "token" is s.ResetPasswordToken.  A user record has a field of each *)
(* of these names, so user[k] is the key the user has in index k.          *)
(***************************************************************************)
EXTENDS Naturals, Drivers

CONSTANTS Proc,        \* the goroutines that serve requests
          UserID,      \* user ids
          Email, LoginName, Token,  \* the non-empty keys of the three indexes
          Payload,     \* the other fields of a user, opaque to the storage
          Utf8,        \* a key as encoding/json writes it, with U+FFFD for invalid UTF-8
          Earlier,     \* the tables that earlier runs of userd may have left
          MaxFaults,   \* bound on failing driver calls
          MaxCrashes   \* bound on deaths of the process

Kind == {"email", "login", "token"}
Key  == Email \cup LoginName \cup Token

ASSUME EmptyAssumption ==
  Empty \notin UserID \cup Key \cup Payload

ASSUME BoundsAssumption == MaxFaults \in Nat /\ MaxCrashes \in Nat

(* A stored user, and the zero value user.User{}.                          *)
User == [id : UserID, email : Email, login : LoginName,
         token : Token \cup {Empty}, data : Payload]

NoUser == [id |-> Empty, email |-> Empty, login |-> Empty, token |-> Empty,
           data |-> Empty]

(* Only an email or a login name, which a client chooses, can be invalid    *)
(* UTF-8; two that differ only there become one.                           *)
ASSUME Utf8Assumption ==
  /\ \A key \in Email : Utf8[key] \in Email
  /\ \A key \in LoginName : Utf8[key] \in LoginName

EmptyTable == [id \in UserID |-> NoUser]

(* What a caller may pass to Save: the fields it validates can be missing. *)
UserArgument == [id : UserID \cup {Empty}, email : Email \cup {Empty},
                 login : LoginName \cup {Empty},
                 token : Token \cup {Empty}, data : Payload]

(* A mutant: the login name is not checked.                                *)
ValidWithoutLogin(user) == user.id # Empty /\ user.email # Empty

Valid(user) == user.id # Empty /\ user.email # Empty /\ user.login # Empty

(* The record that json.Unmarshal gives back of what json.Marshal made of   *)
(* this one.  (Marshal's own error is not for these fields: strings, a      *)
(* boolean and a time that was the clock's.)                                *)
Encoded(user) == [user EXCEPT !.email = Utf8[@], !.login = Utf8[@]]

(* Tables are what the API can leave behind: a record is stored under its id, *)
(* and no two users share an email, a login name or a reset token.          *)
WellFormed(tbl) == \A id \in UserID : tbl[id].id \in {id, Empty}

NoSharedKeys(tbl) ==
  \A i, j \in UserID, k \in Kind : i # j /\ tbl[i][k] = tbl[j][k] => tbl[i][k] = Empty

ASSUME EarlierAssumption ==
  \A tbl \in Earlier :
    tbl \in [UserID -> User \cup {NoUser}] /\ WellFormed(tbl) /\ NoSharedKeys(tbl)

VARIABLES table,   \* Driver: user id -> record, NoUser where there is none
          index,   \* kind -> key -> user id, Empty where there is none
          call,    \* the storage call each goroutine is in
          faults, crashes,
          interrupted,  \* history: the record whose Save a crash cut short
          suspect       \* history: something happened that can damage the indexes for good

store   == <<table, index>>
history == <<interrupted, suspect>>
vars    == <<table, index, call, faults, crashes, interrupted, suspect>>

SavePhase == {"check", "old", "remove", "put", "set"}
Phase     == {"idle", "lookup", "fetch", "done"} \cup SavePhase

Error == {"nil", "UserNotFound", "EmailAlreadyTaken", "LoginNameAlreadyTaken",
          "InvalidUserObject", "internal"}

(* pc is where the call stands; kind is the index it is at (for a find, the *)
(* index it was asked about); key and id are a find's key and the id the   *)
(* index gave for it; user is Save's argument, or the record a find found; *)
(* old is Save's oldUser.                                                  *)
Call == [pc : Phase, kind : Kind \cup {"id"}, key : Key \cup UserID \cup {Empty},
         id : UserID \cup {Empty}, user : User \cup {NoUser},
         old : User \cup {NoUser}, err : Error]

Idle == [pc |-> "idle", kind |-> "id", key |-> Empty, id |-> Empty,
         user |-> NoUser, old |-> NoUser, err |-> "nil"]

Ready(p)  == call[p].pc \in {"idle", "done"}
Saving(p) == call[p].pc \in SavePhase

Goto(p, pc, kind) == call' = [call EXCEPT ![p].pc = pc, ![p].kind = kind]

Return(p, err, user) ==
  call' = [call EXCEPT ![p] = [Idle EXCEPT !.pc = "done", !.err = err, !.user = user]]
-----------------------------------------------------------------------------
(* History: two Saves overlap in a way the code does not guard against when *)
(* they write the same user or claim the same key.                         *)
Claims(user, other) ==
  \/ user.id = other.id
  \/ \E k \in Kind : user[k] # Empty /\ user[k] = other[k]

Overlaps(user) == \E q \in Proc : Saving(q) /\ Claims(user, call[q].user)

(* History: the same of a Save that a crash cut short, for the keys it was   *)
(* to write and those it was to remove.  Repeating it is no such conflict.  *)
MeetsTorn(user) ==
  interrupted \notin {NoUser, user}
    /\ \E torn \in {interrupted, table[interrupted.id]} : Claims(user, torn)
-----------------------------------------------------------------------------
(* Save(user): the argument is validated before any driver call.           *)
Save(p, user) ==
  /\ Ready(p)
  /\ IF Valid(user)
     THEN /\ call' = [call EXCEPT ![p] = [Idle EXCEPT !.pc = "check", !.kind = "email",
                                                      !.user = user]]
          /\ suspect' = (\/ suspect
                         \/ Overlaps(user) \/ MeetsTorn(user)
                         \/ Encoded(user) # user)
     ELSE /\ Return(p, "InvalidUserObject", NoUser)
          /\ UNCHANGED suspect
  /\ UNCHANGED <<store, faults, crashes, interrupted>>

(* Mutants: one index is not checked; a user's own key counts as taken.     *)
TakenButForLogin(user, k) ==
  k # "login" /\ user[k] # Empty /\ index[k][user[k]] \notin {Empty, user.id}

TakenByAnybody(user, k) == user[k] # Empty /\ index[k][user[k]] # Empty

(* checkTakenByOtherUser, for one index; an empty token is not looked up.   *)
TakenByOtherUser(user, k) ==
  user[k] # Empty /\ index[k][user[k]] \notin {Empty, user.id}

TakenError(k) == IF k = "email" THEN "EmailAlreadyTaken" ELSE "LoginNameAlreadyTaken"

CheckTaken(p) ==
  LET user == call[p].user
      k    == call[p].kind
  IN  /\ call[p].pc = "check"
      /\ IF TakenByOtherUser(user, k)
         THEN Return(p, TakenError(k), NoUser)
         ELSE CASE k = "email" -> Goto(p, "check", "login")
                [] k = "login" -> Goto(p, "check", "token")
                [] k = "token" -> Goto(p, "old", "email")
      /\ UNCHANGED <<store, faults, crashes, history>>

(* oldUser := noLockLookup(user.ID); UserNotFound leaves the zero record.   *)
LookupOld(p) ==
  /\ call[p].pc = "old"
  /\ call' = [call EXCEPT ![p].pc = "remove", ![p].kind = "email",
                          ![p].old = table[call[p].user.id]]
  /\ UNCHANGED <<store, faults, crashes, history>>

(* A mutant: the token index is left out.                                   *)
PutAllButToken(p) ==
  IF call[p].kind = "email" THEN Goto(p, "put", "login") ELSE Goto(p, "set", "email")

AfterRemove(p) ==
  CASE call[p].kind = "email" -> Goto(p, "remove", "login")
    [] call[p].kind = "login" -> Goto(p, "remove", "token")
    [] call[p].kind = "token" -> Goto(p, "put", "email")

AfterPut(p) ==
  CASE call[p].kind = "email" -> Goto(p, "put", "login")
    [] call[p].kind = "login" -> Goto(p, "put", "token")
    [] call[p].kind = "token" -> Goto(p, "set", "email")

(* The old key leaves index k, unless there was none.                      *)
RemoveOld(p) ==
  LET k   == call[p].kind
      key == call[p].old[k]
  IN  /\ call[p].pc = "remove"
      /\ index' = IF key = Empty THEN index ELSE [index EXCEPT ![k] = Remove(@, key)]
      /\ AfterRemove(p)
      /\ UNCHANGED <<table, faults, crashes, history>>

(* The new key enters index k, unless there is none.                       *)
PutNew(p) ==
  LET k    == call[p].kind
      user == call[p].user
  IN  /\ call[p].pc = "put"
      /\ index' = IF user[k] = Empty THEN index
                  ELSE [index EXCEPT ![k] = Put(@, user[k], user.id)]
      /\ AfterPut(p)
      /\ UNCHANGED <<table, faults, crashes, history>>

(* The record is written last, as JSON, and Save answers nil.              *)
SetUser(p) ==
  /\ call[p].pc = "set"
  /\ table' = SetRecord(table, call[p].user.id, Encoded(call[p].user))
  /\ Return(p, "nil", NoUser)
  /\ interrupted' = IF call[p].user = interrupted THEN NoUser ELSE interrupted
  /\ UNCHANGED <<index, faults, crashes, suspect>>
-----------------------------------------------------------------------------
(* Get(userID) reads the record; FindBy*(key) reads the index, then the    *)
(* record of the id it found there.                                        *)
Get(p, id) ==
  /\ Ready(p)
  /\ call' = [call EXCEPT ![p] = [Idle EXCEPT !.pc = "fetch", !.key = id, !.id = id]]
  /\ UNCHANGED <<store, faults, crashes, history>>

FindBy(p, k, key) ==
  /\ Ready(p)
  /\ call' = [call EXCEPT ![p] = [Idle EXCEPT !.pc = "lookup", !.kind = k, !.key = key]]
  /\ UNCHANGED <<store, faults, crashes, history>>

Lookup(p) ==
  LET id == index[call[p].kind][call[p].key]
  IN  /\ call[p].pc = "lookup"
      /\ IF id = Empty THEN Return(p, "UserNotFound", NoUser)
                       ELSE call' = [call EXCEPT ![p].pc = "fetch", ![p].id = id]
      /\ UNCHANGED <<store, faults, crashes, history>>

(* noLockLookup *)
Fetch(p) ==
  LET user == table[call[p].id]
  IN  /\ call[p].pc = "fetch"
      /\ Return(p, IF user = NoUser THEN "UserNotFound" ELSE "nil", user)
      /\ UNCHANGED <<store, faults, crashes, history>>
(* The caller has read the answer and makes no other storage call for now.  *)
TakeAnswer(p) ==
  /\ call[p].pc = "done"
  /\ call' = [call EXCEPT ![p] = Idle]
  /\ UNCHANGED <<store, faults, crashes, history>>
-----------------------------------------------------------------------------
(* A failing read ends the call with a masked error, before any write.     *)
ReadFails(p) ==
  /\ DriverCanFail /\ faults < MaxFaults
  /\ \/ call[p].pc \in {"lookup", "fetch", "old"}
     \/ call[p].pc = "check" /\ call[p].user[call[p].kind] # Empty
  /\ Return(p, "internal", NoUser)
  /\ faults' = faults + 1
  /\ UNCHANGED <<store, crashes, history>>

(* A mutant: Save stops at the first write that fails, and answers its error. *)
WriteErrorAnswered(p) ==
  /\ DriverCanFail /\ faults < MaxFaults
  /\ call[p].pc \in {"remove", "put", "set"}
  /\ Return(p, "internal", NoUser)
  /\ faults' = faults + 1
  /\ suspect' = TRUE
  /\ UNCHANGED <<store, crashes, interrupted>>

(* Save drops the error of a failing Remove, Put or Set and goes on.       *)
WriteFails(p) ==
  /\ DriverCanFail /\ faults < MaxFaults
  /\ \/ /\ call[p].pc = "remove" /\ call[p].old[call[p].kind] # Empty
        /\ AfterRemove(p)
     \/ /\ call[p].pc = "put" /\ call[p].user[call[p].kind] # Empty
        /\ AfterPut(p)
     \/ /\ call[p].pc = "set"
        /\ Return(p, "nil", NoUser)
  /\ faults' = faults + 1
  /\ suspect' = TRUE
  /\ UNCHANGED <<store, crashes, interrupted>>

(* The process dies with its goroutines.  A memory store dies with it; a    *)
(* persistent one keeps what was written so far.                           *)
Writing(p) == call[p].pc \in {"remove", "put", "set"}

(* History: a Save removes the keys of the stored record, whoever has them   *)
(* by now, so it cannot be repeated once another user took a key that it    *)
(* had released.                                                            *)
LostOldKey(user) ==
  \E k \in Kind : LET key == table[user.id][k]
                 IN  key # Empty /\ index[k][key] \notin {Empty, user.id}

Crash ==
  LET cut  == {call[p].user : p \in {q \in Proc : Writing(q)}}
      torn == cut \cup ({interrupted} \ {NoUser})
  IN  /\ crashes < MaxCrashes
      /\ crashes' = crashes + 1
      /\ call' = [p \in Proc |-> Idle]
      /\ IF DriverPersists
         THEN /\ interrupted' = IF torn = {} THEN NoUser ELSE CHOOSE u \in torn : TRUE
              /\ suspect' = (suspect \/ (\E u, w \in torn : u # w) \/ \E u \in cut : LostOldKey(u))
              /\ UNCHANGED store
         ELSE /\ table' = EmptyTable
              /\ index' = [k \in Kind |-> [key \in Key |-> Empty]]
              /\ interrupted' = NoUser
              /\ suspect' = FALSE
      /\ UNCHANGED faults
-----------------------------------------------------------------------------
(* A memory store starts empty.  A persistent store holds what earlier runs *)
(* left, with the indexes that belong to it.                               *)
OwnerOf(tbl, k, key) ==
  IF \E id \in UserID : tbl[id][k] = key
  THEN CHOOSE id \in UserID : tbl[id][k] = key
  ELSE Empty

Init ==
  /\ table \in IF DriverPersists THEN Earlier ELSE {EmptyTable}
  /\ index = [k \in Kind |-> [key \in Key |-> OwnerOf(table, k, key)]]
  /\ call = [p \in Proc |-> Idle]
  /\ faults = 0 /\ crashes = 0
  /\ interrupted = NoUser /\ suspect = FALSE

Invoke(p) ==
  \/ \E user \in UserArgument : Save(p, user)
  \/ \E id \in UserID : Get(p, id)
  \/ \E key \in Email : FindBy(p, "email", key)
  \/ \E key \in LoginName : FindBy(p, "login", key)
  \/ \E key \in Token : FindBy(p, "token", key)
  \/ TakeAnswer(p)

Step(p) ==
  \/ CheckTaken(p) \/ LookupOld(p) \/ RemoveOld(p) \/ PutNew(p) \/ SetUser(p)
  \/ Lookup(p) \/ Fetch(p)

Fail(p) == ReadFails(p) \/ WriteFails(p)

Next ==
  \/ \E p \in Proc : Invoke(p) \/ Step(p) \/ Fail(p)
  \/ Crash

Spec == Init /\ [][Next]_vars
=============================================================================
