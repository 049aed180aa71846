------------------------------ MODULE UserStore ------------------------------
(***************************************************************************)
(* service/backends.go: what UserService expects of a UserStorage.  A call  *)
(* takes effect in one step between its start and its return; users are    *)
(* found by the keys of their records; emails, login names and reset tokens *)
(* are unique among users, and a Save that would break this is refused.    *)
(***************************************************************************)
CONSTANTS Proc, UserID, Empty,
          Key,      \* emails, login names and reset tokens
          User,     \* the records that can be stored
          NoUser    \* the zero record: no user is stored under this id

Kind == {"email", "login", "token"}

VARIABLES users,    \* user id -> record
          asked,    \* the call each goroutine waits for
          answer    \* what its last call returned

vars == <<users, asked, answer>>

Nothing  == [op |-> "none", kind |-> "id", key |-> Empty, user |-> NoUser]
NoAnswer == [err |-> "none", user |-> NoUser]

Find == [op : {"find"}, kind : Kind \cup {"id"}, key : Key \cup UserID, user : {NoUser}]
Save == [op : {"save"}, kind : {"id"}, key : {Empty}, user : User]

Init ==
  /\ asked = [p \in Proc |-> Nothing]
  /\ answer = [p \in Proc |-> NoAnswer]

Answer(p, err, user) ==
  /\ asked' = [asked EXCEPT ![p] = Nothing]
  /\ answer' = [answer EXCEPT ![p] = [err |-> err, user |-> user]]

(* A goroutine starts a call, or is done with the answer to its last one.   *)
Ask(p) ==
  /\ asked[p] = Nothing
  /\ asked' = [asked EXCEPT ![p] = asked'[p]]
  /\ asked'[p] \in Find \cup Save \cup {Nothing}
  /\ answer' = [answer EXCEPT ![p] = NoAnswer]
  /\ UNCHANGED users

(* A record without id, email or login name is not a user.                 *)
RefuseInvalid(p) ==
  /\ asked[p] = Nothing
  /\ Answer(p, "InvalidUserObject", NoUser)
  /\ UNCHANGED users

Found(p) ==
  \E id \in UserID :
    /\ asked[p].op = "find"
    /\ users[id] # NoUser /\ users[id][asked[p].kind] = asked[p].key
    /\ Answer(p, "nil", users[id])
    /\ UNCHANGED users

NotFound(p) ==
  /\ asked[p].op = "find"
  /\ \A id \in UserID : users[id] = NoUser \/ users[id][asked[p].kind] # asked[p].key
  /\ Answer(p, "UserNotFound", NoUser)
  /\ UNCHANGED users

(* The indexes in which another user has a key of this one.                *)
Conflicts(user) ==
  {k \in Kind : \E id \in UserID :
                  id # user.id /\ user[k] # Empty /\ users[id][k] = user[k]}

Saved(p) ==
  LET user == asked[p].user
  IN  /\ asked[p].op = "save"
      /\ Conflicts(user) = {}
      /\ users' = [users EXCEPT ![user.id] = user]
      /\ Answer(p, "nil", NoUser)

Taken(p) ==
  LET conflicts == Conflicts(asked[p].user)
  IN  /\ asked[p].op = "save"
      /\ conflicts # {}
      /\ Answer(p, IF "email" \in conflicts THEN "EmailAlreadyTaken"
                                            ELSE "LoginNameAlreadyTaken", NoUser)
      /\ UNCHANGED users

Next ==
  \E p \in Proc :
    Ask(p) \/ RefuseInvalid(p) \/ Found(p) \/ NotFound(p) \/ Saved(p) \/ Taken(p)

Spec == Init /\ [][Next]_vars
=============================================================================
