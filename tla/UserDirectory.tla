---------------------------- MODULE UserDirectory ----------------------------
(***************************************************************************)
(* What UserService promises: a directory of users in which every request   *)
(* takes effect, and gets its answer, in one step some time after it        *)
(* arrived.  Restarts are not part of it: a crash can tear a request apart.  *)
(***************************************************************************)
EXTENDS UserAccounts, Sequences

CONSTANT Proc

VARIABLES users,   \* user id -> record
          req, since, answer,   \* the request of each goroutine, as in UserService
          events, now

vars == <<users, req, since, answer, events, now>>

Pending(p) == req[p] # NoRequest /\ answer[p] = NoAnswer

Reply(p, err, user, logged) ==
  /\ answer' = [answer EXCEPT ![p] = AnswerTo(req[p], err, user)]
  /\ events' = events \o logged
  /\ UNCHANGED <<req, since, now>>

Refuse(p, err) == Reply(p, err, NoUser, <<>>) /\ UNCHANGED users

(* A record enters the directory unless another user has one of its keys.   *)
Conflicts(user) ==
  {k \in {"email", "login", "token"} :
     \E id \in UserID : id # user.id /\ user[k] # Empty /\ users[id][k] = user[k]}

Enter(p, user) ==
  /\ Conflicts(user) = {}
  /\ users' = [users EXCEPT ![user.id] = user]
  /\ Reply(p, "nil", user, <<Event(req[p].op, user)>>)

RefuseTaken(p, user) ==
  \/ "email" \in Conflicts(user) /\ Refuse(p, "EmailAlreadyTaken")
  \/ "email" \notin Conflicts(user) /\ Conflicts(user) # {} /\ Refuse(p, "LoginNameAlreadyTaken")

(* The users that the request of p is about: one or none.                   *)
Matching(p) ==
  {users[id] : id \in {i \in UserID : users[i] # NoUser
                         /\ users[i][LookupKind(req[p].op)] = LookupKey(req[p])}}
-----------------------------------------------------------------------------
Ask(p) ==
  \E r \in Request :
    /\ ~Pending(p)
    /\ req' = [req EXCEPT ![p] = r]
    /\ since' = [since EXCEPT ![p] = now]
    /\ answer' = [answer EXCEPT ![p] = IF Complete(r) THEN NoAnswer
                                                      ELSE Answer("InvalidArguments", Empty)]
    /\ UNCHANGED <<users, events, now>>

Create(p) ==
  \E id \in UserID :
    /\ req[p].op = "create" /\ users[id] = NoUser
    /\ Enter(p, NewUser(id, req[p])) \/ RefuseTaken(p, NewUser(id, req[p]))

NotFound(p) ==
  /\ req[p].op # "create" /\ Matching(p) = {}
  /\ Refuse(p, IF req[p].op = "reset_credentials" THEN "InvalidArguments" ELSE "UserNotFound")

Get(p) ==
  \E user \in Matching(p) :
    req[p].op = "get" /\ Reply(p, "nil", user, <<>>) /\ UNCHANGED users

Modify(p) ==
  \E user \in Matching(p) :
    /\ req[p].op \in ReadModifyWrite
    /\ IF WrongEmail(user, req[p])
       THEN Refuse(p, "InvalidVerificationEmail")
       ELSE Enter(p, Modified(user, req[p])) \/ RefuseTaken(p, Modified(user, req[p]))

(* A login succeeds exactly with the login name and password of a user that *)
(* may log in; it leaves the user alone but for the cost of the hash.       *)
Authenticate(p) ==
  \E user \in Matching(p) :
    LET err == AuthenticateError(user, req[p])
    IN  /\ req[p].op = "authenticate"
        /\ IF err # "nil" THEN Refuse(p, err)
           ELSE Enter(p, [user EXCEPT !.data.hash.cost = "configured"])

(* The token is one that no user has.                                       *)
NewToken(p) ==
  \E user \in Matching(p), token \in Token, time \in since[p]..now :
    /\ req[p].op = "new_reset_token"
    /\ \A id \in UserID : users[id].token # token
    /\ Enter(p, WithToken(user, token, time))

(* A token is good for ResetPasswordExpireTime, the last moment included.    *)
GoodUntil(user) == user.data.issued + ResetPasswordExpireTime

(* A user found by a token has the time it was issued, and the token is not *)
(* honoured once it was expired when the request arrived.                   *)
ResetCredentials(p) ==
  \E user \in Matching(p) :
    /\ req[p].op = "reset_credentials"
    /\ \/ GoodUntil(user) < now /\ Refuse(p, "ResetPasswordTokenExpired")
       \/ /\ since[p] <= GoodUntil(user)
          /\ Enter(p, Reset(user, req[p])) \/ RefuseTaken(p, Reset(user, req[p]))

Perform(p) ==
  /\ Pending(p)
  /\ \/ Create(p) \/ NotFound(p) \/ Get(p) \/ Modify(p) \/ Authenticate(p)
     \/ NewToken(p) \/ ResetCredentials(p)

Tick == now' = now + 1 /\ UNCHANGED <<users, req, since, answer, events>>

Init ==
  /\ req = [p \in Proc |-> NoRequest]
  /\ answer = [p \in Proc |-> NoAnswer]
  /\ since = [p \in Proc |-> 0]
  /\ events = <<>> /\ now = 0

Next == (\E p \in Proc : Ask(p) \/ Perform(p)) \/ Tick

Spec == Init /\ [][Next]_vars
=============================================================================
