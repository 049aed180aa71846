---------------------------- MODULE UserAccounts -----------------------------
(***************************************************************************)
(* The data of service/service.go: user records, password hashes, requests *)
(* and events, and what each request makes of a user record.               *)
(***************************************************************************)
EXTENDS Naturals

CONSTANTS Empty,      \* the empty string, and Go's nil
          UserID, Email, LoginName, Token, Profile, Password,
          MaxTime,    \* bound on the clock
          AuthEmailMustBeVerified, ResetPasswordExpireTime,  \* service.Config
          Request     \* the requests that clients send

(* Config.ValidateValues: NewUserService panics on anything else.           *)
ASSUME ConfigAssumption ==
  /\ AuthEmailMustBeVerified \in BOOLEAN
  /\ ResetPasswordExpireTime \in Nat \ {0}
  /\ MaxTime \in Nat

Time == 0..MaxTime

(* A reset token that was not issued has no time.                           *)
ASSUME NilAssumption == Empty \notin Time
-----------------------------------------------------------------------------
(* hasher/bcrypt.go.  A hash tells which password it is of and whether its  *)
(* cost is below the configured one, as after a restart with a higher cost. *)
PasswordHash == [password : Password, cost : {"lower", "configured"}]

(* A mutant: the password itself is stored.                                *)
PlainPassword(password) == password

Hash(password)         == [password |-> password, cost |-> "configured"]
Verify(password, hash) == hash.password = password
NeedsRehash(hash)      == hash.cost = "lower"

(* user.User, in the shape the storage sees it.                             *)
Details == [profile : Profile, hash : PasswordHash, verified : BOOLEAN,
            issued : Time \cup {Empty}]

User == [id : UserID, email : Email, login : LoginName,
         token : Token \cup {Empty}, data : Details]

NoUser == [id |-> Empty, email |-> Empty, login |-> Empty, token |-> Empty,
           data |-> Empty]
-----------------------------------------------------------------------------
(* A request names an operation of UserService and its arguments; a missing *)
(* argument is Empty.                                                       *)
Op == {"create", "get", "change_login_credentials", "change_profile_name",
       "change_email", "authenticate", "verify_email", "check_and_verify_email",
       "new_reset_token", "reset_credentials"}

NoRequest == [op |-> "none", id |-> Empty, profile |-> Empty, email |-> Empty,
              login |-> Empty, password |-> Empty, token |-> Empty]

ASSUME RequestAssumption ==
  Request \subseteq
    [op : Op, id : UserID \cup {Empty}, profile : Profile \cup {Empty},
     email : Email \cup {Empty}, login : LoginName \cup {Empty},
     password : Password \cup {Empty}, token : Token \cup {Empty}]

Required(op) ==
  CASE op = "create"                   -> {"profile", "email", "login", "password"}
    [] op = "change_login_credentials" -> {"id", "login", "password"}
    [] op = "change_profile_name"      -> {"id", "profile"}
    [] op \in {"change_email", "check_and_verify_email"} -> {"id", "email"}
    [] op = "authenticate"             -> {"login", "password"}
    [] op \in {"get", "verify_email"}  -> {"id"}
    [] op = "new_reset_token"          -> {"email"}
    [] op = "reset_credentials"        -> {"token", "login", "password"}

Complete(r) == \A field \in Required(r.op) : r[field] # Empty

(* The operations built on readModifyWrite.                                 *)
ReadModifyWrite == {"change_login_credentials", "change_profile_name", "change_email",
                    "verify_email", "check_and_verify_email"}

(* How the storage is asked for the user that a request is about.           *)
LookupKind(op) ==
  CASE op = "authenticate"      -> "login"
    [] op = "new_reset_token"   -> "email"
    [] op = "reset_credentials" -> "token"
    [] OTHER                    -> "id"

LookupKey(r) == r[LookupKind(r.op)]
-----------------------------------------------------------------------------
(* What a request makes of the user.                                        *)
NewUser(id, r) ==
  [id |-> id, email |-> r.email, login |-> r.login, token |-> Empty,
   data |-> [profile |-> r.profile, hash |-> Hash(r.password), verified |-> FALSE,
             issued |-> Empty]]

WithCredentials(user, r) ==
  [user EXCEPT !.login = r.login, !.data.hash = Hash(r.password)]

Modified(user, r) ==
  CASE r.op = "change_login_credentials" -> WithCredentials(user, r)
    [] r.op = "change_profile_name"      -> [user EXCEPT !.data.profile = r.profile]
    [] r.op = "change_email"             -> [user EXCEPT !.email = r.email]
    [] OTHER                             -> [user EXCEPT !.data.verified = TRUE]

(* The modifier of CheckAndSetEmailVerified refuses another email.          *)
WrongEmail(user, r) == r.op = "check_and_verify_email" /\ user.email # r.email

WithToken(user, token, time) ==
  [user EXCEPT !.token = token, !.data.issued = time]

(* A mutant: the token stays with the user.                                *)
ResetKeepsToken(user, r) == WithCredentials(user, r)

Reset(user, r) ==
  [WithCredentials(user, r) EXCEPT !.token = Empty, !.data.issued = Empty]

Rehashed(user, r) == [user EXCEPT !.data.hash = Hash(r.password)]

(* A mutant: a token is no longer good at the last instant of its life.     *)
ExpiredAtOnce(user, time) == time >= user.data.issued + ResetPasswordExpireTime

Expired(user, time) == time > user.data.issued + ResetPasswordExpireTime

(* Authenticate checks the email before the password.                       *)
AuthenticateError(user, r) ==
  CASE AuthEmailMustBeVerified /\ ~user.data.verified -> "UserEmailMustBeVerified"
    [] ~Verify(r.password, user.data.hash)            -> "InvalidCredentials"
    [] OTHER                                          -> "nil"
-----------------------------------------------------------------------------
(* The answer to a request: an error, or an id, a token or a record.        *)
Answer(err, value) == [err |-> err, value |-> value]
NoAnswer           == Answer("none", Empty)

(* What a successful request answers.                                       *)
Value(op, user) ==
  CASE op \in {"create", "authenticate", "reset_credentials"} -> user.id
    [] op = "new_reset_token" -> user.token
    [] op = "get"             -> user
    [] OTHER                  -> Empty

AnswerTo(r, err, user) == Answer(err, IF err = "nil" THEN Value(r.op, user) ELSE Empty)

(* The event of a successful request; each operation has a tag of its own,   *)
(* but for the two that verify an email.                                    *)
Event(op, user) ==
  [tag   |-> IF op = "check_and_verify_email" THEN "verify_email" ELSE op,
   id    |-> user.id,
   email |-> IF op \in {"create", "change_email", "verify_email", "check_and_verify_email",
                        "new_reset_token"} THEN user.email ELSE Empty,
   token |-> IF op = "new_reset_token" THEN user.token ELSE Empty]
=============================================================================
