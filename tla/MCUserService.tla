---------------------------- MODULE MCUserService ----------------------------
(* Small instances of UserService: what clients send, and what earlier runs *)
(* of userd left in the store.                                              *)
EXTENDS UserServiceProps, HttpApi, SequencesExt

Creates    == {[NoRequest EXCEPT !.op = "create", !.profile = f, !.email = e, !.login = l,
                                 !.password = w] :
                 f \in Profile, e \in Email, l \in LoginName, w \in Password}
Gets       == {[NoRequest EXCEPT !.op = "get", !.id = id] : id \in UserID}
NewLogins  == {[NoRequest EXCEPT !.op = "change_login_credentials", !.id = id, !.login = l,
                                 !.password = w] :
                 id \in UserID, l \in LoginName, w \in Password}
NewNames   == {[NoRequest EXCEPT !.op = "change_profile_name", !.id = id, !.profile = f] :
                 id \in UserID, f \in Profile}
NewEmails  == {[NoRequest EXCEPT !.op = "change_email", !.id = id, !.email = e] :
                 id \in UserID, e \in Email}
Logins     == {[NoRequest EXCEPT !.op = "authenticate", !.login = l, !.password = w] :
                 l \in LoginName, w \in Password}
Verifies   == {[NoRequest EXCEPT !.op = "verify_email", !.id = id] : id \in UserID}
Checks     == {[NoRequest EXCEPT !.op = "check_and_verify_email", !.id = id, !.email = e] :
                 id \in UserID, e \in Email}
NewTokens  == {[NoRequest EXCEPT !.op = "new_reset_token", !.email = e] : e \in Email}
Resets     == {[NoRequest EXCEPT !.op = "reset_credentials", !.token = t, !.login = l,
                                 !.password = w] :
                 t \in Token, l \in LoginName, w \in Password}
Incomplete == {[NoRequest EXCEPT !.op = op] : op \in Op}

AllRequests == Creates \cup Gets \cup NewLogins \cup NewNames \cup NewEmails \cup Logins
                 \cup Verifies \cup Checks \cup NewTokens \cup Resets \cup Incomplete

(* The requests that change the keys of users, and one that reads them.     *)
KeyRequests == Creates \cup NewLogins \cup NewEmails \cup NewTokens \cup Resets
                 \cup Logins

(* Reset tokens, and a request that saves a user as it was.                 *)
TokenRequests == NewTokens \cup Resets \cup NewNames

(* One user, whose password an earlier run hashed at a lower cost.          *)
OldUser(id, e, l, w, v) ==
  [id |-> id, email |-> e, login |-> l, token |-> Empty,
   data |-> [profile |-> CHOOSE f \in Profile : TRUE, issued |-> Empty, verified |-> v,
             hash |-> [password |-> w, cost |-> "lower"]]]

Nobody == [id \in UserID |-> NoUser]

EmptyTables == {Nobody}

OldTables ==
  {[Nobody EXCEPT ![id] = OldUser(id, e, l, w, v)] :
     id \in UserID, e \in Email, l \in LoginName, w \in Password,
     v \in {AuthEmailMustBeVerified, FALSE}}

(* One user, or none.                                                      *)
FewUsers == EmptyTables \cup OldTables

(* Every user id is taken.                                                 *)
FullTables ==
  {[id \in UserID |-> OldUser(id, e[id], l[id], w, FALSE)] :
     e \in {f \in [UserID -> Email] : \A i, j \in UserID : f[i] = f[j] => i = j},
     l \in {f \in [UserID -> LoginName] : \A i, j \in UserID : f[i] = f[j] => i = j},
     w \in Password}

Symmetry ==
  Permutations(Proc) \cup Permutations(UserID) \cup Permutations(Email)
    \cup Permutations(LoginName) \cup Permutations(Token) \cup Permutations(Password)

NotSuspect == ~suspect

(* The ids and tokens of the sequence factory, and none for the other one.   *)
IdNumbers    == SetToSeq(UserID)
TokenNumbers == SetToSeq(Token)
NoNumbers    == <<>>
=============================================================================
