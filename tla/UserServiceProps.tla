-------------------------- MODULE UserServiceProps --------------------------
(***************************************************************************)
(* What UserService promises its clients, over UserService.                *)
(***************************************************************************)
EXTENDS UserService

(* The properties of the storage, in the hands of the service.              *)
Storage == INSTANCE KeyValueStorageProps WITH Payload <- Details, Utf8 <- ValidUtf8

(* How a request can end.                                                   *)
Outcome ==
  Store!Error \cup
    {"none", "panic", "InvalidArguments", "InvalidCredentials", "InvalidVerificationEmail",
     "UserEmailMustBeVerified", "ResetPasswordTokenExpired"}

Answers == [err : Outcome, value : UserID \cup Token \cup User \cup {Empty}]

EventRecord == [tag : Op, id : UserID, email : Email \cup {Empty}, token : Token \cup {Empty}]

(* Every variable of the service has its type, and a goroutine is in a      *)
(* storage call exactly while its request is in progress.                  *)
TypeOK ==
  /\ Storage!TypeOK
  /\ req \in [Proc -> Request \cup {NoRequest}]
  /\ phase \in [Proc -> {"idle", "number", "load", "save", "answered"}]
  /\ working \in [Proc -> User \cup {NoUser}]
  /\ answer \in [Proc -> Answers]
  /\ \A p \in Proc : phase[p] \in {"load", "save"} <=> call[p].pc # "idle"
  /\ since \in [Proc -> Time] /\ now \in Time /\ begun \in Nat
  /\ events \in Seq(EventRecord)
  /\ ids \subseteq UserID /\ sequence \in 0..Len(IdOf) /\ draw \in [Proc -> Ids!Draw]
  /\ known \subseteq Token /\ spent \subseteq known
  /\ owner \in [Token -> UserID \cup {Empty}]

LookupsExact == Storage!LookupsExact
KeysUnique   == Storage!KeysUnique

(* Under requests that do not overlap, the storage acts as one atomic map.   *)
ActsAsUserStore == Storage!ActsAsUserStore

(* A reset token only ever leads to the user it was made for, and resets no *)
(* other: whatever requests overlap, whatever writes are lost and wherever  *)
(* the process dies.                                                        *)
TokenBelongs ==
  /\ \A t \in Token : index["token"][t] \in {Empty, owner[t]}
  /\ \A id \in UserID : table[id].token # Empty => owner[table[id].token] = id
  /\ \A p \in Proc : phase[p] = "save" /\ req[p].op = "reset_credentials"
                       => working[p].id = owner[req[p].token]

(* A reset token resets credentials once, as long as requests do not        *)
(* overlap: once a reset with it succeeded, no record and no index has it   *)
(* any more, and no crash brings it back.                                   *)
SpentTokensAreGone ==
  \A t \in spent :
    index["token"][t] = Empty /\ \A id \in UserID : table[id].token # t

(* The user of every user.created event can be read: no concurrent request  *)
(* and no crash makes a user whose creation was announced vanish.           *)
CreatedUsersAreStored ==
  \A i \in 1..Len(events) :
    events[i].tag = "create" => table[events[i].id].id = events[i].id

(* Requests that do not overlap act as on a directory in which each takes   *)
(* effect at once: when the storage has written the record or has refused   *)
(* to, which is before the answer and the event are out.                    *)
Decided(p) ==
  IF Saved(p) THEN AnswerTo(req[p], SaveError(p), working[p]) ELSE answer[p]

Announced ==
  IF \E p \in Proc : Saved(p) THEN events \o SaveEvents(CHOOSE p \in Proc : Saved(p))
                             ELSE events

Directory == INSTANCE UserDirectory WITH
  users  <- table,
  answer <- [p \in Proc |-> Decided(p)],
  events <- Announced

ActsAsDirectory == Directory!Spec

(* A request ends with an answer.  Only a reset can end in a panic, which   *)
(* leaves its client without one: what TokenPanic finds.                    *)
Responded(p) ==
  phase[p] = "answered" /\ (answer[p].err = "panic" => req[p].op = "reset_credentials")

(* Every request responds, also when a driver call fails or other requests   *)
(* change or tear its user, unless the process dies under it.               *)
RequestsAnswered ==
  \A p \in Proc : phase[p] \in {"number", "load", "save"} ~> phase[p] = "idle" \/ Responded(p)

(* A login with the right password goes through, with its event, although    *)
(* the Save of the new hash may fail: whatever driver call fails and what-  *)
(* ever other requests make of the user meanwhile.                          *)
LoggedIn(p, id) ==
  /\ phase[p] = "answered" /\ answer[p] = Answer("nil", id)
  /\ events # <<>> /\ events[Len(events)].tag = "authenticate" /\ events[Len(events)].id = id

LoginsGoThrough ==
  \A p \in Proc, id \in UserID :
    phase[p] = "save" /\ req[p].op = "authenticate" /\ working[p].id = id
      ~> phase[p] = "idle" \/ LoggedIn(p, id)
-----------------------------------------------------------------------------
(* Why this is so.  Where a request is tells what it asked for, what it has *)
(* of a user, and which call of the storage it waits for.                   *)
LoadOK(p) ==
  /\ req[p].op # "create" /\ req[p].token \in known \cup {Empty}
  /\ call[p].pc \in {"lookup", "fetch", "done"}
  /\ call[p].pc = "done" /\ call[p].err = "nil" => call[p].user \in User

SaveOK(p) ==
  /\ req[p].op # "get" /\ working[p] \in User
  /\ req[p].op = "reset_credentials" => req[p].token \in known
  /\ req[p].op = "new_reset_token" => working[p].token \in Token
  /\ Store!Saving(p) \/ call[p].pc = "done"
  /\ Store!Saving(p) => call[p].user = working[p]

RequestOK(p) ==
  /\ phase[p] # "idle" => req[p] \in Request
  /\ phase[p] \in {"number", "load", "save"} => Complete(req[p])
  /\ phase[p] = "number" => req[p].op = "create"
  /\ phase[p] = "load" => LoadOK(p)
  /\ phase[p] = "save" => SaveOK(p)

RequestsOK == \A p \in Proc : RequestOK(p)

DrawsOK == \A p \in Proc : draw[p].step = "loaded" => draw[p].number < Len(IdOf)

(* The id factory counts for a goroutine only while it waits for a number;   *)
(* one that waits for a token has read the clock since its request arrived. *)
ClockOK(p) ==
  /\ since[p] <= now
  /\ draw[p].step # "none" =>
       \/ Numbering(p)
       \/ Tokening(p) /\ working[p] \in User /\ working[p].data.issued \in since[p]..now

ClocksOK == \A p \in Proc : ClockOK(p)

(* Whoever holds a record with a token holds that of the token's owner.     *)
Owned(user) == user.token # Empty => owner[user.token] = user.id

ResetOK(p) ==
  /\ phase[p] = "load" =>
       /\ call[p].pc = "lookup" => call[p].kind = "token" /\ call[p].key = req[p].token
       /\ call[p].pc = "fetch" => call[p].id = owner[req[p].token]
       /\ call[p].pc = "done" /\ call[p].err = "nil" => call[p].user.id = owner[req[p].token]
  /\ phase[p] = "save" => working[p].id = owner[req[p].token]

TokenInv ==
  /\ known \subseteq GivenTokens
  /\ \A t \in Token : index["token"][t] \in {Empty, owner[t]}
  /\ \A id \in UserID : Owned(table[id])
  /\ \A p \in Proc :
       /\ Owned(call[p].user) /\ Owned(call[p].old) /\ Owned(working[p])
       /\ req[p].op = "reset_credentials" => ResetOK(p)

(* While no driver call fails, a Save that answered nil has written.         *)
CreationsOK ==
  /\ CreatedUsersAreStored
  /\ \A p \in Proc :
       phase[p] = "save" /\ call[p].pc = "done" /\ call[p].err = "nil"
         => table[working[p].id].id = working[p].id

(* The user that p has in hand, and a creation that has not written its own. *)
InHand(p) ==
  CASE phase[p] = "save"                    -> {working[p].id}
    [] Loaded(p) /\ call[p].err = "nil"     -> {call[p].user.id}
    [] OTHER                                -> {}

Creating(p) == phase[p] = "save" /\ req[p].op = "create" /\ Store!Saving(p)

(* Until a creation writes its record nobody else knows of its id.           *)
FreshInv ==
  /\ \A id \in UserID : table[id] # NoUser => id \in ids
  /\ \A p \in Proc : InHand(p) \subseteq ids
  /\ \A p \in Proc : Creating(p) =>
       /\ table[working[p].id] = NoUser
       /\ \A q \in Proc \ {p} : working[p].id \notin InHand(q)

(* Requests do not overlap while they use the storage, and no driver call    *)
(* fails.  (Crashes are allowed: they end the request there is.)            *)
Serial ==
  /\ faults = 0
  /\ \A p, q \in Proc : phase[p] \in {"load", "save"} /\ phase[q] \in {"load", "save"} => p = q

(* An index entry of a token that a client can send is that of its user's   *)
(* record, and a Save that leaves the token out has taken the entry away    *)
(* before it writes the record.                                             *)
EntryOK(p) ==
  Storage!Cleared(p, "token") =>
    \A t \in known : index["token"][t] = working[p].id => working[p].token = t

(* What a request has of a user is what is stored; what it saves has the    *)
(* stored token, none, or a new one, and is stored when the Save was good.  *)
CopyOK(p) ==
  /\ Loaded(p) /\ call[p].err = "nil" => call[p].user = table[call[p].user.id]
  /\ Saved(p) /\ call[p].err = "nil" => table[working[p].id] = working[p]
  /\ phase[p] = "save" /\ req[p].op = "reset_credentials" => working[p].token = Empty
  /\ phase[p] = "save" /\ Store!Saving(p) =>
       /\ EntryOK(p)
       /\ Store!Writing(p) => call[p].old = table[working[p].id]
       /\ working[p].token \in {Empty, table[working[p].id].token} \/ working[p].token \notin known

SpentInv ==
  /\ \A t \in known, id \in UserID : index["token"][t] = id => table[id].token = t
  /\ SpentTokensAreGone
  /\ \A p \in Proc : CopyOK(p)

(* What a request that reads and saves has read is what is stored, and what  *)
(* it saves is its own change of that.                                      *)
ChangeOK(p) ==
  /\ Loaded(p) /\ call[p].err = "nil" => call[p].user = table[call[p].user.id]
  /\ phase[p] = "save" /\ Store!Saving(p) =>
       LET stored == table[working[p].id]
       IN  /\ req[p].op \in ReadModifyWrite => working[p] = Modified(stored, req[p])
           /\ req[p].op = "authenticate" =>
                working[p] = [stored EXCEPT !.data.hash.cost = "configured"]

ChangeInv == \A p \in Proc : ChangeOK(p)

(* A record with a reset token has the time it was issued, and a reset finds *)
(* the record that has its token.                                           *)
Dated(user) == user.token # Empty => user.data.issued # Empty

ResetFinds(p) ==
  phase[p] = "load" /\ req[p].op = "reset_credentials" =>
    /\ call[p].pc = "fetch" => table[call[p].id].token = req[p].token
    /\ Loaded(p) /\ call[p].err = "nil" => call[p].user.token = req[p].token

IssuedInv ==
  /\ \A id \in UserID : Dated(table[id])
  /\ \A p \in Proc : Dated(call[p].user) /\ Dated(working[p]) /\ ResetFinds(p)

(* Nor does the process die.                                                *)
Sequential == Serial /\ crashes = 0

(* A find has what is stored of the user it looks for, or there is none.    *)
FindOK(p) ==
  LET kind == LookupKind(req[p].op)
      key  == LookupKey(req[p])
  IN  /\ call[p].pc # "done" => call[p].kind = kind /\ call[p].key = key
      /\ call[p].pc = "done" /\ call[p].err = "nil" =>
           call[p].user = table[call[p].user.id] /\ call[p].user[kind] = key
      /\ call[p].pc = "done" /\ call[p].err # "nil" =>
           /\ call[p].err = "UserNotFound"
           /\ \A id \in UserID : table[id] # NoUser => table[id][kind] # key

(* What p saves is what its request makes of the user that is stored.       *)
Changes(p, user) ==
  \/ /\ req[p].op \in ReadModifyWrite /\ ~WrongEmail(user, req[p])
     /\ working[p] = Modified(user, req[p])
  \/ /\ req[p].op = "authenticate" /\ AuthenticateError(user, req[p]) = "nil"
     /\ working[p] = Rehashed(user, req[p])
  \/ /\ req[p].op = "new_reset_token"
     /\ \E time \in since[p]..now : working[p] = WithToken(user, working[p].token, time)
     /\ \A id \in UserID : table[id].token # working[p].token
  \/ /\ req[p].op = "reset_credentials" /\ ~Expired(user, since[p])
     /\ working[p] = Reset(user, req[p])

PlanOK(p) ==
  LET stored == table[working[p].id]
  IN  \/ req[p].op = "create" /\ stored = NoUser /\ working[p] = NewUser(working[p].id, req[p])
      \/ /\ stored \in User /\ stored[LookupKind(req[p].op)] = LookupKey(req[p])
         /\ Changes(p, stored)

StandingOK(p) ==
  /\ since[p] <= now
  /\ phase[p] = "idle" => req[p] = NoRequest
  /\ phase[p] = "answered" => answer[p].err # "none"
  /\ phase[p] # "answered" => answer[p] = NoAnswer
  /\ phase[p] = "load" => FindOK(p)
  /\ phase[p] = "save" => working[p].id \in ids
  /\ phase[p] = "save" /\ Store!Saving(p) => PlanOK(p)

RecordsOK == \A id \in UserID : Dated(table[id]) /\ (table[id] # NoUser => id \in ids)

DirectoryInv == RecordsOK /\ \A p \in Proc : StandingOK(p)
-----------------------------------------------------------------------------
(* What documents and comments say, and the code does not do.               *)

(* No request ends in a panic: an invalid token is answered.                *)
NoPanic == \A p \in Proc : answer[p].err # "panic"

(* The step in which the Save of p writes its record.                       *)
Stores(p) == call[p].pc = "set" /\ call'[p].pc = "done" /\ table' # table

(* A request that reads a user and saves it changes only what it is about:   *)
(* what other requests wrote since it read the record is still there.       *)
SavesOnlyItsChange ==
  [][\A p \in Proc :
       req[p].op \in ReadModifyWrite \cup {"authenticate"} /\ Stores(p)
         => LET stored == table[working[p].id]
            IN  table'[working[p].id] = IF req[p].op = "authenticate"
                                        THEN [stored EXCEPT !.data.hash.cost = "configured"]
                                        ELSE Modified(stored, req[p])]_vars

(* "Creates a new user": the creation of a user does not write over one that *)
(* is already there, whatever the id factory counts and however often the   *)
(* process was restarted.  (With uuids the code keeps to it.)               *)
CreatesNewUser ==
  [][\A p \in Proc :
       req[p].op = "create" /\ Stores(p) => table[working[p].id] = NoUser]_vars
=============================================================================
