---------------------------- MODULE UserService -----------------------------
(***************************************************************************)
(* service/service.go over service/storage: the goroutine of a request runs *)
(* a method of UserService, which calls the storage and goes on with what   *)
(* it answered.  No lock spans these calls: whatever was read may be stale  *)
(* by the time it is used.                                                  *)
(*                                                                         *)
(* A request is idle, then in its find (phase "load") or waiting for its id *)
(* (phase "number"), then in its Save (phase "save"), then answered.  The   *)
(* steps inside a find or a Save are those of KeyValueStorage and the steps *)
(* of the id factory those of IdFactory, whose variables this module shares. *)
(***************************************************************************)
EXTENDS UserAccounts, Sequences, FiniteSets

CONSTANTS Proc, Driver, Earlier, MaxFaults, MaxCrashes, Factory, IdOf, TokenOf,
          MaxRequests  \* bound on the requests of a behaviour

VARIABLES table, index, call, faults, crashes, interrupted, suspect,
          req,      \* the request each goroutine serves, or served last
          phase,    \* how far it is
          working,  \* its copy of the user, as it will be once saved
          answer,   \* what it answered
          since,    \* when it arrived (history)
          events,   \* the events handed to the stream and the collector
          ids, sequence, draw,  \* the id factory
          owner,    \* reset token -> the user it was made for last, Empty if not made yet
          known,    \* the reset tokens that clients were told
          spent,    \* the reset tokens that reset credentials (history)
          now, begun

(* Clients send valid UTF-8.  (What the storage makes of anything else is in *)
(* KeyValueStorage.)                                                        *)
ValidUtf8 == [key \in Email \cup LoginName |-> key]

Store == INSTANCE KeyValueStorage WITH Payload <- Details, Utf8 <- ValidUtf8

GivenTokens == {token \in Token : owner[token] # Empty}

Ids == INSTANCE IdFactory WITH tokens <- GivenTokens

(* What the storage is built on holds of this instance of it.               *)
ASSUME StorageAssumption ==
  /\ Store!DriverAssumption /\ Store!EmptyAssumption
  /\ Store!BoundsAssumption /\ Store!EarlierAssumption /\ Store!Utf8Assumption

(* NewResetPasswordToken sets the token and the time of a record together,   *)
(* and ResetCredentials clears them together.                               *)
ASSUME EarlierTokensAssumption ==
  \A tbl \in Earlier, id \in UserID :
    tbl[id].token # Empty => tbl[id].data.issued # Empty

(* The bounds leave a number of the sequence for every request.             *)
ASSUME FactoryAssumption ==
  /\ Factory \in {"uuid", "seq"}
  /\ IdOf \in Seq(UserID) /\ TokenOf \in Seq(Token)
  /\ Factory = "seq" => MaxRequests <= Len(IdOf) /\ MaxRequests <= Len(TokenOf)

local == <<req, phase, working, answer, since>>
factory == <<ids, sequence, draw, owner>>
tokens  == <<known, spent>>
storage == <<table, index, call, faults, crashes, interrupted, suspect>>
vars  == <<storage, local, factory, events, tokens, now, begun>>

(* The request of p ends; an answer without error comes with its event.     *)
Reply(p, err, user, logged) ==
  /\ phase' = [phase EXCEPT ![p] = "answered"]
  /\ answer' = [answer EXCEPT ![p] = AnswerTo(req[p], err, user)]
  /\ working' = [working EXCEPT ![p] = NoUser]
  /\ events' = events \o logged
  /\ spent' = IF err = "nil" /\ req[p].op = "reset_credentials" THEN spent \cup {req[p].token}
                                                            ELSE spent
  /\ known' = IF err = "nil" /\ req[p].op = "new_reset_token" THEN known \cup {user.token}
                                                          ELSE known
  /\ UNCHANGED <<req, since>>

Idle(p)   == phase[p] \in {"idle", "answered"} /\ begun < MaxRequests

(* A mutant: the request goes on only when its Save was successful.         *)
SavedWell(p) == phase[p] = "save" /\ call[p].pc = "done" /\ call[p].err = "nil"

Loaded(p) == phase[p] = "load" /\ call[p].pc = "done"
Saved(p)  == phase[p] = "save" /\ call[p].pc = "done"
-----------------------------------------------------------------------------
(* A request arrives.  Reset tokens are not guessed: clients send those that *)
(* they were told.                                                          *)
Begin(p, r, stage, user) ==
  /\ Idle(p)
  /\ begun' = begun + 1
  /\ req' = [req EXCEPT ![p] = r]
  /\ phase' = [phase EXCEPT ![p] = stage]
  /\ working' = [working EXCEPT ![p] = user]
  /\ answer' = [answer EXCEPT ![p] = NoAnswer]
  /\ since' = [since EXCEPT ![p] = now]
  /\ UNCHANGED <<events, tokens, now>>

(* A missing argument is refused before anything else.                      *)
RefuseArguments(p, r) ==
  /\ ~Complete(r) /\ Idle(p)
  /\ begun' = begun + 1
  /\ req' = [req EXCEPT ![p] = r]
  /\ phase' = [phase EXCEPT ![p] = "answered"]
  /\ answer' = [answer EXCEPT ![p] = Answer("InvalidArguments", Empty)]
  /\ since' = [since EXCEPT ![p] = now]
  /\ UNCHANGED <<storage, working, factory, events, tokens, now>>

(* A bound: no more creations begin than there are ids for.                 *)
Numbering(p) == phase[p] = "number"

IdsLeft ==
  Factory = "uuid" => Cardinality({p \in Proc : Numbering(p)}) < Cardinality(UserID \ ids)

(* The creation of a user first asks the id factory for an id.              *)
BeginCreate(p, r) ==
  /\ r.op = "create" /\ Complete(r) /\ IdsLeft
  /\ Begin(p, r, "number", NoUser)
  /\ UNCHANGED <<storage, factory>>

(* Every other request first asks for a user, by id or by another key.      *)
Load(p, r) ==
  /\ r.op # "create" /\ Complete(r)
  /\ r.token \in known \cup {Empty}
  /\ Begin(p, r, "load", NoUser)
  /\ IF LookupKind(r.op) = "id" THEN Store!Get(p, r.id)
                                ELSE Store!FindBy(p, LookupKind(r.op), LookupKey(r))
  /\ UNCHANGED factory
-----------------------------------------------------------------------------
(* The storage has answered the find.                                       *)
SaveAs(p, user) ==
  /\ Store!Save(p, user)
  /\ phase' = [phase EXCEPT ![p] = "save"]
  /\ working' = [working EXCEPT ![p] = user]
  /\ UNCHANGED <<req, answer, since, events, tokens, now, begun>>

CreateUser(p) ==
  \E id \in UserID :
    /\ Numbering(p)
    /\ UNCHANGED owner /\ Ids!GiveUserID(p, id)
    /\ SaveAs(p, NewUser(id, req[p]))

ReplyNow(p, err, user, logged) ==
  /\ Store!TakeAnswer(p)
  /\ Reply(p, err, user, logged)
  /\ UNCHANGED <<factory, now, begun>>

(* An unknown reset token is reported as an invalid argument.               *)
LoadFailed(p) ==
  /\ Loaded(p) /\ call[p].err # "nil"
  /\ ReplyNow(p, IF req[p].op = "reset_credentials" /\ call[p].err = "UserNotFound"
                 THEN "InvalidArguments" ELSE call[p].err, NoUser, <<>>)

GetUser(p) ==
  /\ Loaded(p) /\ call[p].err = "nil" /\ req[p].op = "get"
  /\ ReplyNow(p, "nil", call[p].user, <<>>)

(* readModifyWrite *)
ModifyWrite(p) ==
  /\ Loaded(p) /\ call[p].err = "nil" /\ req[p].op \in ReadModifyWrite
  /\ IF WrongEmail(call[p].user, req[p])
     THEN ReplyNow(p, "InvalidVerificationEmail", NoUser, <<>>)
     ELSE SaveAs(p, Modified(call[p].user, req[p])) /\ UNCHANGED factory

(* A hash of a lower cost is replaced by saving the whole user.             *)
Authenticate(p) ==
  LET user == call[p].user
      err  == AuthenticateError(user, req[p])
  IN  /\ Loaded(p) /\ call[p].err = "nil" /\ req[p].op = "authenticate"
      /\ CASE err # "nil" -> ReplyNow(p, err, NoUser, <<>>)
           [] err = "nil" /\ ~NeedsRehash(user.data.hash) ->
                ReplyNow(p, "nil", user, <<Event("authenticate", user)>>)
           [] OTHER -> SaveAs(p, Rehashed(user, req[p])) /\ UNCHANGED factory

Tokening(p) == Loaded(p) /\ call[p].err = "nil" /\ req[p].op = "new_reset_token"

(* The clock is read before the token is drawn: while the sequence factory  *)
(* counts, the copy of the user has the time already.                       *)
IssueTime(p) == IF Factory = "seq" THEN working[p].data.issued ELSE now

NewResetToken(p) ==
  \E token \in Token :
    /\ Tokening(p)
    /\ owner' = [owner EXCEPT ![token] = call[p].user.id]
    /\ Ids!GiveToken(p, token)
    /\ SaveAs(p, WithToken(call[p].user, token, IssueTime(p)))

(* The sequence factory counts for p.                                       *)
CountStep(p) ==
  /\ Numbering(p) \/ Tokening(p)
  /\ UNCHANGED owner /\ (Ids!LoadSequence(p) \/ Ids!StoreSequence(p))
  /\ working' = IF Tokening(p) /\ draw[p].step = "none"
                THEN [working EXCEPT ![p] = [call[p].user EXCEPT !.data.issued = now]]
                ELSE working
  /\ UNCHANGED <<storage, req, phase, answer, since, events, tokens, now, begun>>

(* Add on a nil ResetPasswordTokenIssued panics, which ends the request.    *)
ResetCredentials(p) ==
  LET user == call[p].user
  IN  /\ Loaded(p) /\ call[p].err = "nil" /\ req[p].op = "reset_credentials"
      /\ CASE user.data.issued = Empty -> ReplyNow(p, "panic", NoUser, <<>>)
           [] user.data.issued # Empty /\ Expired(user, now) ->
                ReplyNow(p, "ResetPasswordTokenExpired", NoUser, <<>>)
           [] OTHER -> SaveAs(p, Reset(user, req[p])) /\ UNCHANGED factory

(* A mutant: the error of every Save is answered.                           *)
SaveErrorKept(p) == call[p].err

(* The storage has answered the Save.  Authenticate ignores its error.      *)
SaveError(p) == IF req[p].op = "authenticate" THEN "nil" ELSE call[p].err

(* A mutant: the event is logged whatever the storage answered.             *)
EventAnyway(p) == <<Event(req[p].op, working[p])>>

SaveEvents(p) ==
  IF SaveError(p) = "nil" THEN <<Event(req[p].op, working[p])>> ELSE <<>>

Finish(p) == Saved(p) /\ ReplyNow(p, SaveError(p), working[p], SaveEvents(p))
-----------------------------------------------------------------------------
(* The storage works on a call of p.                                        *)
StoreStep(p) == Store!Step(p) /\ UNCHANGED <<local, factory, events, tokens, now, begun>>

StoreFails(p) == Store!Fail(p) /\ UNCHANGED <<local, factory, events, tokens, now, begun>>

Tick == now < MaxTime /\ now' = now + 1 /\ UNCHANGED <<storage, local, factory, events, tokens, begun>>

(* The process dies and is started again; its requests get no answer.       *)
Crash ==
  /\ Store!Crash
  /\ req' = [p \in Proc |-> NoRequest]
  /\ phase' = [p \in Proc |-> "idle"]
  /\ working' = [p \in Proc |-> NoUser]
  /\ answer' = [p \in Proc |-> NoAnswer]
  /\ since' = [p \in Proc |-> 0]
  /\ UNCHANGED owner /\ Ids!Restart
  /\ UNCHANGED <<events, tokens, now, begun>>
-----------------------------------------------------------------------------
(* The ids and tokens in the records of earlier runs were given.            *)
Init ==
  /\ Store!Init /\ Ids!Init
  /\ req = [p \in Proc |-> NoRequest]
  /\ phase = [p \in Proc |-> "idle"]
  /\ working = [p \in Proc |-> NoUser]
  /\ answer = [p \in Proc |-> NoAnswer]
  /\ since = [p \in Proc |-> 0]
  /\ events = <<>>
  /\ ids = {id \in UserID : table[id] # NoUser}
  /\ owner = [token \in Token |-> Store!OwnerOf(table, "token", token)]
  /\ known = {token \in Token : owner[token] # Empty}
  /\ spent = {}
  /\ now = 0 /\ begun = 0

Arrive(p) == \E r \in Request : RefuseArguments(p, r) \/ BeginCreate(p, r) \/ Load(p, r)

Continue(p) ==
  \/ CreateUser(p) \/ LoadFailed(p) \/ GetUser(p) \/ ModifyWrite(p) \/ Authenticate(p)
  \/ NewResetToken(p) \/ ResetCredentials(p) \/ Finish(p)

Next ==
  \/ \E p \in Proc : Arrive(p) \/ Continue(p) \/ CountStep(p) \/ StoreStep(p) \/ StoreFails(p)
  \/ Tick
  \/ Crash

Spec == Init /\ [][Next]_vars

(* Nothing a goroutine does after its request arrived waits for another.    *)
FairSpec == Spec /\ \A p \in Proc : WF_vars(Continue(p) \/ CountStep(p) \/ StoreStep(p))
=============================================================================
