-------------------------- MODULE UserServiceProofs --------------------------
(***************************************************************************)
(* Theorems about UserService, for every set of goroutines, users, keys and *)
(* requests, every driver and id factory, and any number of failures and   *)
(* crashes.                                                                *)
(***************************************************************************)
EXTENDS UserServiceProps, TLAPS

(* The storage under the service, with what is proved of it.                *)
KVS == INSTANCE KeyValueStorageInvProofs WITH Payload <- Details, Utf8 <- ValidUtf8

(* The assumptions of those proofs.                                         *)
LEMMA StorageAssumptions ==
  /\ KVS!DriverAssumption /\ KVS!EmptyAssumption /\ KVS!BoundsAssumption
  /\ KVS!EarlierAssumption /\ KVS!Utf8Assumption
BY StorageAssumption
   DEF KVS!Utf8Assumption, Store!Utf8Assumption, KVS!DriverAssumption, KVS!EmptyAssumption, KVS!BoundsAssumption, KVS!EarlierAssumption,
       Store!DriverAssumption, Store!EmptyAssumption, Store!BoundsAssumption,
       Store!EarlierAssumption, KVS!User, KVS!NoUser, KVS!WellFormed, KVS!NoSharedKeys,
       KVS!Key, KVS!Kind, Store!User, Store!NoUser, Store!WellFormed, Store!NoSharedKeys,
       Store!Key, Store!Kind
-----------------------------------------------------------------------------
(* The steps of the storage inside the service are those that the theorems   *)
(* about the storage speak of.                                              *)
LEMMA SameInit == Store!Init => KVS!Init
BY DEF Store!Init, KVS!Init, Store!DriverPersists, KVS!DriverPersists, Store!EmptyTable,
       KVS!EmptyTable, Store!NoUser, KVS!NoUser, Store!Kind, KVS!Kind, Store!Key, KVS!Key,
       Store!OwnerOf, KVS!OwnerOf, Store!Idle, KVS!Idle

LEMMA SameUser == KVS!User = User /\ KVS!NoUser = NoUser /\ Store!NoUser = NoUser
BY DEF KVS!User, User, KVS!NoUser, Store!NoUser, NoUser

LEMMA SameSave ==
  ASSUME NEW p, NEW user
  PROVE  Store!Save(p, user) <=> KVS!Save(p, user)
BY DEF Store!Save, KVS!Save, Store!Ready, KVS!Ready, Store!Valid, KVS!Valid, Store!Idle,
       KVS!Idle, Store!NoUser, KVS!NoUser, Store!Overlaps, KVS!Overlaps, Store!Saving,
       KVS!Saving, Store!SavePhase, KVS!SavePhase, Store!Claims, KVS!Claims, Store!Kind,
       KVS!Kind, Store!Return, KVS!Return, Store!store, KVS!store,
       Store!MeetsTorn, KVS!MeetsTorn, Store!Encoded, KVS!Encoded

LEMMA SameFinds ==
  ASSUME NEW p
  PROVE  /\ \A id : Store!Get(p, id) <=> KVS!Get(p, id)
         /\ \A k, key : Store!FindBy(p, k, key) <=> KVS!FindBy(p, k, key)
         /\ Store!TakeAnswer(p) <=> KVS!TakeAnswer(p)
BY DEF Store!Get, KVS!Get, Store!FindBy, KVS!FindBy, Store!TakeAnswer, KVS!TakeAnswer,
       Store!Ready, KVS!Ready, Store!Idle, KVS!Idle, Store!NoUser, KVS!NoUser,
       Store!store, KVS!store, Store!history, KVS!history

LEMMA SameStep ==
  ASSUME NEW p
  PROVE  Store!Step(p) => KVS!Step(p)
<1>. USE DEF Store!store, KVS!store, Store!history, KVS!history, Store!Return, KVS!Return,
             Store!Goto, KVS!Goto, Store!NoUser, KVS!NoUser, Store!Idle, KVS!Idle
<1>1. Store!CheckTaken(p) => KVS!CheckTaken(p)
  BY DEF Store!CheckTaken, KVS!CheckTaken, Store!TakenByOtherUser, KVS!TakenByOtherUser,
         Store!TakenError, KVS!TakenError
<1>2. Store!LookupOld(p) => KVS!LookupOld(p)
  BY DEF Store!LookupOld, KVS!LookupOld
<1>3. Store!RemoveOld(p) => KVS!RemoveOld(p)
  BY DEF Store!RemoveOld, KVS!RemoveOld, Store!AfterRemove, KVS!AfterRemove,
         Store!Remove, KVS!Remove, Store!LocalRemove, KVS!LocalRemove,
         Store!RedisRemove, KVS!RedisRemove, Store!EtcdRemove, KVS!EtcdRemove
<1>4. Store!PutNew(p) => KVS!PutNew(p)
  BY DEF Store!PutNew, KVS!PutNew, Store!AfterPut, KVS!AfterPut,
         Store!Put, KVS!Put, Store!LocalPut, KVS!LocalPut,
         Store!RedisPut, KVS!RedisPut, Store!EtcdPut, KVS!EtcdPut
<1>5. Store!SetUser(p) => KVS!SetUser(p)
  BY DEF Store!SetUser, KVS!SetUser, Store!SetRecord, KVS!SetRecord, Store!Encoded, KVS!Encoded
<1>6. Store!Lookup(p) => KVS!Lookup(p)
  BY DEF Store!Lookup, KVS!Lookup
<1>7. Store!Fetch(p) => KVS!Fetch(p)
  BY DEF Store!Fetch, KVS!Fetch
<1> QED
  BY <1>1, <1>2, <1>3, <1>4, <1>5, <1>6, <1>7 DEF Store!Step, KVS!Step

LEMMA SameFail ==
  ASSUME NEW p
  PROVE  Store!Fail(p) => KVS!Fail(p)
<1>. USE DEF Store!store, KVS!store, Store!history, KVS!history, Store!Return, KVS!Return,
             Store!Goto, KVS!Goto, Store!NoUser, KVS!NoUser, Store!Idle, KVS!Idle,
             Store!DriverCanFail, KVS!DriverCanFail
<1>1. Store!ReadFails(p) => KVS!ReadFails(p)
  BY DEF Store!ReadFails, KVS!ReadFails
<1>2. Store!WriteFails(p) => KVS!WriteFails(p)
  BY DEF Store!WriteFails, KVS!WriteFails, Store!AfterRemove, KVS!AfterRemove,
         Store!AfterPut, KVS!AfterPut
<1> QED
  BY <1>1, <1>2 DEF Store!Fail, KVS!Fail

LEMMA SameCrash == Store!Crash => KVS!Crash
BY DEF Store!Crash, KVS!Crash, Store!Writing, KVS!Writing, Store!Idle, KVS!Idle,
       Store!NoUser, KVS!NoUser, Store!DriverPersists, KVS!DriverPersists,
       Store!LostOldKey, KVS!LostOldKey, Store!Kind, KVS!Kind, Store!Key, KVS!Key,
       Store!EmptyTable, KVS!EmptyTable, Store!store, KVS!store
-----------------------------------------------------------------------------
(* The storage is given the records it expects.                             *)
LEMMA SameTypes ==
  /\ Storage!TypeOK <=> KVS!TypeOK
  /\ \A p : Store!Saving(p) <=> KVS!Saving(p)
  /\ Store!Error = KVS!Error
<1>1. Storage!TypeOK <=> KVS!TypeOK
  BY DEF Storage!TypeOK, KVS!TypeOK, Storage!User, KVS!User, Storage!NoUser, KVS!NoUser,
         Storage!WellFormed, KVS!WellFormed, Storage!Kind, KVS!Kind, Storage!Key, KVS!Key,
         Storage!Call, KVS!Call, Storage!Phase, KVS!Phase, Storage!SavePhase, KVS!SavePhase,
         Storage!Error, KVS!Error
<1>2. \A p : Store!Saving(p) <=> KVS!Saving(p)
  BY DEF Store!Saving, KVS!Saving, Store!SavePhase, KVS!SavePhase
<1>3. Store!Error = KVS!Error
  BY DEF Store!Error, KVS!Error
<1> QED
  BY <1>1, <1>2, <1>3

(* What a client sent in valid UTF-8 is stored as it is.                    *)
LEMMA StoredAsIs ==
  ASSUME NEW user \in User
  PROVE  KVS!Encoded(user) = user
<1>1. user.email \in Email /\ user.login \in LoginName
  BY DEF User
<1>2. ValidUtf8[user.email] = user.email /\ ValidUtf8[user.login] = user.login
  BY <1>1 DEF ValidUtf8
<1> QED
  BY <1>2 DEF KVS!Encoded, User

(* The empty string is no id and no key.                                    *)
LEMMA NotEmpty == Empty \notin UserID \cup Email \cup LoginName \cup Token
BY StorageAssumptions DEF KVS!EmptyAssumption, KVS!Key

LEMMA RequestTypes ==
  ASSUME NEW r \in Request
  PROVE  /\ r.op \in Op /\ r.id \in UserID \cup {Empty} /\ r.profile \in Profile \cup {Empty}
         /\ r.email \in Email \cup {Empty} /\ r.login \in LoginName \cup {Empty}
         /\ r.password \in Password \cup {Empty} /\ r.token \in Token \cup {Empty}
BY RequestAssumption

(* A request makes a user record of a user record; only the requests about  *)
(* reset tokens touch the token, and none the id.                           *)
LEMMA Updates ==
  ASSUME NEW user \in User, NEW r \in Request, Complete(r)
  PROVE  /\ r.op \in ReadModifyWrite =>
              /\ Modified(user, r) \in User
              /\ Modified(user, r).id = user.id /\ Modified(user, r).token = user.token
         /\ r.op = "authenticate" =>
              /\ Rehashed(user, r) \in User
              /\ Rehashed(user, r).id = user.id /\ Rehashed(user, r).token = user.token
         /\ r.op = "reset_credentials" =>
              /\ Reset(user, r) \in User
              /\ Reset(user, r).id = user.id /\ Reset(user, r).token = Empty
         /\ \A token \in Token, time \in Time :
              /\ WithToken(user, token, time) \in User
              /\ WithToken(user, token, time).id = user.id
              /\ WithToken(user, token, time).token = token
<1>. USE RequestTypes DEF User, Details, PasswordHash, Hash
<1>1. CASE r.op = "change_login_credentials"
  <2>1. r.login # Empty /\ r.password # Empty
    BY <1>1 DEF Complete, Required
  <2> QED
    BY <1>1, <2>1 DEF Modified, WithCredentials, WithToken
<1>2. CASE r.op = "change_profile_name"
  <2>1. r.profile # Empty
    BY <1>2 DEF Complete, Required
  <2> QED
    BY <1>2, <2>1 DEF Modified, WithToken
<1>3. CASE r.op = "change_email"
  <2>1. r.email # Empty
    BY <1>3 DEF Complete, Required
  <2> QED
    BY <1>3, <2>1 DEF Modified, WithToken
<1>4. CASE r.op \in {"verify_email", "check_and_verify_email"}
  BY <1>4 DEF Modified, WithToken
<1>5. CASE r.op = "authenticate"
  <2>1. r.password # Empty
    BY <1>5 DEF Complete, Required
  <2> QED
    BY <1>5, <2>1 DEF Rehashed, ReadModifyWrite, WithToken
<1>6. CASE r.op = "reset_credentials"
  <2>1. r.login # Empty /\ r.password # Empty
    BY <1>6 DEF Complete, Required
  <2> QED
    BY <1>6, <2>1 DEF Reset, WithCredentials, ReadModifyWrite, WithToken
<1>7. CASE r.op \in {"create", "get", "new_reset_token"}
  BY <1>7 DEF ReadModifyWrite, WithToken
<1> QED
  BY <1>1, <1>2, <1>3, <1>4, <1>5, <1>6, <1>7 DEF Op

LEMMA NewRecord ==
  ASSUME NEW r \in Request, Complete(r), r.op = "create", NEW id \in UserID
  PROVE  /\ NewUser(id, r) \in User
         /\ NewUser(id, r).id = id /\ NewUser(id, r).token = Empty
<1>1. r.profile # Empty /\ r.email # Empty /\ r.login # Empty /\ r.password # Empty
  BY DEF Complete, Required
<1> QED
  BY <1>1, RequestTypes, Zenon DEF NewUser, User, Details, PasswordHash, Hash
-----------------------------------------------------------------------------
(* The inductive invariant behind TypeOK.                                   *)
BasicInv   == TypeOK /\ KVS!CallOK /\ RequestsOK /\ DrawsOK
ServiceInv == BasicInv /\ ClocksOK

LEMMA StorageTypes == ServiceInv => KVS!TypeInv
BY SameTypes DEF ServiceInv, BasicInv, TypeOK, KVS!TypeInv

LEMMA RequestFacts ==
  ASSUME ServiceInv, NEW p \in Proc, phase[p] \in {"number", "load", "save"}
  PROVE  /\ req[p] \in Request /\ Complete(req[p])
         /\ phase[p] = "number" => req[p].op = "create" /\ call[p].pc = "idle"
         /\ phase[p] = "load" => LoadOK(p)
         /\ phase[p] = "save" => SaveOK(p)
BY DEF ServiceInv, BasicInv, RequestsOK, RequestOK, TypeOK
-----------------------------------------------------------------------------
(* What the steps of Continue amount to: a Save of a new user, of a changed  *)
(* user, or of a user with a new token; a refusal; the answer to a request  *)
(* that saves nothing; or the answer after a Save.                          *)
SavesNew(p) ==
  \E id \in UserID :
    /\ Numbering(p) /\ UNCHANGED owner /\ Ids!GiveUserID(p, id)
    /\ SaveAs(p, NewUser(id, req[p]))

Found(p) == Loaded(p) /\ call[p].err = "nil"

SavesChange(p) ==
  \E user \in User :
    /\ Found(p) /\ req[p].op \notin {"create", "get", "new_reset_token"}
    /\ user.id = call[p].user.id /\ user.token \in {call[p].user.token, Empty}
    /\ req[p].op = "reset_credentials" => user.token = Empty
    /\ SaveAs(p, user) /\ UNCHANGED factory

SavesToken(p) ==
  \E user \in User :
    /\ Found(p) /\ req[p].op = "new_reset_token"
    /\ user.id = call[p].user.id /\ user.token \in Token
    /\ owner' = [owner EXCEPT ![user.token] = user.id] /\ Ids!GiveToken(p, user.token)
    /\ SaveAs(p, user)

Refusal == {"panic", "InvalidArguments", "InvalidCredentials", "InvalidVerificationEmail",
            "UserEmailMustBeVerified", "ResetPasswordTokenExpired"}

Refuses(p) ==
  \E err \in Refusal \cup {call[p].err} :
    Loaded(p) /\ ~Tokening(p) /\ err # "nil" /\ ReplyNow(p, err, NoUser, <<>>)

AnswersFound(p) ==
  \E logged \in {<<>>, <<Event("authenticate", call[p].user)>>} :
    /\ Found(p) /\ req[p].op \in {"get", "authenticate"}
    /\ ReplyNow(p, "nil", call[p].user, logged)

LEMMA FoundUser ==
  ASSUME ServiceInv, NEW p \in Proc, Found(p)
  PROVE  /\ call[p].user \in User /\ req[p] \in Request /\ Complete(req[p])
         /\ req[p].op # "create" /\ req[p].token \in known \cup {Empty}
BY RequestFacts DEF Found, Loaded, LoadOK

(* A new token has a time between the arrival of its request and now.        *)
LEMMA TimeIssued ==
  ASSUME ServiceInv, NEW p \in Proc, Tokening(p), NEW token, Ids!GiveToken(p, token)
  PROVE  IssueTime(p) \in since[p]..now /\ IssueTime(p) \in Time
<1>1. /\ now \in Time /\ since[p] \in Time /\ since[p] <= now /\ MaxTime \in Nat
      /\ Factory \in {"uuid", "seq"}
  BY ConfigAssumption, FactoryAssumption DEF ServiceInv, BasicInv, TypeOK, ClocksOK, ClockOK
<1>2. now \in since[p]..now /\ since[p]..now \subseteq Time
  BY <1>1 DEF Time
<1>3. CASE Factory = "uuid"
  BY <1>2, <1>3 DEF IssueTime, Time
<1>4. CASE Factory = "seq"
  <2>1. draw[p].step = "stored"
    BY <1>4 DEF Ids!GiveToken, Ids!NewTokens, Ids!Drawn
  <2>2. working[p].data.issued \in since[p]..now
    BY <2>1 DEF ServiceInv, ClocksOK, ClockOK, Tokening, Numbering, Loaded
  <2> QED
    BY <1>2, <1>4, <2>2 DEF IssueTime
<1> QED
  BY <1>1, <1>3, <1>4

LEMMA ContinueCases ==
  ASSUME ServiceInv, NEW p \in Proc, Continue(p)
  PROVE  \/ SavesNew(p) \/ SavesChange(p) \/ SavesToken(p)
         \/ Refuses(p) \/ AnswersFound(p) \/ Finish(p)
<1>1. CASE CreateUser(p)
  BY <1>1 DEF CreateUser, SavesNew
<1>2. CASE LoadFailed(p)
  BY <1>2 DEF LoadFailed, Refuses, Refusal, Tokening
<1>3. CASE GetUser(p)
  BY <1>3 DEF GetUser, AnswersFound, Found
<1>4. CASE ModifyWrite(p)
  <2>1. Found(p) /\ req[p].op \in ReadModifyWrite
    BY <1>4 DEF ModifyWrite, Found
  <2>2. CASE WrongEmail(call[p].user, req[p])
    BY <1>4, <2>2 DEF ModifyWrite, Refuses, Refusal, Tokening, ReadModifyWrite
  <2>3. CASE ~WrongEmail(call[p].user, req[p])
    <3>1. SaveAs(p, Modified(call[p].user, req[p])) /\ UNCHANGED factory
      BY <1>4, <2>3 DEF ModifyWrite
    <3> QED
      BY <2>1, <3>1, FoundUser, Updates DEF SavesChange, ReadModifyWrite
  <2> QED
    BY <2>2, <2>3
<1>5. CASE Authenticate(p)
  <2>1. Found(p) /\ req[p].op = "authenticate"
    BY <1>5 DEF Authenticate, Found
  <2>2. CASE AuthenticateError(call[p].user, req[p]) # "nil"
    BY <1>5, <2>2 DEF Authenticate, AuthenticateError, Refuses, Refusal, Tokening
  <2>3. CASE AuthenticateError(call[p].user, req[p]) = "nil" /\ ~NeedsRehash(call[p].user.data.hash)
    BY <1>5, <2>1, <2>3 DEF Authenticate, AnswersFound
  <2>4. CASE AuthenticateError(call[p].user, req[p]) = "nil" /\ NeedsRehash(call[p].user.data.hash)
    <3>1. SaveAs(p, Rehashed(call[p].user, req[p])) /\ UNCHANGED factory
      BY <1>5, <2>4 DEF Authenticate
    <3> QED
      BY <2>1, <3>1, FoundUser, Updates DEF SavesChange
  <2> QED
    BY <2>2, <2>3, <2>4
<1>6. CASE NewResetToken(p)
  <2>1. Found(p) /\ req[p].op = "new_reset_token"
    BY <1>6 DEF NewResetToken, Tokening, Found
  <2>2. PICK token \in Token :
          /\ owner' = [owner EXCEPT ![token] = call[p].user.id] /\ Ids!GiveToken(p, token)
          /\ SaveAs(p, WithToken(call[p].user, token, IssueTime(p)))
    BY <1>6 DEF NewResetToken
  <2>3. IssueTime(p) \in Time
    BY <1>6, TimeIssued DEF NewResetToken
  <2> QED
    BY <2>1, <2>2, <2>3, FoundUser, Updates DEF SavesToken
<1>7. CASE ResetCredentials(p)
  <2>1. Found(p) /\ req[p].op = "reset_credentials"
    BY <1>7 DEF ResetCredentials, Found
  <2>2. \/ \E err \in Refusal : ReplyNow(p, err, NoUser, <<>>)
        \/ SaveAs(p, Reset(call[p].user, req[p])) /\ UNCHANGED factory
    BY <1>7 DEF ResetCredentials, Refusal
  <2>3. CASE \E err \in Refusal : ReplyNow(p, err, NoUser, <<>>)
    BY <2>1, <2>3 DEF Refuses, Refusal, Found, Tokening
  <2>4. CASE SaveAs(p, Reset(call[p].user, req[p])) /\ UNCHANGED factory
    BY <2>1, <2>4, FoundUser, Updates DEF SavesChange
  <2> QED
    BY <2>2, <2>3, <2>4
<1> QED
  BY <1>1, <1>2, <1>3, <1>4, <1>5, <1>6, <1>7 DEF Continue
-----------------------------------------------------------------------------
(* Every step of the service is a step of the storage, or leaves it alone:   *)
(* what is proved of the storage holds of it in the hands of the service.   *)
LEMMA SaveIsStorageStep ==
  ASSUME NEW p \in Proc, NEW user \in User, SaveAs(p, user)
  PROVE  KVS!Next
<1>1. user \in KVS!UserArgument
  BY DEF User, KVS!UserArgument
<1>2. KVS!Save(p, user)
  BY SameSave DEF SaveAs
<1> QED
  BY <1>1, <1>2 DEF KVS!Next, KVS!Invoke

LEMMA LoadIsStorageStep ==
  ASSUME NEW p \in Proc, NEW r \in Request, Load(p, r)
  PROVE  KVS!Next
<1>1. CASE r.op = "authenticate"
  <2>1. Store!FindBy(p, "login", r.login) /\ r.login \in LoginName
    BY <1>1, RequestTypes DEF Load, LookupKind, LookupKey, Complete, Required
  <2> QED
    BY <2>1, SameFinds DEF KVS!Next, KVS!Invoke
<1>2. CASE r.op = "new_reset_token"
  <2>1. Store!FindBy(p, "email", r.email) /\ r.email \in Email
    BY <1>2, RequestTypes DEF Load, LookupKind, LookupKey, Complete, Required
  <2> QED
    BY <2>1, SameFinds DEF KVS!Next, KVS!Invoke
<1>3. CASE r.op = "reset_credentials"
  <2>1. Store!FindBy(p, "token", r.token) /\ r.token \in Token
    BY <1>3, RequestTypes DEF Load, LookupKind, LookupKey, Complete, Required
  <2> QED
    BY <2>1, SameFinds DEF KVS!Next, KVS!Invoke
<1>4. CASE r.op \notin {"authenticate", "new_reset_token", "reset_credentials"}
  <2>1. "id" \in Required(r.op)
    BY <1>4, RequestTypes DEF Load, Op, Required
  <2>2. Store!Get(p, r.id) /\ r.id \in UserID
    BY <1>4, <2>1, RequestTypes DEF Load, LookupKind, Complete
  <2> QED
    BY <2>2, SameFinds DEF KVS!Next, KVS!Invoke
<1> QED
  BY <1>1, <1>2, <1>3, <1>4

LEMMA AnswerIsStorageStep ==
  ASSUME NEW p \in Proc, Store!TakeAnswer(p)
  PROVE  KVS!Next
BY SameFinds DEF KVS!Next, KVS!Invoke

LEMMA StorageStep == ServiceInv /\ [Next]_vars => [KVS!Next]_(KVS!vars)
<1>. SUFFICES ASSUME ServiceInv, [Next]_vars PROVE KVS!Next \/ UNCHANGED storage
  BY DEF storage, KVS!vars
<1>1. ASSUME NEW p \in Proc, Arrive(p) PROVE KVS!Next \/ UNCHANGED storage
  BY <1>1, LoadIsStorageStep DEF Arrive, RefuseArguments, BeginCreate
<1>2. ASSUME NEW p \in Proc, Continue(p) PROVE KVS!Next
  <2>1. CASE SavesNew(p)
    BY <2>1, RequestFacts, NewRecord, SaveIsStorageStep DEF SavesNew, Numbering
  <2>2. CASE SavesChange(p) \/ SavesToken(p)
    BY <2>2, SaveIsStorageStep DEF SavesChange, SavesToken
  <2>3. CASE Refuses(p) \/ AnswersFound(p) \/ Finish(p)
    BY <2>3, AnswerIsStorageStep DEF Refuses, AnswersFound, Finish, ReplyNow
  <2> QED
    BY <1>2, <2>1, <2>2, <2>3, ContinueCases
<1>3. ASSUME NEW p \in Proc, CountStep(p) PROVE UNCHANGED storage
  BY <1>3 DEF CountStep
<1>4. ASSUME NEW p \in Proc, StoreStep(p) \/ StoreFails(p) PROVE KVS!Next
  BY <1>4, SameStep, SameFail DEF StoreStep, StoreFails, KVS!Next
<1>5. CASE Tick \/ UNCHANGED vars
  BY <1>5 DEF Tick, vars
<1>6. CASE Crash
  BY <1>6, SameCrash DEF Crash, KVS!Next
<1> QED
  BY <1>1, <1>2, <1>3, <1>4, <1>5, <1>6 DEF Next
-----------------------------------------------------------------------------
(* What the calls of the service do to the storage calls.                   *)
LEMMA SaveEffect ==
  ASSUME ServiceInv, NEW p \in Proc, NEW user \in User, SaveAs(p, user)
  PROVE  /\ call'[p].pc = "check" /\ call'[p].user = user /\ call'[p].old = NoUser
         /\ \A q \in Proc \ {p} : call'[q] = call[q]
         /\ UNCHANGED <<table, index, faults, crashes>>
<1>1. KVS!Save(p, user) /\ KVS!Valid(user)
  BY SameSave, NotEmpty DEF SaveAs, KVS!Valid, User
<1>2. call \in [Proc -> KVS!Call]
  BY StorageTypes DEF KVS!TypeInv, KVS!TypeOK
<1> QED
  BY <1>1, <1>2 DEF KVS!Save, KVS!Idle, KVS!store, KVS!NoUser, NoUser

LEMMA AnswerEffect ==
  ASSUME ServiceInv, NEW p \in Proc, Store!TakeAnswer(p)
  PROVE  /\ call[p].pc = "done" /\ call'[p] = KVS!Idle
         /\ \A q \in Proc \ {p} : call'[q] = call[q]
         /\ UNCHANGED <<table, index, faults, crashes>>
<1>1. KVS!TakeAnswer(p)
  BY SameFinds
<1>2. call \in [Proc -> KVS!Call]
  BY StorageTypes DEF KVS!TypeInv, KVS!TypeOK
<1> QED
  BY <1>1, <1>2 DEF KVS!TakeAnswer, KVS!store

LEMMA LoadEffect ==
  ASSUME ServiceInv, NEW p \in Proc, NEW r \in Request, Load(p, r)
  PROVE  /\ \/ LookupKind(r.op) = "id" /\ call'[p].pc = "fetch" /\ call'[p].id = r.id
            \/ /\ LookupKind(r.op) # "id" /\ call'[p].pc = "lookup"
               /\ call'[p].kind = LookupKind(r.op) /\ call'[p].key = LookupKey(r)
         /\ call'[p].user = NoUser /\ call'[p].old = NoUser
         /\ \A q \in Proc \ {p} : call'[q] = call[q]
         /\ UNCHANGED <<table, index, faults, crashes>>
<1>1. call \in [Proc -> KVS!Call]
  BY StorageTypes DEF KVS!TypeInv, KVS!TypeOK
<1>2. CASE LookupKind(r.op) = "id"
  <2>1. KVS!Get(p, r.id)
    BY <1>2, SameFinds DEF Load
  <2> QED
    BY <1>1, <1>2, <2>1 DEF KVS!Get, KVS!Idle, KVS!store, KVS!NoUser, NoUser
<1>3. CASE LookupKind(r.op) # "id"
  <2>1. KVS!FindBy(p, LookupKind(r.op), LookupKey(r))
    BY <1>3, SameFinds DEF Load
  <2> QED
    BY <1>1, <1>3, <2>1 DEF KVS!FindBy, KVS!Idle, KVS!store, KVS!NoUser, NoUser
<1> QED
  BY <1>2, <1>3

(* A step of the storage on a call of p.                                    *)
LEMMA StoreEffect ==
  ASSUME ServiceInv, NEW p \in Proc, StoreStep(p) \/ StoreFails(p)
  PROVE  /\ KVS!Step(p) \/ KVS!Fail(p)
         /\ \A q \in Proc \ {p} : call'[q] = call[q]
         /\ phase[p] \in {"load", "save"}
         /\ UNCHANGED <<local, factory, events, tokens, now, begun>>
<1>1. KVS!Step(p) \/ KVS!Fail(p)
  BY SameStep, SameFail DEF StoreStep, StoreFails
<1>2. \A q \in Proc \ {p} : call'[q] = call[q]
  BY <1>1, StorageTypes, StorageAssumptions, KVS!OthersStay
<1>3. call[p].pc # "idle"
  BY <1>1
     DEF KVS!Step, KVS!Fail, KVS!CheckTaken, KVS!LookupOld, KVS!RemoveOld, KVS!PutNew,
         KVS!SetUser, KVS!Lookup, KVS!Fetch, KVS!ReadFails, KVS!WriteFails
<1> QED
  BY <1>1, <1>2, <1>3 DEF StoreStep, StoreFails, ServiceInv, BasicInv, TypeOK
-----------------------------------------------------------------------------
(* The parts of ServiceInv.                                                 *)
InCall(p) == phase[p] \in {"load", "save"} <=> call[p].pc # "idle"

LocalTypes ==
  /\ req \in [Proc -> Request \cup {NoRequest}]
  /\ phase \in [Proc -> {"idle", "number", "load", "save", "answered"}]
  /\ working \in [Proc -> User \cup {NoUser}]
  /\ answer \in [Proc -> Answers]
  /\ since \in [Proc -> Time] /\ now \in Time /\ begun \in Nat
  /\ events \in Seq(EventRecord)
  /\ known \subseteq Token /\ spent \subseteq known

FactoryTypes ==
  /\ ids \subseteq UserID /\ sequence \in 0..Len(IdOf) /\ draw \in [Proc -> Ids!Draw]
  /\ owner \in [Token -> UserID \cup {Empty}]
  /\ DrawsOK

LEMMA Parts ==
  /\ BasicInv <=> /\ KVS!TypeInv /\ LocalTypes /\ FactoryTypes
                  /\ \A p \in Proc : InCall(p) /\ RequestOK(p)
  /\ ServiceInv => BasicInv
BY SameTypes
   DEF ServiceInv, BasicInv, TypeOK, LocalTypes, FactoryTypes, InCall, RequestsOK, KVS!TypeInv

LEMMA PartsNext ==
  KVS!TypeInv' /\ LocalTypes' /\ FactoryTypes' /\ (\A p \in Proc : InCall(p) /\ RequestOK(p))'
    => BasicInv'
BY Parts, PTL

(* A step of p does not disturb the other requests.                         *)
LEMMA OthersOK ==
  ASSUME ServiceInv, NEW p \in Proc, known \subseteq known',
         \A q \in Proc \ {p} :
           /\ req'[q] = req[q] /\ phase'[q] = phase[q]
           /\ working'[q] = working[q] /\ call'[q] = call[q],
         InCall(p)', RequestOK(p)'
  PROVE  \A q \in Proc : InCall(q)' /\ RequestOK(q)'
<1>. SUFFICES ASSUME NEW q \in Proc, q # p PROVE InCall(q)' /\ RequestOK(q)'
  OBVIOUS
<1>1. InCall(q) /\ RequestOK(q)
  BY Parts
<1>2. (Store!Saving(q) <=> Store!Saving(q)')
  BY DEF Store!Saving
<1> QED
  BY <1>1, <1>2 DEF InCall, RequestOK, LoadOK, SaveOK

LEMMA DrawTypes ==
  /\ Len(IdOf) \in Nat /\ 0 \in 0..Len(IdOf)
  /\ Ids!NoDraw \in Ids!Draw /\ Ids!NoDraw.step = "none"
<1>1. Len(IdOf) \in Nat
  BY FactoryAssumption
<1>2. 0 \in 0..Len(IdOf)
  BY <1>1
<1> QED
  BY <1>1, <1>2 DEF Ids!NoDraw, Ids!Draw

(* The steps of the id factory.                                             *)
LEMMA GiveTypes ==
  ASSUME FactoryTypes, NEW p \in Proc, owner' \in [Token -> UserID \cup {Empty}],
         ids' \subseteq UserID, Ids!Give(p)
  PROVE  FactoryTypes'
BY DrawTypes DEF FactoryTypes, Ids!Give, DrawsOK

LEMMA CountTypes ==
  ASSUME FactoryTypes, NEW p \in Proc, UNCHANGED owner, Ids!LoadSequence(p) \/ Ids!StoreSequence(p)
  PROVE  FactoryTypes'
<1>. DEFINE max == Len(IdOf)
<1>. max \in Nat /\ draw[p] \in Ids!Draw /\ draw \in [Proc -> Ids!Draw]
  BY DrawTypes DEF FactoryTypes
<1>1. CASE Ids!LoadSequence(p)
  <2>1. sequence \in 0..max /\ sequence < max
    BY <1>1 DEF Ids!LoadSequence, FactoryTypes
  <2>2. [step |-> "loaded", number |-> sequence] \in Ids!Draw
    BY <2>1 DEF Ids!Draw
  <2> QED
    BY <1>1, <2>1, <2>2 DEF Ids!LoadSequence, FactoryTypes, DrawsOK
<1>2. CASE Ids!StoreSequence(p)
  <2>1. draw[p].number \in 0..max /\ draw[p].number < max
    BY <1>2 DEF Ids!StoreSequence, FactoryTypes, DrawsOK, Ids!Draw
  <2>2. sequence' = draw[p].number + 1
    BY <1>2 DEF Ids!StoreSequence
  <2>3. sequence' \in 0..max
    BY <2>1, <2>2
  <2>4. [step |-> "stored", number |-> sequence'] \in Ids!Draw
    BY <2>3 DEF Ids!Draw
  <2> QED
    BY <1>2, <2>3, <2>4 DEF Ids!StoreSequence, FactoryTypes, DrawsOK
<1> QED
  BY <1>1, <1>2
-----------------------------------------------------------------------------
(* A Save: the request goes on with the user that it saves.                 *)
LEMMA SaveKeeps ==
  ASSUME ServiceInv, KVS!TypeInv', NEW p \in Proc, NEW user \in User, SaveAs(p, user),
         req[p] \in Request, Complete(req[p]), req[p].op # "get",
         req[p].op = "reset_credentials" => req[p].token \in known,
         req[p].op = "new_reset_token" => user.token \in Token,
         FactoryTypes'
  PROVE  BasicInv'
<1>. phase' = [phase EXCEPT ![p] = "save"] /\ working' = [working EXCEPT ![p] = user]
     /\ UNCHANGED <<req, answer, since, events, tokens, now, begun>>
  BY DEF SaveAs
<1>1. LocalTypes /\ LocalTypes'
  BY Parts DEF LocalTypes, tokens
<1>2. phase'[p] = "save" /\ working'[p] = user
  BY <1>1 DEF LocalTypes
<1>3. call'[p].pc = "check" /\ call'[p].user = user
  BY SaveEffect
<1>4. RequestOK(p)' /\ InCall(p)'
  BY <1>2, <1>3 DEF RequestOK, SaveOK, InCall, Store!Saving, Store!SavePhase, tokens
<1>5. \A q \in Proc \ {p} :
        /\ req'[q] = req[q] /\ phase'[q] = phase[q]
        /\ working'[q] = working[q] /\ call'[q] = call[q]
  BY <1>1, SaveEffect DEF LocalTypes
<1>6. \A q \in Proc : InCall(q)' /\ RequestOK(q)'
  BY <1>4, <1>5, OthersOK DEF tokens
<1> QED
  BY <1>1, <1>6, PartsNext

(* An answer: its error, value and event have their types.                  *)
LEMMA ReplyKeeps ==
  ASSUME ServiceInv, KVS!TypeInv', NEW p \in Proc, phase[p] \in {"load", "save"},
         NEW err \in Outcome, NEW user \in User \cup {NoUser}, NEW logged \in Seq(EventRecord),
         ReplyNow(p, err, user, logged),
         err = "nil" => user \in User,
         err = "nil" /\ req[p].op = "new_reset_token" => user.token \in Token,
         err = "nil" /\ req[p].op = "reset_credentials" => req[p].token \in known
  PROVE  BasicInv'
<1>. Reply(p, err, user, logged) /\ Store!TakeAnswer(p) /\ UNCHANGED <<factory, now, begun>>
  BY DEF ReplyNow
<1>0. LocalTypes /\ req[p] \in Request
  BY Parts, RequestFacts
<1>1. AnswerTo(req[p], err, user) \in Answers
  <2>1. err = "nil" => Value(req[p].op, user) \in UserID \cup Token \cup User \cup {Empty}
    BY DEF Value, User
  <2> QED
    BY <2>1 DEF AnswerTo, Answer, Answers
<1>2. known \subseteq known' /\ known' \subseteq Token /\ spent' \subseteq known'
  BY <1>0 DEF Reply, LocalTypes
<1>3. events' \in Seq(EventRecord)
  BY <1>0 DEF Reply, LocalTypes
<1>4. LocalTypes'
  BY <1>0, <1>1, <1>2, <1>3 DEF Reply, LocalTypes
<1>5. phase'[p] = "answered" /\ req'[p] = req[p]
  BY <1>0 DEF Reply, LocalTypes
<1>6. call'[p].pc = "idle"
  BY AnswerEffect DEF KVS!Idle
<1>7. RequestOK(p)' /\ InCall(p)'
  BY <1>0, <1>5, <1>6 DEF RequestOK, InCall
<1>8. \A q \in Proc \ {p} :
        /\ req'[q] = req[q] /\ phase'[q] = phase[q]
        /\ working'[q] = working[q] /\ call'[q] = call[q]
  BY <1>0, AnswerEffect DEF Reply, LocalTypes
<1>9. FactoryTypes'
  BY Parts DEF FactoryTypes, factory, DrawsOK
<1>10. \A q \in Proc : InCall(q)' /\ RequestOK(q)'
  BY <1>2, <1>7, <1>8, OthersOK
<1> QED
  BY <1>4, <1>9, <1>10, PartsNext

LEMMA EventType ==
  ASSUME NEW op \in Op, NEW user \in User
  PROVE  Event(op, user) \in EventRecord
BY DEF Event, EventRecord, User, Op

(* A call that is done has one of the storage's errors.                     *)
LEMMA CallError ==
  ASSUME ServiceInv, NEW p \in Proc
  PROVE  call[p].err \in Outcome
BY StorageTypes, SameTypes DEF KVS!TypeInv, KVS!TypeOK, KVS!Call, Outcome

LEMMA ContinueKeeps ==
  ASSUME ServiceInv, KVS!TypeInv', NEW p \in Proc, Continue(p)
  PROVE  BasicInv'
<1>. FactoryTypes /\ LocalTypes
  BY Parts
<1>1. CASE SavesNew(p)
  <2>1. PICK id \in UserID : /\ Numbering(p) /\ UNCHANGED owner /\ Ids!GiveUserID(p, id)
                             /\ SaveAs(p, NewUser(id, req[p]))
    BY <1>1 DEF SavesNew
  <2>2. req[p] \in Request /\ Complete(req[p]) /\ req[p].op = "create"
    BY <2>1, RequestFacts DEF Numbering
  <2>3. FactoryTypes'
    BY <2>1, GiveTypes DEF Ids!GiveUserID, FactoryTypes
  <2> QED
    BY <2>1, <2>2, <2>3, NewRecord, SaveKeeps
<1>2. CASE SavesChange(p)
  <2>1. PICK user \in User : /\ Found(p) /\ req[p].op \notin {"create", "get", "new_reset_token"}
                             /\ SaveAs(p, user) /\ UNCHANGED factory
    BY <1>2 DEF SavesChange
  <2>2. FactoryTypes'
    BY <2>1 DEF FactoryTypes, factory, DrawsOK
  <2>3. /\ req[p] \in Request /\ Complete(req[p])
        /\ req[p].op = "reset_credentials" => req[p].token \in known
    BY <2>1, FoundUser DEF Complete, Required
  <2> QED
    BY <2>1, <2>2, <2>3, SaveKeeps
<1>3. CASE SavesToken(p)
  <2>1. PICK user \in User :
          /\ Found(p) /\ req[p].op = "new_reset_token" /\ user.token \in Token
          /\ owner' = [owner EXCEPT ![user.token] = user.id] /\ Ids!GiveToken(p, user.token)
          /\ SaveAs(p, user)
    BY <1>3 DEF SavesToken
  <2>2. user.id \in UserID
    BY DEF User
  <2>3. FactoryTypes'
    BY <2>1, <2>2, GiveTypes DEF Ids!GiveToken, FactoryTypes
  <2> QED
    BY <2>1, <2>3, FoundUser, SaveKeeps
<1>4. CASE Refuses(p)
  <2>1. PICK err \in Refusal \cup {call[p].err} :
          Loaded(p) /\ err # "nil" /\ ReplyNow(p, err, NoUser, <<>>)
    BY <1>4 DEF Refuses
  <2>2. err \in Outcome
    BY CallError DEF Refusal, Outcome
  <2>3. <<>> \in Seq(EventRecord) /\ NoUser \in User \cup {NoUser}
    OBVIOUS
  <2> QED
    BY <2>1, <2>2, <2>3, ReplyKeeps DEF Loaded
<1>5. CASE AnswersFound(p)
  <2>1. PICK logged \in {<<>>, <<Event("authenticate", call[p].user)>>} :
          /\ Found(p) /\ req[p].op \in {"get", "authenticate"}
          /\ ReplyNow(p, "nil", call[p].user, logged)
    BY <1>5 DEF AnswersFound
  <2>2. call[p].user \in User
    BY <2>1, FoundUser
  <2>3. Event("authenticate", call[p].user) \in EventRecord
    BY <2>2, EventType DEF Op
  <2>4. logged \in Seq(EventRecord)
    <3>1. CASE logged = <<>>
      BY <3>1
    <3>2. CASE logged = <<Event("authenticate", call[p].user)>>
      BY <2>3, <3>2
    <3> QED
      BY <2>1, <3>1, <3>2
  <2>5. "nil" \in Outcome
    BY DEF Outcome, Store!Error
  <2> QED
    BY <2>1, <2>2, <2>4, <2>5, ReplyKeeps DEF Found, Loaded
<1>6. CASE Finish(p)
  <2>1. phase[p] = "save" /\ ReplyNow(p, SaveError(p), working[p], SaveEvents(p))
    BY <1>6 DEF Finish, Saved
  <2>2. SaveOK(p) /\ req[p] \in Request /\ req[p].op \in Op
    BY <2>1, RequestFacts, RequestTypes
  <2>3. SaveError(p) \in Outcome
    BY CallError DEF SaveError, Outcome, Store!Error
  <2>4. Event(req[p].op, working[p]) \in EventRecord
    BY <2>2, EventType DEF SaveOK
  <2>5. SaveEvents(p) \in Seq(EventRecord)
    BY <2>4 DEF SaveEvents
  <2> QED
    BY <2>1, <2>2, <2>3, <2>5, ReplyKeeps DEF SaveOK
<1> QED
  BY <1>1, <1>2, <1>3, <1>4, <1>5, <1>6, ContinueCases
-----------------------------------------------------------------------------
(* The other steps.                                                         *)
LEMMA ArriveKeeps ==
  ASSUME ServiceInv, KVS!TypeInv', NEW p \in Proc, NEW r \in Request,
         RefuseArguments(p, r) \/ BeginCreate(p, r) \/ Load(p, r)
  PROVE  BasicInv'
<1>0. LocalTypes /\ InCall(p)
  BY Parts
<1>1. /\ req' = [req EXCEPT ![p] = r] /\ Idle(p) /\ begun' = begun + 1
      /\ since' = [since EXCEPT ![p] = now]
      /\ UNCHANGED <<events, known, spent, now>>
  BY DEF RefuseArguments, BeginCreate, Load, Begin, tokens
<1>2. \A q \in Proc \ {p} :
        /\ req'[q] = req[q] /\ phase'[q] = phase[q]
        /\ working'[q] = working[q] /\ call'[q] = call[q]
  BY <1>0, <1>1, LoadEffect
     DEF RefuseArguments, BeginCreate, Load, Begin, LocalTypes, storage
<1>3. RequestOK(p)' /\ InCall(p)'
  <2>1. CASE RefuseArguments(p, r)
    BY <1>0, <1>1, <2>1
       DEF RefuseArguments, LocalTypes, RequestOK, InCall, storage, Idle
  <2>2. CASE BeginCreate(p, r)
    BY <1>0, <1>1, <2>2
       DEF BeginCreate, Begin, LocalTypes, RequestOK, InCall, storage, Idle
  <2>3. CASE Load(p, r)
    <3>1. call'[p].pc \in {"lookup", "fetch"}
      BY <2>3, LoadEffect
    <3>2. phase'[p] = "load" /\ req'[p] = r
      BY <1>0, <1>1, <2>3 DEF Load, Begin, LocalTypes
    <3> QED
      BY <1>1, <2>3, <3>1, <3>2 DEF Load, RequestOK, LoadOK, InCall
  <2> QED
    BY <2>1, <2>2, <2>3
<1>4. LocalTypes'
  <2>1. NoAnswer \in Answers /\ Answer("InvalidArguments", Empty) \in Answers
    BY DEF NoAnswer, Answer, Answers, Outcome
  <2>2. answer' \in [Proc -> Answers]
    BY <1>0, <2>1 DEF RefuseArguments, BeginCreate, Load, Begin, LocalTypes
  <2>3. working' \in [Proc -> User \cup {NoUser}]
    BY <1>0 DEF RefuseArguments, BeginCreate, Load, Begin, LocalTypes
  <2>4. phase' \in [Proc -> {"idle", "number", "load", "save", "answered"}]
    BY <1>0 DEF RefuseArguments, BeginCreate, Load, Begin, LocalTypes
  <2>5. begun' \in Nat
    BY <1>0, <1>1 DEF LocalTypes
  <2> QED
    BY <1>0, <1>1, <2>2, <2>3, <2>4, <2>5 DEF LocalTypes
<1>5. FactoryTypes'
  BY Parts DEF RefuseArguments, BeginCreate, Load, FactoryTypes, factory, DrawsOK
<1>6. \A q \in Proc : InCall(q)' /\ RequestOK(q)'
  BY <1>1, <1>2, <1>3, OthersOK
<1> QED
  BY <1>4, <1>5, <1>6, PartsNext

(* The storage works on a call of p.                                        *)
LEMMA StoreKeeps ==
  ASSUME ServiceInv, KVS!TypeInv', NEW p \in Proc, StoreStep(p) \/ StoreFails(p)
  PROVE  BasicInv'
<1>. UNCHANGED <<local, factory, events, tokens, now, begun>> /\ phase[p] \in {"load", "save"}
  BY StoreEffect
<1>1. LocalTypes' /\ FactoryTypes'
  BY Parts DEF LocalTypes, FactoryTypes, local, factory, tokens, DrawsOK
<1>2. KVS!Step(p) \/ KVS!Fail(p)
  BY StoreEffect
<1>3. KVS!TypeInv /\ KVS!TypeInv' /\ RequestOK(p)
  BY Parts
<1>4. RequestOK(p)' /\ InCall(p)'
  <2>1. CASE phase[p] = "load"
    <3>1. ~KVS!Saving(p) /\ LoadOK(p)
      BY <1>3, <2>1 DEF RequestOK, LoadOK, KVS!Saving, KVS!SavePhase
    <3>2. /\ call'[p].pc \in {"fetch", "done"}
          /\ call'[p].pc = "done" /\ call'[p].err = "nil" => call'[p].user # NoUser
      BY <1>2, <1>3, <3>1, KVS!FindMoves, StorageAssumptions, SameUser
    <3>3. call'[p].user \in User \cup {NoUser}
      BY <1>3, SameUser DEF KVS!TypeInv, KVS!TypeOK, KVS!Call
    <3> QED
      BY <1>3, <2>1, <3>1, <3>2, <3>3 DEF RequestOK, LoadOK, InCall, local, tokens
  <2>2. CASE phase[p] = "save"
    <3>1. SaveOK(p)
      BY <1>3, <2>2 DEF RequestOK
    <3>2. call[p].pc # "done"
      BY <1>2 DEF KVS!Step, KVS!Fail, KVS!CheckTaken, KVS!LookupOld, KVS!RemoveOld, KVS!PutNew,
                  KVS!SetUser, KVS!Lookup, KVS!Fetch, KVS!ReadFails, KVS!WriteFails
    <3>3. KVS!Saving(p) /\ call[p].user = working[p]
      BY <3>1, <3>2, SameTypes DEF SaveOK
    <3>4. \/ KVS!Saving(p)' /\ call'[p].user = call[p].user
          \/ call'[p].pc = "done"
      BY <1>2, <1>3, <3>3, KVS!SaveMoves, StorageAssumptions
    <3>5. \/ Store!Saving(p)' /\ call'[p].user = call[p].user
          \/ call'[p].pc = "done" /\ ~Store!Saving(p)'
      BY <3>4 DEF Store!Saving, Store!SavePhase, KVS!Saving, KVS!SavePhase
    <3>6. SaveOK(p)'
      BY <3>1, <3>3, <3>5 DEF SaveOK, local, tokens
    <3>7. call'[p].pc # "idle"
      BY <3>5 DEF Store!Saving, Store!SavePhase
    <3> QED
      BY <1>3, <2>2, <3>6, <3>7 DEF RequestOK, InCall, local
  <2> QED
    BY <2>1, <2>2
<1>5. \A q \in Proc : InCall(q)' /\ RequestOK(q)'
  BY <1>4, StoreEffect, OthersOK DEF local, tokens
<1> QED
  BY <1>1, <1>3, <1>5, PartsNext

(* The sequence factory counts; the clock; a restart.                       *)
LEMMA CountEffect ==
  ASSUME ServiceInv, NEW p \in Proc, CountStep(p)
  PROVE  /\ UNCHANGED <<storage, req, phase, answer, since, events, tokens, owner, ids, now, begun>>
         /\ \A q \in Proc \ {p} : draw'[q] = draw[q] /\ working'[q] = working[q]
         /\ phase[p] \in {"number", "load"}
         /\ \/ working' = working /\ (Numbering(p) \/ draw[p].step # "none")
            \/ /\ Tokening(p)
               /\ working' = [working EXCEPT ![p] = [call[p].user EXCEPT !.data.issued = now]]
<1>1. draw \in [Proc -> Ids!Draw] /\ working \in [Proc -> User \cup {NoUser}]
  BY Parts DEF FactoryTypes, LocalTypes
<1> QED
  BY <1>1 DEF CountStep, Ids!LoadSequence, Ids!StoreSequence, Numbering, Tokening, Loaded

LEMMA TimedRecord ==
  ASSUME ServiceInv, NEW p \in Proc, Tokening(p)
  PROVE  /\ [call[p].user EXCEPT !.data.issued = now] \in User
         /\ [call[p].user EXCEPT !.data.issued = now].id = call[p].user.id
         /\ [call[p].user EXCEPT !.data.issued = now].token = call[p].user.token
         /\ [call[p].user EXCEPT !.data.issued = now].data.issued = now
<1>1. call[p].user \in User /\ now \in Time
  BY FoundUser, Parts DEF Tokening, Found, LocalTypes
<1> QED
  BY <1>1 DEF User, Details

LEMMA CountKeeps ==
  ASSUME ServiceInv, KVS!TypeInv', NEW p \in Proc, CountStep(p)
  PROVE  BasicInv'
<1>1. FactoryTypes'
  BY Parts, CountTypes DEF CountStep
<1>2. LocalTypes'
  <2>1. LocalTypes
    BY Parts
  <2>2. working' \in [Proc -> User \cup {NoUser}]
    BY <2>1, CountEffect, TimedRecord DEF LocalTypes
  <2>3. UNCHANGED <<req, phase, answer, since, events, known, spent, now, begun>>
    BY CountEffect DEF tokens
  <2> QED
    BY <2>1, <2>2, <2>3 DEF LocalTypes
<1>3. phase[p] # "save"
  BY CountEffect
<1>4. \A q \in Proc : InCall(q)' /\ RequestOK(q)'
  BY <1>3, Parts, CountEffect DEF InCall, RequestOK, LoadOK, SaveOK, Store!Saving, storage, tokens
<1> QED
  BY <1>1, <1>2, <1>4, PartsNext

LEMMA TickKeeps ==
  ASSUME ServiceInv, KVS!TypeInv', Tick \/ UNCHANGED vars
  PROVE  BasicInv'
<1>1. UNCHANGED <<storage, local, factory, events, tokens, begun>>
  BY DEF Tick, vars
<1>2. now \in Time /\ MaxTime \in Nat
  BY ConfigAssumption, Parts DEF LocalTypes
<1>3. now' \in Time
  BY <1>2 DEF Tick, vars, Time
<1>4. LocalTypes' /\ FactoryTypes'
  BY <1>1, <1>3, Parts DEF LocalTypes, FactoryTypes, DrawsOK, local, factory, tokens
<1>5. \A q \in Proc : InCall(q)' /\ RequestOK(q)'
  BY <1>1, Parts DEF InCall, RequestOK, LoadOK, SaveOK, Store!Saving, storage, local, tokens
<1> QED
  BY <1>4, <1>5, PartsNext

LEMMA CrashKeeps ==
  ASSUME ServiceInv, KVS!TypeInv', Crash
  PROVE  BasicInv'
<1>1. LocalTypes'
  <2>1. NoAnswer \in Answers /\ 0 \in Time
    BY ConfigAssumption DEF NoAnswer, Answer, Answers, Outcome, Time
  <2> QED
    BY <2>1, Parts DEF Crash, LocalTypes, tokens
<1>2. FactoryTypes'
  BY Parts, DrawTypes DEF Crash, Ids!Restart, FactoryTypes, DrawsOK
<1>3. \A q \in Proc : call'[q].pc = "idle" /\ phase'[q] = "idle"
  BY SameCrash DEF Crash, KVS!Crash, KVS!Idle
<1>4. \A q \in Proc : InCall(q)' /\ RequestOK(q)'
  BY <1>3 DEF InCall, RequestOK
<1> QED
  BY <1>1, <1>2, <1>4, PartsNext

(* The id factory counts for a request only between its arrival and its id   *)
(* or token.                                                                *)
LEMMA ClocksKeep ==
  ASSUME ServiceInv, [Next]_vars, LocalTypes'
  PROVE  ClocksOK'
<1>0. /\ LocalTypes /\ draw \in [Proc -> Ids!Draw] /\ MaxTime \in Nat
      /\ Ids!NoDraw.step = "none" /\ call \in [Proc -> KVS!Call]
  BY Parts, DrawTypes, ConfigAssumption DEF FactoryTypes, KVS!TypeInv, KVS!TypeOK
<1>1. /\ since \in [Proc -> Nat] /\ now \in Nat
      /\ \A q \in Proc : ClockOK(q)
  BY <1>0 DEF LocalTypes, Time, ServiceInv, ClocksOK
<1>a. ASSUME NEW q \in Proc, now' = now, since'[q] = since[q], draw'[q] = draw[q],
             phase'[q] = phase[q], call'[q] = call[q], req'[q] = req[q], working'[q] = working[q]
      PROVE  ClockOK(q)'
  BY <1>1, <1>a DEF ClockOK, Numbering, Tokening, Loaded
<1>b. ASSUME NEW q \in Proc, now' = now, since'[q] \in {since[q], now}, draw'[q].step = "none"
      PROVE  ClockOK(q)'
  BY <1>1, <1>b DEF ClockOK
<1>2. ASSUME NEW p \in Proc, NEW r \in Request,
             RefuseArguments(p, r) \/ BeginCreate(p, r) \/ Load(p, r)
      PROVE  ClocksOK'
  <2>1. /\ now' = now /\ since' = [since EXCEPT ![p] = now] /\ UNCHANGED draw /\ Idle(p)
        /\ \A q \in Proc \ {p} : /\ req'[q] = req[q] /\ phase'[q] = phase[q]
                                /\ working'[q] = working[q] /\ call'[q] = call[q]
    BY <1>0, <1>2, LoadEffect
       DEF RefuseArguments, BeginCreate, Load, Begin, LocalTypes, storage, factory
  <2>2. draw[p].step = "none"
    BY <1>1, <2>1 DEF ClockOK, Idle, Numbering, Tokening, Loaded
  <2> QED
    BY <1>1, <1>a, <1>b, <2>1, <2>2 DEF ClocksOK
<1>3. ASSUME NEW p \in Proc, Continue(p) PROVE ClocksOK'
  <2>1. /\ now' = now /\ UNCHANGED since
        /\ \A q \in Proc \ {p} : /\ req'[q] = req[q] /\ phase'[q] = phase[q]
                                /\ working'[q] = working[q] /\ call'[q] = call[q]
        /\ \/ UNCHANGED draw /\ ~Numbering(p) /\ ~Tokening(p)
           \/ draw' = [draw EXCEPT ![p] = Ids!NoDraw]
    <3>1. CASE SavesNew(p)
      <4>1. PICK id \in UserID : /\ Numbering(p) /\ Ids!GiveUserID(p, id)
                                 /\ SaveAs(p, NewUser(id, req[p]))
        BY <3>1 DEF SavesNew
      <4>2. NewUser(id, req[p]) \in User
        BY <4>1, RequestFacts, NewRecord DEF Numbering
      <4> QED
        BY <1>0, <4>1, <4>2, SaveEffect DEF SaveAs, LocalTypes, Ids!GiveUserID, Ids!Give
    <3>2. CASE SavesChange(p)
      BY <1>0, <3>2, SaveEffect
         DEF SavesChange, SaveAs, LocalTypes, factory, Numbering, Tokening, Found, Loaded
    <3>3. CASE SavesToken(p)
      BY <1>0, <3>3, SaveEffect DEF SavesToken, SaveAs, LocalTypes, Ids!GiveToken, Ids!Give
    <3>4. CASE Refuses(p) \/ AnswersFound(p) \/ Finish(p)
      BY <1>0, <3>4, AnswerEffect
         DEF Refuses, AnswersFound, Finish, ReplyNow, Reply, LocalTypes, factory, Numbering,
             Tokening, Found, Loaded, Saved
    <3> QED
      BY <1>3, <3>1, <3>2, <3>3, <3>4, ContinueCases
  <2>2. draw'[p].step = "none"
    BY <1>0, <1>1, <2>1 DEF ClockOK
  <2>3. \A q \in Proc \ {p} : draw'[q] = draw[q]
    BY <1>0, <2>1
  <2> QED
    BY <1>a, <1>b, <2>1, <2>2, <2>3 DEF ClocksOK
<1>4. ASSUME NEW p \in Proc, CountStep(p) PROVE ClocksOK'
  <2>1. UNCHANGED <<call, req, phase, since, now>>
    BY <1>4, CountEffect DEF storage
  <2>2. ClockOK(p)'
    <3>1. CASE working' = working /\ (Numbering(p) \/ draw[p].step # "none")
      BY <1>1, <2>1, <3>1 DEF ClockOK, Numbering, Tokening, Loaded
    <3>2. CASE /\ Tokening(p)
               /\ working' = [working EXCEPT ![p] = [call[p].user EXCEPT !.data.issued = now]]
      <4>1. working'[p] \in User /\ working'[p].data.issued = now
        BY <1>0, <3>2, TimedRecord DEF LocalTypes
      <4>2. Tokening(p)' /\ now \in since[p]..now /\ since[p] <= now
        BY <1>1, <2>1, <3>2 DEF ClockOK, Tokening, Loaded
      <4> QED
        BY <2>1, <4>1, <4>2 DEF ClockOK
    <3> QED
      BY <1>4, <3>1, <3>2, CountEffect
  <2> QED
    BY <1>4, <1>a, <2>1, <2>2, CountEffect DEF ClocksOK
<1>5. ASSUME NEW p \in Proc, StoreStep(p) \/ StoreFails(p) PROVE ClocksOK'
  <2>1. call[p].pc # "done"
    BY <1>5, StoreEffect
       DEF KVS!Step, KVS!Fail, KVS!CheckTaken, KVS!LookupOld, KVS!RemoveOld, KVS!PutNew,
           KVS!SetUser, KVS!Lookup, KVS!Fetch, KVS!ReadFails, KVS!WriteFails
  <2>2. draw[p].step = "none"
    BY <1>1, <1>5, <2>1, StoreEffect DEF ClockOK, Numbering, Tokening, Loaded
  <2> QED
    BY <1>5, <1>a, <1>b, <2>2, StoreEffect DEF ClocksOK, local, factory
<1>6. CASE Tick \/ UNCHANGED vars
  <2>1. /\ UNCHANGED <<call, req, phase, working, since, draw>>
        /\ now' \in {now, now + 1}
    BY <1>6 DEF Tick, vars, local, factory, storage
  <2> QED
    BY <1>1, <2>1 DEF ClocksOK, ClockOK, Numbering, Tokening, Loaded
<1>7. CASE Crash
  <2>1. /\ \A q \in Proc : since'[q] = 0 /\ draw'[q].step = "none"
        /\ now' = now
    BY <1>0, <1>7 DEF Crash, Ids!Restart
  <2> QED
    BY <1>1, <2>1 DEF ClocksOK, ClockOK
<1> QED
  BY <1>2, <1>3, <1>4, <1>5, <1>6, <1>7 DEF Next, Arrive

LEMMA ServiceInit == Init => ServiceInv
<1>. SUFFICES ASSUME Init PROVE ServiceInv
  OBVIOUS
<1>1. KVS!TypeInv
  BY SameInit, KVS!InitType, StorageAssumptions DEF Init
<1>2. \A t : Store!OwnerOf(table, "token", t) \in UserID \cup {Empty}
  BY DEF Store!OwnerOf
<1>3. owner \in [Token -> UserID \cup {Empty}]
  BY <1>2 DEF Init
<1>4. LocalTypes
  <2>1. NoAnswer \in Answers /\ 0 \in Time
    BY ConfigAssumption DEF NoAnswer, Answer, Answers, Outcome, Time
  <2>2. <<>> \in Seq(EventRecord)
    OBVIOUS
  <2> QED
    BY <2>1, <2>2 DEF Init, LocalTypes
<1>5. FactoryTypes
  BY <1>3, DrawTypes DEF Init, Ids!Init, FactoryTypes, DrawsOK
<1>6. \A q \in Proc : call[q].pc = "idle" /\ phase[q] = "idle"
  BY SameInit DEF Init, KVS!Init, KVS!Idle
<1>7. \A q \in Proc : InCall(q) /\ RequestOK(q)
  BY <1>6 DEF InCall, RequestOK
<1>8. ClocksOK
  BY DrawTypes DEF Init, Ids!Init, ClocksOK, ClockOK
<1> QED
  BY <1>1, <1>4, <1>5, <1>7, <1>8, Parts DEF ServiceInv

LEMMA ServiceNext == ServiceInv /\ [Next]_vars => ServiceInv'
<1>. SUFFICES ASSUME ServiceInv, [Next]_vars PROVE ServiceInv'
  OBVIOUS
<1>1. KVS!TypeInv'
  BY StorageTypes, StorageStep, StorageAssumptions, KVS!NextType
<1>2. ASSUME NEW p \in Proc, Arrive(p) PROVE BasicInv'
  BY <1>1, <1>2, ArriveKeeps DEF Arrive
<1>3. ASSUME NEW p \in Proc, Continue(p) PROVE BasicInv'
  BY <1>1, <1>3, ContinueKeeps
<1>4. BasicInv'
  BY <1>1, <1>2, <1>3, CountKeeps, StoreKeeps, TickKeeps, CrashKeeps DEF Next
<1>5. LocalTypes'
  BY <1>4, Parts, PTL
<1> QED
  BY <1>4, <1>5, ClocksKeep DEF ServiceInv
-----------------------------------------------------------------------------
(* TypeOK in every state: whatever overlaps, fails or crashes, a goroutine   *)
(* of service.go only ever saves a whole user record, and its request is in  *)
(* a storage call exactly while it is in progress.                          *)
THEOREM ServiceTypeCorrect == Spec => []TypeOK
<1>1. ServiceInv => TypeOK
  BY DEF ServiceInv, BasicInv
<1> QED
  BY <1>1, ServiceInit, ServiceNext, PTL DEF Spec

(* The service uses the storage as KeyValueStorage expects of its callers:   *)
(* every behaviour of the service is one of the storage.                    *)
THEOREM ServiceUsesStorage == Spec => KVS!Spec
<1>1. Init => KVS!Init
  BY SameInit DEF Init
<1> QED
  BY <1>1, ServiceInit, ServiceNext, StorageStep, PTL DEF Spec, KVS!Spec

(* LookupsExact in every state: what is proved of the indexes of keyvalue.go *)
(* holds under the interleaved requests of service.go.                      *)
THEOREM ServiceLookupsExact == Spec => []LookupsExact
<1>1. Spec => []KVS!LookupsExact
  BY ServiceUsesStorage, KVS!LookupsAreExact, StorageAssumptions, PTL
<1>2. KVS!LookupsExact => LookupsExact
  BY DEF LookupsExact, Storage!LookupsExact, KVS!LookupsExact, Storage!Settled, KVS!Settled, Storage!Saving, KVS!Saving,
         Storage!SavePhase, KVS!SavePhase, Storage!Kind, KVS!Kind, Storage!Key, KVS!Key,
         Storage!NoUser, KVS!NoUser
<1> QED
  BY <1>1, <1>2, PTL

(* KeysUnique in every state: no interleaving of requests of service.go that *)
(* keep off each other's users and keys lets two users share a key.         *)
THEOREM ServiceKeysUnique == Spec => []KeysUnique
<1>1. Spec => []KVS!KeysUnique
  BY ServiceUsesStorage, KVS!KeysAreUnique, StorageAssumptions, PTL
<1>2. KVS!KeysUnique => KeysUnique
  BY DEF KeysUnique, Storage!KeysUnique, KVS!KeysUnique, Storage!Settled, KVS!Settled, Storage!Saving, KVS!Saving,
         Storage!SavePhase, KVS!SavePhase, Storage!Kind, KVS!Kind,
         Storage!NoUser, KVS!NoUser
<1> QED
  BY <1>1, <1>2, PTL
-----------------------------------------------------------------------------
(* While no storage call of a request overlaps that of another, no driver    *)
(* call fails and the process lives, service.go has the UserStorage under   *)
(* it that backends.go promises.                                            *)
THEOREM ServiceActsAsUserStore == Spec /\ []Storage!Calm => ActsAsUserStore
<1>1. Spec /\ []KVS!Calm => KVS!ActsAsUserStore
  BY ServiceUsesStorage, KVS!StorageActsAsUserStore, StorageAssumptions, PTL
<1>2. Storage!Calm => KVS!Calm
  BY DEF Storage!Calm, KVS!Calm, Storage!Ready, KVS!Ready, Storage!Faithful, KVS!Faithful,
         Storage!Encoded, KVS!Encoded, Storage!Saving, KVS!Saving, Storage!SavePhase,
         KVS!SavePhase
<1>3. /\ \A p : Storage!Asked(p) = KVS!Asked(p) /\ Storage!Answered(p) = KVS!Answered(p)
      /\ \A p : Storage!Asked(p)' = KVS!Asked(p)' /\ Storage!Answered(p)' = KVS!Answered(p)'
      /\ Storage!NoUser = KVS!NoUser /\ Storage!Key = KVS!Key /\ Storage!User = KVS!User
  BY DEF Storage!Asked, KVS!Asked, Storage!Answered, KVS!Answered, Storage!Ready, KVS!Ready,
         Storage!Saving, KVS!Saving, Storage!SavePhase, KVS!SavePhase, Storage!NoUser, KVS!NoUser,
         Storage!Key, KVS!Key, Storage!User, KVS!User
<1>4. KVS!Store!Init => Storage!Store!Init
  BY <1>3 DEF KVS!Store!Init, Storage!Store!Init, KVS!Store!Nothing, Storage!Store!Nothing,
              KVS!Store!NoAnswer, Storage!Store!NoAnswer
<1>5. \A p : KVS!Store!Ask(p) => Storage!Store!Ask(p)
  BY <1>3 DEF KVS!Store!Ask, Storage!Store!Ask, KVS!Store!Nothing, Storage!Store!Nothing,
              KVS!Store!NoAnswer, Storage!Store!NoAnswer, KVS!Store!Find, Storage!Store!Find,
              KVS!Store!Save, Storage!Store!Save, KVS!Store!Kind, Storage!Store!Kind
<1>6. \A p, err, user : KVS!Store!Answer(p, err, user) => Storage!Store!Answer(p, err, user)
  BY <1>3 DEF KVS!Store!Answer, Storage!Store!Answer, KVS!Store!Nothing, Storage!Store!Nothing
<1>7. \A p : KVS!Store!RefuseInvalid(p) => Storage!Store!RefuseInvalid(p)
  BY <1>3, <1>6 DEF KVS!Store!RefuseInvalid, Storage!Store!RefuseInvalid, KVS!Store!Nothing,
                    Storage!Store!Nothing
<1>8. \A p \in Proc : KVS!Store!Found(p) => Storage!Store!Found(p)
  BY <1>3, <1>6 DEF KVS!Store!Found, Storage!Store!Found
<1>9. \A p \in Proc : KVS!Store!NotFound(p) => Storage!Store!NotFound(p)
  BY <1>3, <1>6 DEF KVS!Store!NotFound, Storage!Store!NotFound
<1>10. \A user : KVS!Store!Conflicts(user) = Storage!Store!Conflicts(user)
  BY DEF KVS!Store!Conflicts, Storage!Store!Conflicts, KVS!Store!Kind, Storage!Store!Kind
<1>11. \A p \in Proc : KVS!Store!Saved(p) => Storage!Store!Saved(p)
  BY <1>3, <1>6, <1>10 DEF KVS!Store!Saved, Storage!Store!Saved
<1>12. \A p \in Proc : KVS!Store!Taken(p) => Storage!Store!Taken(p)
  BY <1>3, <1>6, <1>10 DEF KVS!Store!Taken, Storage!Store!Taken
<1>13. [KVS!Store!Next]_(KVS!Store!vars) => [Storage!Store!Next]_(Storage!Store!vars)
  BY <1>3, <1>5, <1>7, <1>8, <1>9, <1>11, <1>12
     DEF KVS!Store!Next, Storage!Store!Next, KVS!Store!vars, Storage!Store!vars
<1> QED
  BY <1>1, <1>2, <1>4, <1>13, PTL
     DEF ActsAsUserStore, Storage!ActsAsUserStore, KVS!ActsAsUserStore, KVS!Store!Spec,
         Storage!Store!Spec
=============================================================================
