------------------------- MODULE UserServiceInvProofs -------------------------
(***************************************************************************)
(* Theorems about the reset tokens and the events of UserService, what makes *)
(* it a directory of users (the refinement of UserDirectory), and when the  *)
(* promises hold that its overlapping requests break.                       *)
(***************************************************************************)
EXTENDS UserServiceProofs

-----------------------------------------------------------------------------
(* "uuid" gives a token to one user only, so what holds of the owner of a   *)
(* token that was given goes on to hold.                                    *)
OwnersStay == \A t \in Token : owner[t] # Empty => owner'[t] = owner[t]

LEMMA OwnedStays ==
  ASSUME OwnersStay, NEW user \in User \cup {NoUser}, Owned(user)
  PROVE  user.token # Empty => owner'[user.token] = user.id
<1>1. CASE user = NoUser
  BY <1>1 DEF NoUser
<1>2. CASE user \in User
  BY <1>2, NotEmpty DEF User, Owned, OwnersStay
<1> QED
  BY <1>1, <1>2

LEMMA RecordTypes ==
  ASSUME ServiceInv
  PROVE  /\ \A id \in UserID : /\ table[id] \in User \cup {NoUser}
                               /\ table[id] \in User => table[id].id = id
         /\ \A p \in Proc : /\ call[p].user \in User \cup {NoUser}
                            /\ call[p].old \in User \cup {NoUser}
                            /\ working[p] \in User \cup {NoUser}
                            /\ KVS!Saving(p) => call[p].user \in User
<1>1. KVS!TypeInv
  BY StorageTypes
<1>2. \A id \in UserID : /\ table[id] \in User \cup {NoUser}
                         /\ table[id] \in User => table[id].id = id
  BY <1>1, SameUser, NotEmpty DEF KVS!TypeInv, KVS!TypeOK, KVS!WellFormed, User
<1>3. \A p \in Proc : call[p].user \in User \cup {NoUser} /\ call[p].old \in User \cup {NoUser}
  BY <1>1, SameUser DEF KVS!TypeInv, KVS!TypeOK, KVS!Call
<1>4. \A p \in Proc : KVS!Saving(p) => call[p].user \in User
  BY <1>1, SameUser DEF KVS!TypeInv, KVS!CallOK, KVS!Fits, KVS!Saving
<1>5. \A p \in Proc : working[p] \in User \cup {NoUser}
  BY DEF ServiceInv, BasicInv, TypeOK
<1> QED
  BY <1>2, <1>3, <1>4, <1>5

(* A client that resets credentials sends a token that it was told.         *)
LEMMA ResetToken ==
  ASSUME ServiceInv, NEW p \in Proc, phase[p] \in {"load", "save"},
         req[p].op = "reset_credentials"
  PROVE  req[p].token \in known
<1>1. req[p].token # Empty
  BY RequestFacts DEF Complete, Required
<1> QED
  BY <1>1, RequestFacts DEF LoadOK, SaveOK

(* A step of p keeps TokenInv when it writes no record and no index entry   *)
(* but those of a Save of p, and leaves p with records whose token is the   *)
(* user's own.                                                              *)
LEMMA TokenStep ==
  ASSUME ServiceInv, TokenInv, OwnersStay, known' \subseteq GivenTokens', NEW p \in Proc,
         \A q \in Proc \ {p} :
           /\ req'[q] = req[q] /\ phase'[q] = phase[q]
           /\ working'[q] = working[q] /\ call'[q] = call[q],
         \A id \in UserID : table'[id] \in {table[id], call[p].user},
         \A t \in Token :
           \/ index'["token"][t] \in {index["token"][t], Empty}
           \/ index'["token"][t] = call[p].user.id /\ t = call[p].user.token,
         Owned(call[p].user)', Owned(call[p].old)', Owned(working[p])',
         req'[p].op = "reset_credentials" => ResetOK(p)'
  PROVE  TokenInv'
<1>1. \A t \in Token : index'["token"][t] \in {Empty, owner'[t]}
  <2>. SUFFICES ASSUME NEW t \in Token PROVE index'["token"][t] \in {Empty, owner'[t]}
    OBVIOUS
  <2>1. CASE index'["token"][t] \in {index["token"][t], Empty}
    BY <2>1 DEF TokenInv, OwnersStay
  <2>2. CASE index'["token"][t] = call[p].user.id /\ t = call[p].user.token
    <3>1. call[p].user \in User \cup {NoUser} /\ Owned(call[p].user) /\ t # Empty
      BY RecordTypes, NotEmpty DEF TokenInv
    <3> QED
      BY <2>2, <3>1, OwnedStays
  <2> QED
    BY <2>1, <2>2
<1>2. \A id \in UserID : Owned(table[id])'
  <2>. SUFFICES ASSUME NEW id \in UserID PROVE Owned(table[id])'
    OBVIOUS
  <2>1. table'[id] \in User \cup {NoUser} /\ Owned(table'[id])
    BY RecordTypes DEF TokenInv
  <2> QED
    BY <2>1, OwnedStays DEF Owned
<1>3. ASSUME NEW q \in Proc \ {p}
      PROVE  /\ Owned(call[q].user)' /\ Owned(call[q].old)' /\ Owned(working[q])'
             /\ req'[q].op = "reset_credentials" => ResetOK(q)'
  <2>1. /\ call[q].user \in User \cup {NoUser} /\ call[q].old \in User \cup {NoUser}
        /\ working[q] \in User \cup {NoUser}
        /\ Owned(call[q].user) /\ Owned(call[q].old) /\ Owned(working[q])
    BY RecordTypes DEF TokenInv
  <2>2. Owned(call[q].user)' /\ Owned(call[q].old)' /\ Owned(working[q])'
    BY <2>1, OwnedStays DEF Owned
  <2>3. ASSUME req[q].op = "reset_credentials", phase[q] \in {"load", "save"}
        PROVE  owner'[req[q].token] = owner[req[q].token]
    BY <2>3, ResetToken DEF TokenInv, GivenTokens, OwnersStay
  <2>4. req[q].op = "reset_credentials" => ResetOK(q)
    BY DEF TokenInv
  <2> QED
    BY <2>2, <2>3, <2>4 DEF ResetOK
<1> QED
  BY <1>1, <1>2, <1>3 DEF TokenInv
-----------------------------------------------------------------------------
LEMMA NoUserOwned == NoUser.token = Empty /\ KVS!Idle.user = NoUser /\ KVS!Idle.old = NoUser
                       /\ KVS!Idle.pc = "idle"
BY DEF NoUser, KVS!Idle, KVS!NoUser

(* Steps that give no token leave the owners alone.                         *)
LEMMA SameOwners ==
  ASSUME ServiceInv, TokenInv, UNCHANGED owner, UNCHANGED known
  PROVE  OwnersStay /\ known' \subseteq GivenTokens'
BY DEF OwnersStay, TokenInv, GivenTokens

LEMMA ArriveToken ==
  ASSUME ServiceInv, TokenInv, NEW p \in Proc, NEW r \in Request,
         RefuseArguments(p, r) \/ BeginCreate(p, r) \/ Load(p, r)
  PROVE  TokenInv'
<1>0. LocalTypes
  BY Parts
<1>1. req' = [req EXCEPT ![p] = r] /\ UNCHANGED <<owner, known>> /\ phase'[p] # "save"
  BY <1>0 DEF RefuseArguments, BeginCreate, Load, Begin, tokens, factory, LocalTypes
<1>2. OwnersStay /\ known' \subseteq GivenTokens'
  BY <1>1, SameOwners
<1>3. \A q \in Proc \ {p} :
        /\ req'[q] = req[q] /\ phase'[q] = phase[q]
        /\ working'[q] = working[q] /\ call'[q] = call[q]
  BY <1>0, <1>1, LoadEffect
     DEF RefuseArguments, BeginCreate, Load, Begin, LocalTypes, storage
<1>4. UNCHANGED <<table, index>>
  BY LoadEffect DEF RefuseArguments, BeginCreate, storage
<1>5. Owned(call[p].user)' /\ Owned(call[p].old)'
  BY <1>1, LoadEffect, NoUserOwned
     DEF RefuseArguments, BeginCreate, storage, TokenInv, Owned
<1>6. Owned(working[p])'
  BY <1>0, <1>1, NoUserOwned
     DEF RefuseArguments, BeginCreate, Load, Begin, LocalTypes, TokenInv, Owned
<1>7. req'[p].op = "reset_credentials" => ResetOK(p)'
  <2>1. CASE Load(p, r)
    <3>1. req'[p] = r
      BY <1>0, <1>1 DEF LocalTypes
    <3>2. r.op = "reset_credentials" =>
            call'[p].pc = "lookup" /\ call'[p].kind = "token" /\ call'[p].key = r.token
      BY <2>1, LoadEffect DEF LookupKind, LookupKey
    <3> QED
      BY <1>1, <3>1, <3>2 DEF ResetOK
  <2>2. CASE RefuseArguments(p, r) \/ BeginCreate(p, r)
    <3>1. phase'[p] \notin {"load", "save"}
      BY <1>0, <2>2 DEF RefuseArguments, BeginCreate, Begin, LocalTypes
    <3> QED
      BY <3>1 DEF ResetOK
  <2> QED
    BY <2>1, <2>2
<1> QED
  BY <1>2, <1>3, <1>4, <1>5, <1>6, <1>7, TokenStep

(* A Save of a record whose token is the user's own.                        *)
LEMMA SaveToken ==
  ASSUME ServiceInv, TokenInv, OwnersStay, NEW p \in Proc, NEW user \in User, SaveAs(p, user),
         Owned(user)',
         req[p].op = "reset_credentials" => user.id = owner[req[p].token],
         req[p].op = "reset_credentials" => UNCHANGED owner
  PROVE  TokenInv'
<1>. phase' = [phase EXCEPT ![p] = "save"] /\ working' = [working EXCEPT ![p] = user]
     /\ UNCHANGED <<req, known>>
  BY DEF SaveAs, tokens
<1>0. LocalTypes
  BY Parts
<1>1. phase'[p] = "save" /\ working'[p] = user
  BY <1>0 DEF LocalTypes
<1>2. known' \subseteq GivenTokens'
  BY DEF TokenInv, GivenTokens, OwnersStay
<1>3. \A q \in Proc \ {p} :
        /\ req'[q] = req[q] /\ phase'[q] = phase[q]
        /\ working'[q] = working[q] /\ call'[q] = call[q]
  BY <1>0, SaveEffect DEF LocalTypes
<1>4. UNCHANGED <<table, index>> /\ call'[p].user = user /\ call'[p].old = NoUser
  BY SaveEffect
<1>5. Owned(call[p].user)' /\ Owned(call[p].old)' /\ Owned(working[p])'
  BY <1>1, <1>4, NoUserOwned DEF Owned
<1>6. req'[p].op = "reset_credentials" => ResetOK(p)'
  BY <1>1 DEF ResetOK
<1> QED
  BY <1>2, <1>3, <1>4, <1>5, <1>6, TokenStep

(* An answer, and what it tells the client.                                 *)
LEMMA ReplyToken ==
  ASSUME ServiceInv, TokenInv, NEW p \in Proc, NEW err, NEW user, NEW logged,
         ReplyNow(p, err, user, logged),
         err = "nil" /\ req[p].op = "new_reset_token" => user.token \in GivenTokens
  PROVE  TokenInv'
<1>. Reply(p, err, user, logged) /\ Store!TakeAnswer(p) /\ UNCHANGED owner
  BY DEF ReplyNow, factory
<1>0. LocalTypes
  BY Parts
<1>1. OwnersStay /\ known' \subseteq GivenTokens'
  BY DEF OwnersStay, TokenInv, GivenTokens, Reply
<1>2. \A q \in Proc \ {p} :
        /\ req'[q] = req[q] /\ phase'[q] = phase[q]
        /\ working'[q] = working[q] /\ call'[q] = call[q]
  BY <1>0, AnswerEffect DEF Reply, LocalTypes
<1>3. call'[p] = KVS!Idle /\ UNCHANGED <<table, index>>
  BY AnswerEffect
<1>4. phase'[p] = "answered" /\ working'[p] = NoUser
  BY <1>0 DEF Reply, LocalTypes
<1>5. Owned(call[p].user)' /\ Owned(call[p].old)' /\ Owned(working[p])'
  BY <1>3, <1>4, NoUserOwned DEF Owned
<1>6. ResetOK(p)'
  BY <1>4 DEF ResetOK
<1> QED
  BY <1>1, <1>2, <1>3, <1>5, <1>6, TokenStep

LEMMA ContinueToken ==
  ASSUME Factory = "uuid", ServiceInv, TokenInv, NEW p \in Proc, Continue(p)
  PROVE  TokenInv'
<1>1. CASE SavesNew(p)
  <2>1. PICK user \in User : /\ req[p].op = "create" /\ user.token = Empty /\ UNCHANGED owner
                             /\ SaveAs(p, user)
    BY <1>1, RequestFacts, NewRecord DEF SavesNew, Numbering
  <2>2. OwnersStay /\ Owned(user)'
    BY <2>1 DEF OwnersStay, Owned
  <2> QED
    BY <2>1, <2>2, SaveToken
<1>2. CASE SavesChange(p)
  <2>1. PICK user \in User :
          /\ Found(p) /\ user.id = call[p].user.id /\ user.token \in {call[p].user.token, Empty}
          /\ SaveAs(p, user) /\ UNCHANGED factory
    BY <1>2 DEF SavesChange
  <2>2. Owned(call[p].user) /\ UNCHANGED owner
    BY <2>1 DEF TokenInv, factory
  <2>3. Owned(user)' /\ OwnersStay
    BY <2>1, <2>2 DEF Owned, OwnersStay
  <2>4. req[p].op = "reset_credentials" => user.id = owner[req[p].token]
    BY <2>1 DEF TokenInv, ResetOK, Found, Loaded
  <2> QED
    BY <2>1, <2>2, <2>3, <2>4, SaveToken
<1>3. CASE SavesToken(p)
  <2>1. PICK user \in User :
          /\ req[p].op = "new_reset_token" /\ user.token \in Token
          /\ owner' = [owner EXCEPT ![user.token] = user.id] /\ Ids!GiveToken(p, user.token)
          /\ SaveAs(p, user)
    BY <1>3 DEF SavesToken
  <2>2. user.token \notin GivenTokens
    BY <2>1 DEF Ids!GiveToken, Ids!NewTokens
  <2>3. owner \in [Token -> UserID \cup {Empty}]
    BY DEF ServiceInv, BasicInv, TypeOK
  <2>4. OwnersStay
    BY <2>1, <2>2, <2>3 DEF OwnersStay, GivenTokens
  <2>5. Owned(user)'
    BY <2>1, <2>3 DEF Owned
  <2> QED
    BY <2>1, <2>4, <2>5, SaveToken
<1>4. CASE Refuses(p)
  BY <1>4, ReplyToken DEF Refuses
<1>5. CASE AnswersFound(p)
  BY <1>5, ReplyToken DEF AnswersFound
<1>6. CASE Finish(p)
  <2>1. phase[p] = "save" /\ ReplyNow(p, SaveError(p), working[p], SaveEvents(p))
    BY <1>6 DEF Finish, Saved
  <2>2. SaveOK(p) /\ Owned(working[p])
    BY <2>1, RequestFacts DEF TokenInv
  <2>3. req[p].op = "new_reset_token" => working[p].token \in GivenTokens
    BY <2>2, NotEmpty DEF SaveOK, Owned, GivenTokens, User
  <2> QED
    BY <2>1, <2>3, ReplyToken
<1> QED
  BY <1>1, <1>2, <1>3, <1>4, <1>5, <1>6, ContinueCases
-----------------------------------------------------------------------------
(* A find by token leads to the owner of the token.                         *)
LEMMA FindToken ==
  ASSUME ServiceInv, TokenInv, NEW p \in Proc, StoreStep(p) \/ StoreFails(p), phase[p] = "load"
  PROVE  TokenInv'
<1>. UNCHANGED <<local, factory, tokens>> /\ KVS!TypeInv
  BY StoreEffect, StorageTypes
<1>0. ~KVS!Saving(p) /\ LoadOK(p) /\ (KVS!Step(p) \/ KVS!Fail(p))
  BY RequestFacts, StoreEffect DEF LoadOK, KVS!Saving, KVS!SavePhase
<1>1. /\ UNCHANGED <<table, index>>
      /\ call'[p].old \in {call[p].old, NoUser}
      /\ \/ /\ call[p].pc = "lookup" /\ call'[p].pc = "fetch"
            /\ call'[p].id = index[call[p].kind][call[p].key]
            /\ call'[p].id # Empty /\ call'[p].user = call[p].user
         \/ /\ call[p].pc = "fetch" /\ call'[p].pc = "done" /\ call'[p].err = "nil"
            /\ call'[p].user = table[call[p].id] /\ call'[p].user # NoUser
         \/ call'[p].pc = "done" /\ call'[p].err # "nil" /\ call'[p].user = NoUser
  BY <1>0, KVS!FindMoves, StorageAssumptions, SameUser DEF KVS!store
<1>2. OwnersStay /\ known' \subseteq GivenTokens'
  BY SameOwners DEF factory, tokens
<1>3. call[p].pc = "fetch" => call[p].id \in UserID
  BY DEF KVS!TypeInv, KVS!CallOK, KVS!Fits
<1>4. Owned(call[p].user)' /\ Owned(call[p].old)' /\ Owned(working[p])'
  <2>1. Owned(call'[p].user) /\ Owned(call'[p].old) /\ Owned(working[p])
    BY <1>1, <1>3, NoUserOwned DEF TokenInv, Owned
  <2> QED
    BY <2>1 DEF Owned, factory, local
<1>5. ASSUME req[p].op = "reset_credentials" PROVE ResetOK(p)'
  <2>1. ResetOK(p) /\ req[p].token \in Token /\ req[p].token \in known
    BY <1>5, ResetToken, RequestFacts, Parts DEF TokenInv, LocalTypes
  <2>2. call'[p].pc = "fetch" => call'[p].id = owner[req[p].token]
    BY <1>1, <2>1 DEF ResetOK, TokenInv
  <2>3. call'[p].pc = "done" /\ call'[p].err = "nil" => call'[p].user.id = owner[req[p].token]
    BY <1>1, <1>3, <2>1, RecordTypes DEF ResetOK
  <2>4. call'[p].pc # "lookup"
    BY <1>1
  <2> QED
    BY <2>2, <2>3, <2>4 DEF ResetOK, local, factory
<1>6. \A q \in Proc \ {p} :
        /\ req'[q] = req[q] /\ phase'[q] = phase[q]
        /\ working'[q] = working[q] /\ call'[q] = call[q]
  BY StoreEffect DEF local
<1>7. req'[p].op = "reset_credentials" => ResetOK(p)'
  BY <1>5 DEF local
<1> QED
  BY <1>1, <1>2, <1>4, <1>6, <1>7, TokenStep

(* A Save enters its own user's token.                                      *)
LEMMA WriteToken ==
  ASSUME ServiceInv, TokenInv, NEW p \in Proc, StoreStep(p) \/ StoreFails(p), phase[p] = "save"
  PROVE  TokenInv'
<1>. UNCHANGED <<local, factory, tokens>> /\ KVS!TypeInv
  BY StoreEffect, StorageTypes
<1>0. KVS!Saving(p) /\ (KVS!Step(p) \/ KVS!Fail(p))
  <2>1. SaveOK(p)
    BY RequestFacts
  <2>2. KVS!Step(p) \/ KVS!Fail(p)
    BY StoreEffect
  <2>3. call[p].pc # "done"
    BY <2>2 DEF KVS!Step, KVS!Fail, KVS!CheckTaken, KVS!LookupOld, KVS!RemoveOld, KVS!PutNew,
                KVS!SetUser, KVS!Lookup, KVS!Fetch, KVS!ReadFails, KVS!WriteFails
  <2> QED
    BY <2>1, <2>2, <2>3, SameTypes DEF SaveOK
<1>1. call[p].user \in User /\ call[p].user.id \in UserID
  BY <1>0, RecordTypes DEF User
<1>2. /\ call'[p].user \in {call[p].user, NoUser}
      /\ call'[p].old \in {call[p].old, table[call[p].user.id], NoUser}
  BY <1>0, KVS!SaveMoves, StorageAssumptions, SameUser
<1>3. /\ \A id \in UserID : table'[id] \in {table[id], call[p].user}
      /\ \A t \in Token :
           \/ index'["token"][t] \in {index["token"][t], Empty}
           \/ index'["token"][t] = call[p].user.id /\ t = call[p].user.token
  <2>1. /\ \A id \in UserID :
             table'[id] = table[id] \/ (id = call[p].user.id /\ table'[id] = call[p].user)
        /\ \A k \in KVS!Kind, key \in KVS!Key :
             \/ index'[k][key] \in {index[k][key], Empty}
             \/ index'[k][key] = call[p].user.id /\ key = call[p].user[k]
    BY <1>0, <1>1, KVS!SaveWrites, StorageAssumptions, StoredAsIs
  <2>2. "token" \in KVS!Kind /\ Token \subseteq KVS!Key
    BY DEF KVS!Kind, KVS!Key
  <2>3. call[p].user["token"] = call[p].user.token
    OBVIOUS
  <2> QED
    BY <2>1, <2>2, <2>3
<1>4. OwnersStay /\ known' \subseteq GivenTokens'
  BY SameOwners DEF factory, tokens
<1>5. Owned(call[p].user)' /\ Owned(call[p].old)' /\ Owned(working[p])'
  <2>1. Owned(call'[p].user) /\ Owned(call'[p].old) /\ Owned(working[p])
    BY <1>1, <1>2, NoUserOwned DEF TokenInv, Owned
  <2> QED
    BY <2>1 DEF Owned, factory, local
<1>6. req'[p].op = "reset_credentials" => ResetOK(p)'
  BY DEF TokenInv, ResetOK, local, factory
<1>7. \A q \in Proc \ {p} :
        /\ req'[q] = req[q] /\ phase'[q] = phase[q]
        /\ working'[q] = working[q] /\ call'[q] = call[q]
  BY StoreEffect DEF local
<1> QED
  BY <1>3, <1>4, <1>5, <1>6, <1>7, TokenStep

(* While the clock ticks or the id factory counts, a request that waits for  *)
(* its token notes the time in its copy of the user.                        *)
Noted(q) ==
  /\ Tokening(q)
  /\ working'[q] \in User /\ working'[q].id = call[q].user.id
  /\ working'[q].token = call[q].user.token /\ working'[q].data.issued = now

LEMMA RestEffect ==
  ASSUME ServiceInv, Tick \/ UNCHANGED vars \/ (\E p \in Proc : CountStep(p))
  PROVE  /\ UNCHANGED <<table, index, call, faults, crashes, interrupted, suspect>>
         /\ UNCHANGED <<req, phase, answer, since, events, known, spent, owner, ids>>
         /\ \A q \in Proc : working'[q] = working[q] \/ Noted(q)
<1>1. ASSUME NEW p \in Proc, CountStep(p), NEW q \in Proc
      PROVE  working'[q] = working[q] \/ Noted(q)
  <2>1. working \in [Proc -> User \cup {NoUser}]
    BY Parts DEF LocalTypes
  <2> QED
    BY <1>1, <2>1, CountEffect, TimedRecord DEF Noted
<1>2. ASSUME NEW p \in Proc, CountStep(p)
      PROVE  /\ UNCHANGED <<table, index, call, faults, crashes, interrupted, suspect>>
             /\ UNCHANGED <<req, phase, answer, since, events, known, spent, owner, ids>>
  BY <1>2, CountEffect DEF storage, tokens
<1> QED
  BY <1>1, <1>2 DEF Tick, vars, storage, local, factory, tokens

LEMMA RestToken ==
  ASSUME ServiceInv, TokenInv, Tick \/ UNCHANGED vars \/ (\E p \in Proc : CountStep(p))
  PROVE  TokenInv'
<1>1. \A q \in Proc : Owned(working'[q])
  BY RestEffect DEF TokenInv, Owned, Noted
<1>2. ASSUME NEW q \in Proc, ResetOK(q) PROVE ResetOK(q)'
  BY <1>2, RestEffect DEF ResetOK, Noted, Tokening, Loaded
<1> QED
  BY <1>1, <1>2, RestEffect DEF TokenInv, GivenTokens, Owned

(* A crash: what a persistent store has stays, and so do the owners.        *)
LEMMA CrashToken ==
  ASSUME ServiceInv, TokenInv, Crash
  PROVE  TokenInv'
<1>1. UNCHANGED <<owner, known>> /\ KVS!Crash
  BY SameCrash DEF Crash, tokens
<1>2. \A q \in Proc : call'[q] = KVS!Idle /\ working'[q] = NoUser /\ phase'[q] = "idle"
  BY <1>1 DEF Crash, KVS!Crash
<1>3. /\ \A t \in Token : index'["token"][t] \in {index["token"][t], Empty}
      /\ \A id \in UserID : table'[id] \in {table[id], NoUser}
  BY <1>1, SameUser DEF KVS!Crash, KVS!store, KVS!EmptyTable, KVS!Kind, KVS!Key
<1>4. \A id \in UserID : Owned(table[id])'
  BY <1>1, <1>3, NoUserOwned DEF TokenInv, Owned
<1>5. \A q \in Proc : Owned(call[q].user)' /\ Owned(call[q].old)' /\ Owned(working[q])' /\ ResetOK(q)'
  BY <1>2, NoUserOwned DEF Owned, ResetOK
<1> QED
  BY <1>1, <1>3, <1>4, <1>5 DEF TokenInv, GivenTokens

LEMMA TokenInit ==
  ASSUME Init
  PROVE  TokenInv
<1>1. KVS!Init /\ ServiceInv
  BY SameInit, ServiceInit DEF Init
<1>2. known \subseteq GivenTokens
  BY DEF Init, GivenTokens
<1>3. \A t \in Token : owner[t] = KVS!OwnerOf(table, "token", t)
  BY DEF Init, KVS!OwnerOf, Store!OwnerOf
<1>4. \A t \in Token : index["token"][t] = owner[t]
  BY <1>1, <1>3 DEF KVS!Init, KVS!Kind, KVS!Key
<1>5. \A q \in Proc : call[q] = KVS!Idle /\ working[q] = NoUser /\ phase[q] = "idle"
  BY <1>1 DEF Init, KVS!Init
<1>6. \A q \in Proc : Owned(call[q].user) /\ Owned(call[q].old) /\ Owned(working[q]) /\ ResetOK(q)
  BY <1>5, NoUserOwned DEF Owned, ResetOK
<1>7. ASSUME NEW id \in UserID, table[id].token # Empty
      PROVE  owner[table[id].token] = id /\ table[id].id = id
  <2>1. table[id] \in User /\ table[id].id = id /\ table[id].token \in Token
    BY <1>1, <1>7, RecordTypes, NoUserOwned DEF User
  <2>2. table \in [UserID -> User \cup {NoUser}] /\ KVS!NoSharedKeys(table)
    BY <1>1, StorageAssumptions, SameUser
       DEF KVS!Init, KVS!EarlierAssumption, KVS!EmptyTable, KVS!NoSharedKeys, KVS!NoUser,
           KVS!Kind
  <2>3. KVS!OwnerOf(table, "token", table[id].token) = id
    <3>1. "token" \in KVS!Kind /\ table[id].token \in KVS!Key
      BY <2>1 DEF KVS!Kind, KVS!Key
    <3>2. table \in [UserID -> KVS!User \cup {KVS!NoUser}]
      BY <2>2, SameUser
    <3>3. table[id]["token"] = table[id].token
      OBVIOUS
    <3> QED
      BY <2>2, <3>1, <3>2, <3>3, KVS!OwnerOfExact, StorageAssumptions
  <2> QED
    BY <1>3, <2>1, <2>3
<1>8. \A id \in UserID : Owned(table[id])
  BY <1>7 DEF Owned
<1> QED
  BY <1>2, <1>4, <1>6, <1>8 DEF TokenInv
-----------------------------------------------------------------------------
LEMMA TokenNext ==
  ASSUME Factory = "uuid"
  PROVE  ServiceInv /\ TokenInv /\ [Next]_vars => TokenInv'
<1>. SUFFICES ASSUME ServiceInv, TokenInv, [Next]_vars PROVE TokenInv'
  OBVIOUS
<1>1. ASSUME NEW p \in Proc, Arrive(p) PROVE TokenInv'
  BY <1>1, ArriveToken DEF Arrive
<1>2. ASSUME NEW p \in Proc, Continue(p) PROVE TokenInv'
  BY <1>2, ContinueToken
<1>3. ASSUME NEW p \in Proc, StoreStep(p) \/ StoreFails(p) PROVE TokenInv'
  BY <1>3, StoreEffect, FindToken, WriteToken
<1> QED
  BY <1>1, <1>2, <1>3, RestToken, CrashToken DEF Next

(* TokenBelongs in every state, with the id factory "uuid": under any         *)
(* interleaving of requests, lost writes and crashes, a reset token leads    *)
(* service.go to the user it was made for and resets no other's credentials. *)
(* (The factory "seq" may give a token twice, which the property rules out.) *)
THEOREM TokensBelong ==
  ASSUME Factory = "uuid"
  PROVE  Spec => []TokenBelongs
<1>1. ServiceInv /\ TokenInv => TokenBelongs
  <2>. SUFFICES ASSUME ServiceInv, TokenInv PROVE TokenBelongs
    OBVIOUS
  <2>1. \A id \in UserID : table[id].token # Empty => owner[table[id].token] = id
    BY RecordTypes, NoUserOwned DEF TokenInv, Owned
  <2> QED
    BY <2>1 DEF TokenBelongs, TokenInv, ResetOK
<1>2. Init => ServiceInv /\ TokenInv
  BY ServiceInit, TokenInit
<1>3. ServiceInv /\ TokenInv /\ [Next]_vars => ServiceInv' /\ TokenInv'
  BY ServiceNext, TokenNext
<1> QED
  BY <1>1, <1>2, <1>3, PTL DEF Spec
-----------------------------------------------------------------------------
(* While no driver call failed and no table was lost, CreationsOK holds.     *)
Reliable == faults = 0 /\ (Store!DriverPersists \/ crashes = 0)

CreationsInv == Reliable => CreationsOK

SavedIn(p) ==
  phase[p] = "save" /\ call[p].pc = "done" /\ call[p].err = "nil"
    => table[working[p].id].id = working[p].id

LEMMA CreationsParts == CreationsOK <=> CreatedUsersAreStored /\ \A p \in Proc : SavedIn(p)
BY DEF CreationsOK, SavedIn

LEMMA CreationsPartsNext ==
  CreationsOK' <=> CreatedUsersAreStored' /\ (\A p \in Proc : SavedIn(p))'
BY CreationsParts, PTL

(* A record that is there stays, though it may be written again.            *)
RecordsStay == \A id \in UserID : table[id].id = id => table'[id].id = id

LEMMA EventFacts ==
  ASSUME ServiceInv
  PROVE  /\ events \in Seq(EventRecord) /\ Len(events) \in Nat
         /\ \A i \in 1..Len(events) : events[i].id \in UserID
<1>1. events \in Seq(EventRecord)
  BY DEF ServiceInv, BasicInv, TypeOK
<1>2. \A i \in 1..Len(events) : events[i] \in EventRecord
  BY <1>1
<1> QED
  BY <1>1, <1>2 DEF EventRecord

LEMMA CreationsStep ==
  ASSUME ServiceInv, CreationsOK, RecordsStay, UNCHANGED events, NEW p \in Proc,
         \A q \in Proc \ {p} :
           phase'[q] = phase[q] /\ working'[q] = working[q] /\ call'[q] = call[q],
         SavedIn(p)'
  PROVE  CreationsOK'
<1>1. CreatedUsersAreStored'
  BY EventFacts DEF CreationsOK, CreatedUsersAreStored, RecordsStay
<1>2. ASSUME NEW q \in Proc \ {p} PROVE SavedIn(q)'
  <2>1. SavedIn(q) /\ (phase[q] = "save" => working[q].id \in UserID)
    BY RequestFacts DEF CreationsOK, SavedIn, SaveOK, User
  <2> QED
    BY <2>1 DEF SavedIn, RecordsStay
<1>3. \A q \in Proc : SavedIn(q)'
  BY <1>2
<1> QED
  BY <1>1, <1>3, CreationsPartsNext

(* The events grow by one that is no creation, or by that of a stored user.  *)
LEMMA EventStep ==
  ASSUME ServiceInv, CreatedUsersAreStored, UNCHANGED table, NEW e,
         e.tag = "create" => table[e.id].id = e.id,
         events' = events \/ events' = Append(events, e)
  PROVE  CreatedUsersAreStored'
<1>1. CASE events' = events
  BY <1>1 DEF CreatedUsersAreStored
<1>2. CASE events' = Append(events, e)
  <2>. SUFFICES ASSUME NEW i \in 1..Len(events'), events'[i].tag = "create"
                PROVE  table[events'[i].id].id = events'[i].id
    BY DEF CreatedUsersAreStored
  <2>1. events \in Seq(EventRecord) /\ Len(events) \in Nat
    BY EventFacts
  <2>2. Len(events') = Len(events) + 1
    BY <1>2, <2>1
  <2>3. CASE i \in 1..Len(events)
    <3>1. events'[i] = events[i]
      BY <1>2, <2>1, <2>3
    <3> QED
      BY <2>3, <3>1 DEF CreatedUsersAreStored
  <2>4. CASE i = Len(events) + 1
    <3>1. events'[i] = e
      BY <1>2, <2>1, <2>4
    <3> QED
      BY <3>1
  <2>5. i \in 1..Len(events) \/ i = Len(events) + 1
    BY <2>1, <2>2
  <2> QED
    BY <2>3, <2>4, <2>5
<1> QED
  BY <1>1, <1>2

LEMMA ReplyCreation ==
  ASSUME ServiceInv, CreationsOK, NEW p \in Proc, NEW err, NEW user, NEW logged,
         ReplyNow(p, err, user, logged), NEW e,
         e.tag = "create" => table[e.id].id = e.id,
         logged \in {<<>>, <<e>>}
  PROVE  CreationsOK'
<1>. Reply(p, err, user, logged) /\ Store!TakeAnswer(p)
  BY DEF ReplyNow
<1>0. LocalTypes /\ events \in Seq(EventRecord)
  BY Parts, EventFacts
<1>1. UNCHANGED table /\ call'[p].pc = "idle" /\ \A q \in Proc \ {p} : call'[q] = call[q]
  BY AnswerEffect DEF KVS!Idle
<1>2. events' = events \/ events' = Append(events, e)
  BY <1>0 DEF Reply
<1>3. CreatedUsersAreStored'
  BY <1>1, <1>2, EventStep DEF CreationsOK
<1>4. \A q \in Proc \ {p} : phase'[q] = phase[q] /\ working'[q] = working[q]
  BY <1>0 DEF Reply, LocalTypes
<1>5. \A q \in Proc : SavedIn(q)'
  BY <1>1, <1>4 DEF CreationsOK, SavedIn
<1> QED
  BY <1>3, <1>5, CreationsPartsNext

LEMMA ContinueCreation ==
  ASSUME ServiceInv, CreationsOK, NEW p \in Proc, Continue(p)
  PROVE  CreationsOK'
<1>. LocalTypes
  BY Parts
<1>1. ASSUME NEW user \in User, SaveAs(p, user) PROVE CreationsOK'
  <2>1. UNCHANGED <<table, events>> /\ call'[p].pc = "check"
    BY <1>1, SaveEffect DEF SaveAs
  <2>2. \A q \in Proc \ {p} :
          phase'[q] = phase[q] /\ working'[q] = working[q] /\ call'[q] = call[q]
    BY <1>1, SaveEffect DEF SaveAs, LocalTypes
  <2>3. SavedIn(p)' /\ RecordsStay
    BY <2>1 DEF SavedIn, RecordsStay
  <2> QED
    BY <2>1, <2>2, <2>3, CreationsStep
<1>2. CASE SavesNew(p) \/ SavesChange(p) \/ SavesToken(p)
  BY <1>1, <1>2, RequestFacts, NewRecord DEF SavesNew, SavesChange, SavesToken, Numbering
<1>3. CASE Refuses(p) \/ AnswersFound(p)
  <2>1. Event("authenticate", call[p].user).tag # "create"
    BY DEF Event
  <2> QED
    BY <1>3, <2>1, ReplyCreation DEF Refuses, AnswersFound
<1>4. CASE Finish(p)
  <2>1. phase[p] = "save" /\ call[p].pc = "done"
        /\ ReplyNow(p, SaveError(p), working[p], SaveEvents(p))
    BY <1>4 DEF Finish, Saved
  <2>. DEFINE e == IF SaveError(p) = "nil" THEN Event(req[p].op, working[p])
                                           ELSE Event("get", working[p])
  <2>2. SaveEvents(p) \in {<<>>, <<e>>}
    BY DEF SaveEvents
  <2>3. e.tag = "create" => table[e.id].id = e.id
    <3>1. e.tag = "create" => req[p].op = "create" /\ SaveError(p) = "nil" /\ e.id = working[p].id
      BY DEF Event
    <3>2. req[p].op = "create" => SaveError(p) = call[p].err
      BY DEF SaveError
    <3> QED
      BY <2>1, <3>1, <3>2 DEF CreationsOK
  <2> QED
    BY <2>1, <2>2, <2>3, ReplyCreation
<1> QED
  BY <1>2, <1>3, <1>4, ContinueCases

LEMMA StoreCreation ==
  ASSUME ServiceInv, CreationsOK, NEW p \in Proc, StoreStep(p) \/ StoreFails(p),
         faults = 0, faults' = 0
  PROVE  CreationsOK'
<1>. UNCHANGED <<local, events>> /\ KVS!TypeInv /\ (KVS!Step(p) \/ KVS!Fail(p))
  BY StoreEffect, StorageTypes
<1>1. \A q \in Proc \ {p} :
        phase'[q] = phase[q] /\ working'[q] = working[q] /\ call'[q] = call[q]
  BY StoreEffect DEF local
<1>2. CASE KVS!Saving(p)
  <2>1. phase[p] = "save" /\ call[p].user = working[p]
    <3>1. phase[p] \in {"load", "save"}
      BY StoreEffect
    <3>2. phase[p] # "load"
      BY <1>2, RequestFacts DEF LoadOK, KVS!Saving, KVS!SavePhase
    <3> QED
      BY <1>2, <3>1, <3>2, RequestFacts, SameTypes DEF SaveOK
  <2>2. call[p].user \in User
    BY <1>2, RecordTypes
  <2>3. RecordsStay
    <3>1. \A id \in UserID :
            table'[id] = table[id] \/ (id = call[p].user.id /\ table'[id] = call[p].user)
      BY <1>2, <2>2, KVS!SaveWrites, StorageAssumptions, StoredAsIs
    <3> QED
      BY <3>1 DEF RecordsStay
  <2>4. SavedIn(p)'
    <3>. SUFFICES ASSUME call'[p].pc = "done", call'[p].err = "nil"
                  PROVE  table'[working[p].id].id = working[p].id
      BY DEF SavedIn, local
    <3>1. \/ table'[call[p].user.id] = call[p].user
          \/ call'[p].err \in {"EmailAlreadyTaken", "LoginNameAlreadyTaken"}
          \/ faults' = faults + 1
      BY <1>2, <2>2, KVS!SaveAnswers, StorageAssumptions, StoredAsIs
    <3>2. faults' # faults + 1
      OBVIOUS
    <3> QED
      BY <2>1, <3>1, <3>2
  <2> QED
    BY <1>1, <2>3, <2>4, CreationsStep
<1>3. CASE ~KVS!Saving(p)
  <2>1. UNCHANGED table
    BY <1>3, KVS!FindMoves, StorageAssumptions DEF KVS!store
  <2>2. phase[p] # "save"
    <3>1. call[p].pc # "done"
      BY DEF KVS!Step, KVS!Fail, KVS!CheckTaken, KVS!LookupOld, KVS!RemoveOld, KVS!PutNew,
             KVS!SetUser, KVS!Lookup, KVS!Fetch, KVS!ReadFails, KVS!WriteFails
    <3> QED
      BY <1>3, <3>1, RequestFacts, SameTypes DEF SaveOK
  <2>3. SavedIn(p)' /\ RecordsStay
    BY <2>1, <2>2 DEF SavedIn, RecordsStay, local
  <2> QED
    BY <1>1, <2>3, CreationsStep
<1> QED
  BY <1>2, <1>3

(* Faults and crashes are never undone.                                     *)
LEMMA ReliableBefore == ServiceInv /\ [Next]_vars /\ Reliable' => Reliable
<1>. SUFFICES ASSUME ServiceInv, [Next]_vars, Reliable' PROVE Reliable
  OBVIOUS
<1>1. faults \in Nat /\ crashes \in Nat
  BY StorageTypes DEF KVS!TypeInv, KVS!TypeOK
<1>2. faults' \in {faults, faults + 1} /\ crashes' \in {crashes, crashes + 1}
  <2>1. [KVS!Next]_(KVS!vars)
    BY StorageStep
  <2>2. ASSUME NEW q \in Proc, KVS!Invoke(q) PROVE UNCHANGED <<faults, crashes>>
    BY <2>2 DEF KVS!Invoke, KVS!Save, KVS!Get, KVS!FindBy, KVS!TakeAnswer
  <2>3. ASSUME NEW q \in Proc, KVS!Step(q) PROVE UNCHANGED <<faults, crashes>>
    BY <2>3 DEF KVS!Step, KVS!CheckTaken, KVS!LookupOld, KVS!RemoveOld, KVS!PutNew, KVS!SetUser,
                KVS!Lookup, KVS!Fetch
  <2>4. ASSUME NEW q \in Proc, KVS!Fail(q) PROVE faults' = faults + 1 /\ UNCHANGED crashes
    BY <2>4 DEF KVS!Fail, KVS!ReadFails, KVS!WriteFails
  <2>5. CASE KVS!Crash
    BY <2>5 DEF KVS!Crash
  <2>6. CASE UNCHANGED KVS!vars
    BY <2>6 DEF KVS!vars
  <2> QED
    BY <2>1, <2>2, <2>3, <2>4, <2>5, <2>6 DEF KVS!Next
<1>3. faults' = 0 => faults = 0
  BY <1>1, <1>2
<1>4. crashes' = 0 => crashes = 0
  BY <1>1, <1>2
<1> QED
  BY <1>3, <1>4 DEF Reliable, Store!DriverPersists

(* CreatedUsersAreStored in every state: unless a driver call failed, or a    *)
(* memory store died, the user of every user.created event of service.go can *)
(* be read, whatever requests overlap and wherever the process dies.         *)
THEOREM CreationsLast ==
  Spec => [](faults = 0 /\ (Store!DriverPersists \/ crashes = 0) => CreatedUsersAreStored)
<1>1. Init => ServiceInv /\ CreationsInv
  <2>. SUFFICES ASSUME Init PROVE CreationsOK
    BY ServiceInit DEF CreationsInv
  <2>1. events = <<>> /\ \A p \in Proc : phase[p] = "idle"
    BY DEF Init
  <2>2. CreatedUsersAreStored
    BY <2>1 DEF CreatedUsersAreStored
  <2> QED
    BY <2>1, <2>2 DEF CreationsOK
<1>2. ServiceInv /\ CreationsInv /\ [Next]_vars => ServiceInv' /\ CreationsInv'
  <2>. SUFFICES ASSUME ServiceInv, CreationsInv, [Next]_vars, Reliable' PROVE CreationsOK'
    BY ServiceNext DEF CreationsInv
  <2>1. CreationsOK /\ Reliable
    BY ReliableBefore DEF CreationsInv
  <2>2. faults = 0 /\ faults' = 0
    BY <2>1 DEF Reliable
  <2>3. ASSUME NEW p \in Proc, Arrive(p) PROVE CreationsOK'
    <3>1. PICK r \in Request : RefuseArguments(p, r) \/ BeginCreate(p, r) \/ Load(p, r)
      BY <2>3 DEF Arrive
    <3>2. UNCHANGED <<table, events>>
      BY <3>1, LoadEffect DEF RefuseArguments, BeginCreate, Load, Begin, storage
    <3>3. phase'[p] # "save" /\ \A q \in Proc \ {p} :
            phase'[q] = phase[q] /\ working'[q] = working[q] /\ call'[q] = call[q]
      BY <3>1, LoadEffect, Parts
         DEF RefuseArguments, BeginCreate, Load, Begin, LocalTypes, storage
    <3>4. SavedIn(p)' /\ RecordsStay
      BY <3>2, <3>3 DEF SavedIn, RecordsStay
    <3> QED
      BY <2>1, <3>2, <3>3, <3>4, CreationsStep
  <2>4. ASSUME NEW p \in Proc, Continue(p) PROVE CreationsOK'
    BY <2>1, <2>4, ContinueCreation
  <2>5. ASSUME NEW p \in Proc, StoreStep(p) \/ StoreFails(p) PROVE CreationsOK'
    BY <2>1, <2>2, <2>5, StoreCreation
  <2>6. CASE Tick \/ UNCHANGED vars \/ \E p \in Proc : CountStep(p)
    <3>1. CreatedUsersAreStored'
      BY <2>1, <2>6, RestEffect DEF CreationsOK, CreatedUsersAreStored
    <3>2. ASSUME NEW p \in Proc PROVE SavedIn(p)'
      BY <2>1, <2>6, RestEffect DEF CreationsOK, SavedIn, Noted, Tokening, Loaded
    <3> QED
      BY <3>1, <3>2, CreationsPartsNext
  <2>7. CASE Crash
    <3>1. crashes \in Nat /\ crashes' = crashes + 1 /\ KVS!Crash
      BY <2>7, SameCrash, StorageTypes DEF Crash, KVS!Crash, KVS!TypeInv, KVS!TypeOK
    <3>2. crashes' # 0
      BY <3>1
    <3>3. Store!DriverPersists
      BY <3>2 DEF Reliable, Store!DriverPersists
    <3>4. UNCHANGED table
      BY <3>1, <3>3 DEF KVS!Crash, KVS!store, KVS!DriverPersists, Store!DriverPersists
    <3>5. UNCHANGED events /\ \A p \in Proc : phase'[p] = "idle"
      BY <2>7 DEF Crash
    <3>6. CreatedUsersAreStored'
      BY <2>1, <3>4, <3>5 DEF CreationsOK, CreatedUsersAreStored
    <3> QED
      BY <3>5, <3>6 DEF CreationsOK
  <2> QED
    BY <2>3, <2>4, <2>5, <2>6, <2>7 DEF Next
<1>3. CreationsInv =>
        (faults = 0 /\ (Store!DriverPersists \/ crashes = 0) => CreatedUsersAreStored)
  BY DEF CreationsInv, Reliable, CreationsOK
<1> QED
  BY <1>1, <1>2, <1>3, PTL DEF Spec
-----------------------------------------------------------------------------
(* Whoever is in a storage call is there alone.                             *)
Alone(p) == \A q \in Proc \ {p} : phase[q] \notin {"load", "save"}

LEMMA SerialAlone ==
  ASSUME Serial, NEW p \in Proc, phase[p] \in {"load", "save"}
  PROVE  Alone(p)
BY DEF Serial, Alone

LEMMA SerialAloneNext ==
  ASSUME Serial', NEW p \in Proc, phase'[p] \in {"load", "save"}
  PROVE  Alone(p)'
BY DEF Serial, Alone

(* An index entry of a token that a client was told is that of its user.    *)
EntriesTrue == \A t \in known, id \in UserID : index["token"][t] = id => table[id].token = t

LEMMA SpentStep ==
  ASSUME SpentInv, NEW p \in Proc,
         \A q \in Proc \ {p} :
           req'[q] = req[q] /\ phase'[q] = phase[q]
             /\ working'[q] = working[q] /\ call'[q] = call[q],
         Alone(p)', EntriesTrue', SpentTokensAreGone', CopyOK(p)'
  PROVE  SpentInv'
<1>1. ASSUME NEW q \in Proc \ {p} PROVE CopyOK(q)'
  BY <1>1 DEF Alone, CopyOK, Loaded, Saved
<1>2. \A q \in Proc : CopyOK(q)'
  BY <1>1
<1> QED
  BY <1>2 DEF SpentInv, EntriesTrue

LEMMA SamePhases ==
  ASSUME NEW p
  PROVE  /\ Store!Writing(p) <=> KVS!Writing(p)
         /\ Store!Saving(p) <=> KVS!Saving(p)
         /\ Storage!Cleared(p, "token") <=> KVS!Cleared(p, "token")
BY DEF Store!Writing, KVS!Writing, Store!Saving, KVS!Saving, Store!SavePhase, KVS!SavePhase,
       Storage!Cleared, KVS!Cleared, Storage!Before, KVS!Before

LEMMA SamePhasesNext ==
  ASSUME NEW p
  PROVE  /\ Store!Writing(p)' <=> KVS!Writing(p)'
         /\ Store!Saving(p)' <=> KVS!Saving(p)'
         /\ Storage!Cleared(p, "token")' <=> KVS!Cleared(p, "token")'
BY DEF Store!Writing, KVS!Writing, Store!Saving, KVS!Saving, Store!SavePhase, KVS!SavePhase,
       Storage!Cleared, KVS!Cleared, Storage!Before, KVS!Before

(* A Save begins with the stored token, with none or with a new one.        *)
LEMMA SaveSpent ==
  ASSUME ServiceInv, SpentInv, Serial', NEW p \in Proc, NEW user \in User, SaveAs(p, user),
         user.token \in {Empty, table[user.id].token} \/ user.token \notin known,
         req[p].op = "reset_credentials" => user.token = Empty
  PROVE  SpentInv'
<1>. phase' = [phase EXCEPT ![p] = "save"] /\ working' = [working EXCEPT ![p] = user]
     /\ UNCHANGED <<req, known, spent>>
  BY DEF SaveAs, tokens
<1>0. LocalTypes
  BY Parts
<1>1. phase'[p] = "save" /\ working'[p] = user
  BY <1>0 DEF LocalTypes
<1>2. UNCHANGED <<table, index>> /\ call'[p].pc = "check"
  BY SaveEffect
<1>3. \A q \in Proc \ {p} :
        /\ req'[q] = req[q] /\ phase'[q] = phase[q]
        /\ working'[q] = working[q] /\ call'[q] = call[q]
  BY <1>0, SaveEffect DEF LocalTypes
<1>4. Alone(p)'
  BY <1>1, SerialAloneNext
<1>5. EntriesTrue' /\ SpentTokensAreGone'
  BY <1>2 DEF SpentInv, EntriesTrue, SpentTokensAreGone
<1>6. ~Storage!Cleared(p, "token")' /\ ~Store!Writing(p)'
  BY <1>2 DEF Storage!Cleared, Store!Writing
<1>7. CopyOK(p)'
  BY <1>1, <1>2, <1>6 DEF CopyOK, EntryOK, Loaded, Saved
<1> QED
  BY <1>3, <1>4, <1>5, <1>7, SpentStep

(* An answer, and what it makes known or spent.                             *)
LEMMA ReplySpent ==
  ASSUME ServiceInv, SpentInv, Serial, NEW p \in Proc, NEW err, NEW user, NEW logged,
         ReplyNow(p, err, user, logged), phase[p] \in {"load", "save"},
         err = "nil" /\ req[p].op = "new_reset_token" =>
           \A id \in UserID : index["token"][user.token] = id => table[id].token = user.token,
         err = "nil" /\ req[p].op = "new_reset_token" => user.token \notin spent,
         err = "nil" /\ req[p].op = "reset_credentials" =>
           /\ index["token"][req[p].token] = Empty
           /\ \A id \in UserID : table[id].token # req[p].token
  PROVE  SpentInv'
<1>. Reply(p, err, user, logged) /\ Store!TakeAnswer(p)
  BY DEF ReplyNow
<1>0. LocalTypes
  BY Parts
<1>1. \A q \in Proc \ {p} :
        /\ req'[q] = req[q] /\ phase'[q] = phase[q]
        /\ working'[q] = working[q] /\ call'[q] = call[q]
  BY <1>0, AnswerEffect DEF Reply, LocalTypes
<1>2. UNCHANGED <<table, index>> /\ phase'[p] = "answered"
  BY <1>0, AnswerEffect DEF Reply, LocalTypes
<1>3. CopyOK(p)'
  BY <1>2 DEF CopyOK, Loaded, Saved
<1>4. Alone(p)'
  BY <1>1, SerialAlone DEF Alone
<1>5. EntriesTrue'
  BY <1>2 DEF Reply, SpentInv, EntriesTrue
<1>6. SpentTokensAreGone'
  BY <1>2 DEF Reply, SpentInv, SpentTokensAreGone
<1> QED
  BY <1>1, <1>3, <1>4, <1>5, <1>6, SpentStep

LEMMA ContinueSpent ==
  ASSUME Factory = "uuid", ServiceInv, TokenInv, SpentInv, Serial, Serial',
         NEW p \in Proc, Continue(p)
  PROVE  SpentInv'
<1>1. CASE SavesNew(p)
  <2>1. PICK user \in User : req[p].op = "create" /\ user.token = Empty /\ SaveAs(p, user)
    BY <1>1, RequestFacts, NewRecord DEF SavesNew, Numbering
  <2> QED
    BY <2>1, SaveSpent
<1>2. CASE SavesChange(p)
  <2>1. PICK user \in User :
          /\ Found(p) /\ user.id = call[p].user.id /\ user.token \in {call[p].user.token, Empty}
          /\ req[p].op = "reset_credentials" => user.token = Empty
          /\ SaveAs(p, user)
    BY <1>2 DEF SavesChange
  <2>2. call[p].user = table[user.id]
    BY <2>1 DEF SpentInv, CopyOK, Found
  <2> QED
    BY <2>1, <2>2, SaveSpent
<1>3. CASE SavesToken(p)
  <2>1. PICK user \in User :
          /\ req[p].op = "new_reset_token" /\ Ids!GiveToken(p, user.token) /\ SaveAs(p, user)
    BY <1>3 DEF SavesToken
  <2>2. user.token \notin known
    BY <2>1 DEF Ids!GiveToken, Ids!NewTokens, TokenInv
  <2> QED
    BY <2>1, <2>2, SaveSpent
<1>4. CASE Refuses(p)
  BY <1>4, ReplySpent DEF Refuses, Loaded
<1>5. CASE AnswersFound(p)
  BY <1>5, ReplySpent DEF AnswersFound, Found, Loaded
<1>6. CASE Finish(p)
  <2>1. Saved(p) /\ phase[p] = "save" /\ ReplyNow(p, SaveError(p), working[p], SaveEvents(p))
    BY <1>6 DEF Finish, Saved
  <2>2. working[p] \in User /\ SaveOK(p)
    BY <2>1, RequestFacts DEF SaveOK
  <2>3. ASSUME SaveError(p) = "nil", req[p].op \in {"new_reset_token", "reset_credentials"}
        PROVE  table[working[p].id] = working[p]
    BY <2>1, <2>3 DEF SaveError, SpentInv, CopyOK
  <2>4. ASSUME SaveError(p) = "nil", req[p].op = "new_reset_token"
        PROVE  /\ working[p].token \notin spent
               /\ \A id \in UserID :
                    index["token"][working[p].token] = id => table[id].token = working[p].token
    <3>1. working[p].token \in Token /\ working[p].id \in UserID
      BY <2>2, <2>4 DEF SaveOK, User
    <3>2. owner[working[p].token] = working[p].id
      BY <3>1, NotEmpty DEF TokenInv, Owned
    <3>3. index["token"][working[p].token] \in {Empty, working[p].id}
      BY <3>1, <3>2 DEF TokenInv
    <3>4. working[p].token \notin spent
      BY <2>3, <2>4, <3>1 DEF SpentInv, SpentTokensAreGone
    <3> QED
      BY <2>3, <2>4, <3>3, <3>4, NotEmpty
  <2>5. ASSUME SaveError(p) = "nil", req[p].op = "reset_credentials"
        PROVE  /\ index["token"][req[p].token] = Empty
               /\ \A id \in UserID : table[id].token # req[p].token
    <3>1. req[p].token \in known /\ req[p].token \in Token /\ req[p].token # Empty
      BY <2>1, <2>5, ResetToken, NotEmpty, Parts DEF LocalTypes
    <3>2. working[p].id = owner[req[p].token] /\ working[p].id \in UserID
      BY <2>1, <2>2, <2>5 DEF TokenInv, ResetOK, User
    <3>3. table[working[p].id].token = Empty
      BY <2>1, <2>3, <2>5 DEF SpentInv, CopyOK
    <3>4. index["token"][req[p].token] = Empty
      BY <3>1, <3>2, <3>3 DEF TokenInv, SpentInv
    <3>5. \A id \in UserID : table[id].token # req[p].token
      BY <3>1, <3>2, <3>3, RecordTypes, NoUserOwned DEF TokenInv, Owned
    <3> QED
      BY <3>4, <3>5
  <2> QED
    BY <2>1, <2>4, <2>5, ReplySpent
<1> QED
  BY <1>1, <1>2, <1>3, <1>4, <1>5, <1>6, ContinueCases

(* A find reads the record that is there.                                   *)
LEMMA FindSpent ==
  ASSUME ServiceInv, SpentInv, Serial, NEW p \in Proc, StoreStep(p) \/ StoreFails(p),
         phase[p] = "load"
  PROVE  SpentInv'
<1>. UNCHANGED <<local, tokens>> /\ KVS!TypeInv
  BY StoreEffect, StorageTypes
<1>0. ~KVS!Saving(p) /\ (KVS!Step(p) \/ KVS!Fail(p))
  BY RequestFacts, StoreEffect DEF LoadOK, KVS!Saving, KVS!SavePhase
<1>1. /\ UNCHANGED <<table, index>>
      /\ call'[p].pc = "done" /\ call'[p].err = "nil" =>
           /\ call[p].pc = "fetch" /\ call'[p].user = table[call[p].id]
           /\ call'[p].user # NoUser
  BY <1>0, KVS!FindMoves, StorageAssumptions, SameUser DEF KVS!store
<1>2. call[p].pc = "fetch" => call[p].id \in UserID
  BY DEF KVS!TypeInv, KVS!CallOK, KVS!Fits
<1>3. call'[p].pc = "done" /\ call'[p].err = "nil" =>
        call'[p].user = table'[call'[p].user.id]
  BY <1>1, <1>2, RecordTypes
<1>4. CopyOK(p)'
  BY <1>3 DEF CopyOK, Loaded, Saved, local
<1>5. Alone(p)'
  BY SerialAlone DEF Alone, local
<1>6. EntriesTrue' /\ SpentTokensAreGone'
  BY <1>1 DEF SpentInv, EntriesTrue, SpentTokensAreGone, tokens
<1>7. \A q \in Proc \ {p} :
        /\ req'[q] = req[q] /\ phase'[q] = phase[q]
        /\ working'[q] = working[q] /\ call'[q] = call[q]
  BY StoreEffect DEF local
<1> QED
  BY <1>4, <1>5, <1>6, <1>7, SpentStep

(* A Save takes the stored token's entry out before it enters its own, and  *)
(* writes its record last.                                                  *)
LEMMA WriteSpent ==
  ASSUME ServiceInv, SpentInv, Serial, Serial', NEW p \in Proc, StoreStep(p) \/ StoreFails(p),
         phase[p] = "save"
  PROVE  SpentInv'
<1>. UNCHANGED <<local, tokens>> /\ KVS!TypeInv
  BY StoreEffect, StorageTypes
<1>. DEFINE user == working[p]
            stored == table[user.id]
<1>0. KVS!Saving(p) /\ KVS!Step(p)
  <2>1. SaveOK(p)
    BY RequestFacts
  <2>2. KVS!Step(p) \/ KVS!Fail(p)
    BY StoreEffect
  <2>3. call[p].pc # "done"
    BY <2>2 DEF KVS!Step, KVS!Fail, KVS!CheckTaken, KVS!LookupOld, KVS!RemoveOld, KVS!PutNew,
                KVS!SetUser, KVS!Lookup, KVS!Fetch, KVS!ReadFails, KVS!WriteFails
  <2>4. ~KVS!Fail(p)
    BY DEF Serial, KVS!Fail, KVS!ReadFails, KVS!WriteFails
  <2> QED
    BY <2>1, <2>2, <2>3, <2>4, SameTypes DEF SaveOK
<1>1. user \in User /\ user.id \in UserID /\ call[p].user = user
  BY <1>0, RequestFacts, SameTypes DEF SaveOK, User
<1>2. /\ EntryOK(p) /\ (KVS!Writing(p) => call[p].old = stored)
      /\ user.token \in {Empty, stored.token} \/ user.token \notin known
      /\ req[p].op = "reset_credentials" => user.token = Empty
  BY <1>0, SamePhases DEF SpentInv, CopyOK
<1>3. /\ "token" \in KVS!Kind /\ Token \subseteq KVS!Key /\ known \subseteq Token /\ spent \subseteq known
      /\ user["token"] = user.token /\ call[p].old["token"] = call[p].old.token
      /\ table \in [UserID -> User \cup {NoUser}]
  BY Parts, SameUser DEF KVS!Kind, KVS!Key, LocalTypes, KVS!TypeInv, KVS!TypeOK
<1>4. \A t \in Token :
        \/ index'["token"][t] \in {index["token"][t], Empty}
        \/ index'["token"][t] = user.id /\ t = user.token
  BY <1>0, <1>1, <1>3, KVS!SaveWrites, StorageAssumptions
<1>5. Alone(p)'
  BY SerialAlone DEF Alone, local
<1>6. \A q \in Proc \ {p} :
        /\ req'[q] = req[q] /\ phase'[q] = phase[q]
        /\ working'[q] = working[q] /\ call'[q] = call[q]
  BY StoreEffect DEF local
<1>7. user.token \notin spent /\ \A t \in spent : index'["token"][t] = Empty
  <2>1. user.token \notin spent
    BY <1>1, <1>2, <1>3, NotEmpty DEF SpentInv, SpentTokensAreGone
  <2> QED
    BY <2>1, <1>3, <1>4 DEF SpentInv, SpentTokensAreGone
<1>a. CASE /\ KVS!Saving(p)' /\ call'[p].user = call[p].user /\ UNCHANGED table
           /\ KVS!Writing(p)' => call'[p].old \in {call[p].old, stored}
                                   /\ (call'[p].old = stored \/ KVS!Writing(p))
           /\ KVS!Cleared(p, "token")' =>
                \/ KVS!Cleared(p, "token")
                \/ /\ KVS!Writing(p)
                   /\ \A key \in KVS!Key :
                        index'["token"][key] = Empty
                          \/ (index'["token"][key] = index["token"][key]
                                /\ key # call[p].old["token"])
  <2>1. EntriesTrue'
    BY <1>a, <1>1, <1>2, <1>3, <1>4, NotEmpty DEF SpentInv, EntriesTrue, tokens
  <2>2. SpentTokensAreGone'
    BY <1>a, <1>7 DEF SpentInv, SpentTokensAreGone, tokens
  <2>3. EntryOK(p)'
    <3>. SUFFICES ASSUME KVS!Cleared(p, "token")', NEW t \in known, index'["token"][t] = user.id
                  PROVE  user.token = t
      BY SamePhasesNext DEF EntryOK, local, tokens
    <3>1. CASE KVS!Cleared(p, "token")
      BY <3>1, <1>1, <1>2, <1>3, <1>4, SamePhases, NotEmpty DEF EntryOK
    <3>2. CASE ~KVS!Cleared(p, "token")
      <4>1. KVS!Writing(p) /\ index["token"][t] = user.id /\ t # call[p].old["token"]
        BY <1>a, <3>2, <1>1, <1>3, NotEmpty
      <4>2. stored.token = t
        BY <4>1, <1>1 DEF SpentInv
      <4> QED
        BY <4>1, <4>2, <1>2, <1>3
    <3> QED
      BY <3>1, <3>2
  <2>4. ~Saved(p)' /\ ~Loaded(p)'
    BY <1>a DEF Saved, Loaded, KVS!Saving, KVS!SavePhase
  <2>5. KVS!Writing(p)' => call'[p].old = stored
    BY <1>a, <1>2
  <2>6. CopyOK(p)'
    BY <1>a, <1>2, <2>3, <2>4, <2>5, SamePhasesNext DEF CopyOK, local, tokens
  <2> QED
    BY <1>5, <1>6, <2>1, <2>2, <2>6, SpentStep
<1>b. CASE call'[p].pc = "done" /\ call'[p].err # "nil" /\ UNCHANGED <<table, index>>
  <2>1. EntriesTrue' /\ SpentTokensAreGone'
    BY <1>b DEF SpentInv, EntriesTrue, SpentTokensAreGone, tokens
  <2>2. ~KVS!Saving(p)'
    BY <1>b DEF KVS!Saving, KVS!SavePhase
  <2>3. CopyOK(p)'
    BY <1>b, <1>2, <2>2, SamePhasesNext DEF CopyOK, Loaded, Saved, local
  <2> QED
    BY <1>5, <1>6, <2>1, <2>3, SpentStep
<1>c. CASE /\ call'[p].pc = "done" /\ UNCHANGED index /\ call[p].pc = "set"
           /\ table' = KVS!SetRecord(table, call[p].user.id, call[p].user)
  <2>1. \A id \in UserID : table'[id] = IF id = user.id THEN user ELSE table[id]
    BY <1>c, <1>1, <1>3 DEF KVS!SetRecord
  <2>2. KVS!Cleared(p, "token")
    BY <1>c DEF KVS!Cleared
  <2>3. EntriesTrue'
    BY <1>c, <1>2, <2>1, <2>2, SamePhases DEF SpentInv, EntriesTrue, EntryOK, tokens
  <2>4. SpentTokensAreGone'
    BY <1>c, <1>7, <2>1 DEF SpentInv, SpentTokensAreGone, tokens
  <2>5. ~KVS!Saving(p)'
    BY <1>c DEF KVS!Saving, KVS!SavePhase
  <2>6. CopyOK(p)'
    BY <1>1, <1>2, <2>1, <2>5, SamePhasesNext DEF CopyOK, Loaded, Saved, local
  <2> QED
    BY <1>5, <1>6, <2>3, <2>4, <2>6, SpentStep
<1>d. call[p].old \in User \cup {NoUser}
  BY RecordTypes
<1> QED
  BY <1>0, <1>1, <1>3, <1>a, <1>b, <1>c, KVS!SavePhases, StorageAssumptions, StoredAsIs, SMTT(30)

LEMMA ArriveSpent ==
  ASSUME ServiceInv, SpentInv, Serial', NEW p \in Proc, NEW r \in Request,
         RefuseArguments(p, r) \/ BeginCreate(p, r) \/ Load(p, r)
  PROVE  SpentInv'
<1>0. LocalTypes
  BY Parts
<1>1. /\ UNCHANGED <<table, index, tokens>> /\ phase'[p] # "save"
      /\ phase'[p] = "load" => call'[p].pc # "done"
  BY <1>0, LoadEffect DEF RefuseArguments, BeginCreate, Load, Begin, LocalTypes, storage
<1>2. \A q \in Proc \ {p} :
        /\ req'[q] = req[q] /\ phase'[q] = phase[q]
        /\ working'[q] = working[q] /\ call'[q] = call[q]
  BY <1>0, LoadEffect DEF RefuseArguments, BeginCreate, Load, Begin, LocalTypes, storage
<1>3. CopyOK(p)' /\ EntriesTrue' /\ SpentTokensAreGone'
  BY <1>1 DEF CopyOK, Loaded, Saved, SpentInv, EntriesTrue, SpentTokensAreGone, tokens
<1>4. ASSUME NEW q \in Proc \ {p} PROVE CopyOK(q)'
  BY <1>1, <1>2, <1>4, SamePhases, SamePhasesNext
     DEF SpentInv, CopyOK, EntryOK, Loaded, Saved, tokens, KVS!Writing, KVS!Saving, KVS!Cleared
<1>5. \A q \in Proc : CopyOK(q)'
  BY <1>3, <1>4
<1> QED
  BY <1>3, <1>5 DEF SpentInv, EntriesTrue

LEMMA RestSpent ==
  ASSUME ServiceInv, SpentInv, Tick \/ UNCHANGED vars \/ (\E p \in Proc : CountStep(p))
  PROVE  SpentInv'
<1>1. SpentTokensAreGone' /\ EntriesTrue'
  BY RestEffect DEF SpentInv, SpentTokensAreGone, EntriesTrue
<1>2. ASSUME NEW p \in Proc PROVE CopyOK(p)'
  <2>1. phase[p] # "save" \/ working'[p] = working[p]
    BY RestEffect DEF Noted, Tokening, Loaded
  <2> QED
    BY <2>1, RestEffect, SamePhases, SamePhasesNext
       DEF SpentInv, CopyOK, EntryOK, Loaded, Saved, KVS!Writing, KVS!Saving, KVS!Cleared
<1> QED
  BY <1>1, <1>2 DEF SpentInv, EntriesTrue

(* A crash: a memory store has no token left, a persistent one the entries  *)
(* and records that it had.                                                 *)
LEMMA CrashSpent ==
  ASSUME ServiceInv, SpentInv, Crash
  PROVE  SpentInv'
<1>1. UNCHANGED <<known, spent>> /\ KVS!Crash /\ \A p \in Proc : phase'[p] = "idle"
  BY SameCrash DEF Crash, tokens
<1>2. \A p \in Proc : CopyOK(p)'
  BY <1>1 DEF CopyOK, Loaded, Saved
<1>3. known \subseteq Token /\ spent \subseteq known
  BY Parts DEF LocalTypes
<1>4. \/ UNCHANGED <<table, index>>
      \/ /\ \A t \in Token : index'["token"][t] = Empty
         /\ \A id \in UserID : table'[id].token = Empty
  BY <1>1, SameUser, NoUserOwned
     DEF KVS!Crash, KVS!store, KVS!EmptyTable, KVS!Kind, KVS!Key
<1>5. EntriesTrue' /\ SpentTokensAreGone'
  BY <1>1, <1>3, <1>4, NotEmpty DEF SpentInv, EntriesTrue, SpentTokensAreGone
<1> QED
  BY <1>2, <1>5 DEF SpentInv, EntriesTrue

LEMMA SpentInit == Init => SpentInv
<1>. SUFFICES ASSUME Init PROVE SpentInv
  OBVIOUS
<1>1. KVS!Init /\ ServiceInv
  BY SameInit, ServiceInit DEF Init
<1>2. /\ \A p \in Proc : phase[p] = "idle"
      /\ spent = {} /\ known \subseteq Token
      /\ \A t \in Token : index["token"][t] = KVS!OwnerOf(table, "token", t)
  BY <1>1 DEF Init, KVS!Init, KVS!Kind, KVS!Key
<1>3. ASSUME NEW t \in Token, NEW id \in UserID, index["token"][t] = id
      PROVE  table[id].token = t
  <2>1. KVS!OwnerOf(table, "token", t) = id /\ id # Empty
    BY <1>2, <1>3, NotEmpty
  <2>2. table[id]["token"] = t
    BY <2>1 DEF KVS!OwnerOf
  <2> QED
    BY <2>2
<1> QED
  BY <1>2, <1>3 DEF SpentInv, SpentTokensAreGone, CopyOK, Loaded, Saved

LEMMA SpentNext ==
  ASSUME Factory = "uuid"
  PROVE  ServiceInv /\ TokenInv /\ SpentInv /\ Serial /\ Serial' /\ [Next]_vars => SpentInv'
<1>. SUFFICES ASSUME ServiceInv, TokenInv, SpentInv, Serial, Serial', [Next]_vars
              PROVE  SpentInv'
  OBVIOUS
<1>1. ASSUME NEW p \in Proc, Arrive(p) PROVE SpentInv'
  BY <1>1, ArriveSpent DEF Arrive
<1>2. ASSUME NEW p \in Proc, Continue(p) PROVE SpentInv'
  BY <1>2, ContinueSpent
<1>3. ASSUME NEW p \in Proc, StoreStep(p) \/ StoreFails(p) PROVE SpentInv'
  BY <1>3, StoreEffect, FindSpent, WriteSpent
<1> QED
  BY <1>1, <1>2, <1>3, RestSpent, CrashSpent DEF Next

(* SpentTokensAreGone in every state, while requests use the storage one     *)
(* after the other and no driver call fails: after the Save of              *)
(* ResetUserCredentials answered, no lookup finds a user by the token it     *)
(* used, however often the process dies and whatever a Save that died left   *)
(* behind.  (A factory that repeats a token gives out a spent one again.)    *)
THEOREM SpentTokensGone ==
  ASSUME Factory = "uuid"
  PROVE  Spec /\ []Serial => []SpentTokensAreGone
<1>. DEFINE Inv == ServiceInv /\ TokenInv /\ SpentInv
<1>1. Init => Inv
  BY ServiceInit, TokenInit, SpentInit
<1>2. Inv /\ Serial /\ Serial' /\ [Next]_vars => Inv'
  BY ServiceNext, TokenNext, SpentNext
<1>3. Inv => SpentTokensAreGone
  BY DEF SpentInv
<1>. HIDE DEF Inv
<1> QED
  BY <1>1, <1>2, <1>3, PTL DEF Spec
-----------------------------------------------------------------------------
(* UserDirectory speaks of accounts as UserAccounts does, and of conflicts   *)
(* of keys as UserStore does.                                               *)
LEMMA SameAccounts ==
  /\ Directory!NoUser = NoUser /\ Directory!NoAnswer = NoAnswer
  /\ Directory!NoRequest = NoRequest /\ Directory!ReadModifyWrite = ReadModifyWrite
  /\ \A r : Directory!Complete(r) <=> Complete(r)
  /\ \A op : Directory!LookupKind(op) = LookupKind(op)
  /\ \A r : Directory!LookupKey(r) = LookupKey(r)
  /\ \A user, r : Directory!WrongEmail(user, r) <=> WrongEmail(user, r)
  /\ \A user, r : Directory!Modified(user, r) = Modified(user, r)
  /\ \A user, r : Directory!AuthenticateError(user, r) = AuthenticateError(user, r)
  /\ \A user, r : Directory!Reset(user, r) = Reset(user, r)
  /\ \A user, token, time : Directory!WithToken(user, token, time) = WithToken(user, token, time)
  /\ \A user, time : Directory!Expired(user, time) <=> Expired(user, time)
  /\ \A id, r : Directory!NewUser(id, r) = NewUser(id, r)
  /\ \A r, err, user : Directory!AnswerTo(r, err, user) = AnswerTo(r, err, user)
  /\ \A err, value : Directory!Answer(err, value) = Answer(err, value)
  /\ \A op, user : Directory!Event(op, user) = Event(op, user)
  /\ \A user : Directory!Conflicts(user) = KVS!Store!Conflicts(user)
<1>1. \A op : Directory!LookupKind(op) = LookupKind(op)
  BY DEF Directory!LookupKind, LookupKind
<1>2. \A r : Directory!LookupKey(r) = LookupKey(r)
  BY <1>1 DEF Directory!LookupKey, LookupKey
<1>3. \A r : Directory!Complete(r) <=> Complete(r)
  BY DEF Directory!Complete, Complete, Directory!Required, Required
<1>4. \A user, r : Directory!Modified(user, r) = Modified(user, r)
  BY DEF Directory!Modified, Modified, Directory!WithCredentials, WithCredentials,
         Directory!Hash, Hash
<1>5. \A user, r : Directory!Reset(user, r) = Reset(user, r)
  BY DEF Directory!Reset, Reset, Directory!WithCredentials, WithCredentials,
         Directory!Hash, Hash
<1>6. \A user, r : Directory!AuthenticateError(user, r) = AuthenticateError(user, r)
  BY DEF Directory!AuthenticateError, AuthenticateError, Directory!Verify, Verify
<1>7. \A id, r : Directory!NewUser(id, r) = NewUser(id, r)
  BY DEF Directory!NewUser, NewUser, Directory!Hash, Hash
<1>8. \A r, err, user : Directory!AnswerTo(r, err, user) = AnswerTo(r, err, user)
  BY DEF Directory!AnswerTo, AnswerTo, Directory!Answer, Answer, Directory!Value, Value
<1>9. \A op, user : Directory!Event(op, user) = Event(op, user)
  BY DEF Directory!Event, Event
<1>10. \A user : Directory!Conflicts(user) = KVS!Store!Conflicts(user)
  BY DEF Directory!Conflicts, KVS!Store!Conflicts, KVS!Store!Kind
<1>11. \A user, r : Directory!WrongEmail(user, r) <=> WrongEmail(user, r)
  BY DEF Directory!WrongEmail, WrongEmail
<1>12. \A user, token, time :
         Directory!WithToken(user, token, time) = WithToken(user, token, time)
  BY DEF Directory!WithToken, WithToken
<1>13. \A user, time : Directory!Expired(user, time) <=> Expired(user, time)
  BY DEF Directory!Expired, Expired
<1>14. /\ Directory!NoUser = NoUser /\ Directory!NoAnswer = NoAnswer
       /\ Directory!NoRequest = NoRequest /\ Directory!ReadModifyWrite = ReadModifyWrite
       /\ \A err, value : Directory!Answer(err, value) = Answer(err, value)
  BY DEF Directory!NoUser, NoUser, Directory!NoAnswer, NoAnswer, Directory!NoRequest,
         NoRequest, Directory!ReadModifyWrite, ReadModifyWrite, Directory!Answer, Answer
<1> QED
  BY <1>1, <1>2, <1>3, <1>4, <1>5, <1>6, <1>7, <1>8, <1>9, <1>10, <1>11, <1>12, <1>13, <1>14

(* Requests that do not overlap are calls of the storage that do not.       *)
LEMMA SequentialCalm == ServiceInv /\ Sequential => KVS!Calm
<1>. SUFFICES ASSUME ServiceInv, Sequential PROVE KVS!Calm
  OBVIOUS
<1>1. ASSUME NEW p \in Proc, ~KVS!Ready(p) PROVE phase[p] \in {"load", "save"}
  BY <1>1, Parts DEF KVS!Ready, InCall
<1>2. KVS!Faithful
  BY RecordTypes, StoredAsIs DEF KVS!Faithful
<1> QED
  BY <1>1, <1>2 DEF Sequential, Serial, KVS!Calm

LEMMA SequentialCalmNext == ServiceInv' /\ Sequential' => KVS!Calm'
BY SequentialCalm, PTL

(* A step of p, and what the others do meanwhile.                           *)
OthersSame(p) ==
  \A q \in Proc \ {p} :
    /\ req'[q] = req[q] /\ phase'[q] = phase[q] /\ working'[q] = working[q]
    /\ answer'[q] = answer[q] /\ since'[q] = since[q] /\ call'[q] = call[q]

(* Which events are announced, when only p can be at the end of its Save.   *)
AnnouncedBy ==
  \A p \in Proc :
    (\A q \in Proc \ {p} : ~Saved(q)) =>
      Announced = IF Saved(p) THEN events \o SaveEvents(p) ELSE events

LEMMA AnnouncedByOne == AnnouncedBy
<1>. SUFFICES ASSUME NEW p \in Proc, \A q \in Proc \ {p} : ~Saved(q)
              PROVE  Announced = IF Saved(p) THEN events \o SaveEvents(p) ELSE events
  BY DEF AnnouncedBy
<1>1. CASE Saved(p)
  <2>1. (CHOOSE q \in Proc : Saved(q)) = p
    BY <1>1
  <2> QED
    BY <1>1, <2>1 DEF Announced
<1>2. CASE ~Saved(p)
  BY <1>2 DEF Announced
<1> QED
  BY <1>1, <1>2

LEMMA AnnouncedByOneNext == AnnouncedBy'
BY AnnouncedByOne, PTL

LEMMA AnnouncedAlone ==
  ASSUME NEW p \in Proc, Alone(p)
  PROVE  Announced = IF Saved(p) THEN events \o SaveEvents(p) ELSE events
BY AnnouncedByOne DEF AnnouncedBy, Alone, Saved

LEMMA AnnouncedAloneNext ==
  ASSUME NEW p \in Proc, Alone(p)'
  PROVE  Announced' = IF Saved(p)' THEN events' \o SaveEvents(p)' ELSE events'
BY AnnouncedByOneNext DEF AnnouncedBy, Alone, Saved

(* What the directory sees of a step of p: nothing, or an answer.           *)
LEMMA OthersAnswered ==
  ASSUME NEW p \in Proc, OthersSame(p), NEW q \in Proc \ {p}
  PROVE  Decided(q)' = Decided(q) /\ (Saved(q)' <=> Saved(q)) /\ SaveEvents(q)' = SaveEvents(q)
BY DEF OthersSame, Decided, Saved, SaveError, SaveEvents

LEMMA SilentView ==
  ASSUME NEW p \in Proc, OthersSame(p), UNCHANGED <<table, now>>,
         UNCHANGED <<req, since>>, Decided(p)' = Decided(p), Announced' = Announced
  PROVE  UNCHANGED Directory!vars
<1>1. \A q \in Proc : Decided(q)' = Decided(q)
  BY OthersAnswered
<1> QED
  BY <1>1 DEF Directory!vars

LEMMA ReplyView ==
  ASSUME NEW p \in Proc, OthersSame(p), UNCHANGED <<req, since, now>>, NEW err, NEW user,
         NEW logged, Decided(p)' = AnswerTo(req[p], err, user), Announced' = Announced \o logged
  PROVE  Directory!Reply(p, err, user, logged)
<1>1. \A q \in Proc \ {p} : Decided(q)' = Decided(q)
  BY OthersAnswered
<1> QED
  BY <1>1, SameAccounts DEF Directory!Reply

(* A request stands as it did when neither it nor the table moves.          *)
LEMMA StandingKeeps ==
  ASSUME ServiceInv, NEW q \in Proc, StandingOK(q), UNCHANGED table, ids \subseteq ids',
         now' \in Nat, now <= now',
         /\ req'[q] = req[q] /\ phase'[q] = phase[q] /\ working'[q] = working[q]
         /\ answer'[q] = answer[q] /\ since'[q] = since[q] /\ call'[q] = call[q]
  PROVE  StandingOK(q)'
<1>1. now \in Nat /\ since[q] \in Nat
  BY Parts DEF LocalTypes, Time
<1>2. since'[q] <= now'
  BY <1>1 DEF StandingOK
<1>3. FindOK(q) => FindOK(q)'
  BY DEF FindOK
<1>4. \A user : Changes(q, user) => Changes(q, user)'
  <2>. SUFFICES ASSUME NEW user, Changes(q, user) PROVE Changes(q, user)'
    OBVIOUS
  <2>1. \A time \in since[q]..now : time \in since'[q]..now'
    BY <1>1
  <2> QED
    BY <2>1 DEF Changes
<1>5. PlanOK(q) => PlanOK(q)'
  BY <1>4 DEF PlanOK
<1>6. Store!Saving(q)' <=> Store!Saving(q)
  BY DEF Store!Saving
<1> QED
  BY <1>2, <1>3, <1>5, <1>6 DEF StandingOK

(* A step of p, when it is alone or leaves the table as it is.              *)
LEMMA DirectoryStep ==
  ASSUME ServiceInv, DirectoryInv, NEW p \in Proc, OthersSame(p), now' = now, ids \subseteq ids',
         Alone(p)' \/ UNCHANGED table, RecordsOK', StandingOK(p)'
  PROVE  DirectoryInv'
<1>1. now \in Nat /\ \A q \in Proc : since[q] \in Nat
  BY Parts DEF LocalTypes, Time
<1>2. ASSUME NEW q \in Proc \ {p} PROVE StandingOK(q)'
  <2>1. CASE UNCHANGED table
    BY <1>1, <2>1, StandingKeeps DEF DirectoryInv, OthersSame
  <2>2. CASE Alone(p)'
    BY <2>2 DEF DirectoryInv, OthersSame, StandingOK, Alone
  <2> QED
    BY <2>1, <2>2
<1> QED
  BY <1>2 DEF DirectoryInv

(* Events are announced as before when p is at the end of no Save.          *)
LEMMA SameAnnounced ==
  ASSUME Serial, NEW p \in Proc, OthersSame(p), ~Saved(p), ~Saved(p)', UNCHANGED events
  PROVE  Announced' = Announced
<1>1. CASE \E q \in Proc : Saved(q)
  <2>1. PICK q \in Proc : Saved(q)
    BY <1>1
  <2>2. q # p /\ \A o \in Proc \ {q} : ~Saved(o)
    BY <2>1 DEF Serial, Saved
  <2>3. Saved(q)' /\ SaveEvents(q)' = SaveEvents(q) /\ \A o \in Proc \ {q} : ~Saved(o)'
    BY <2>1, <2>2, OthersAnswered
  <2>4. Announced = events \o SaveEvents(q)
    BY <2>1, <2>2, AnnouncedByOne DEF AnnouncedBy
  <2>5. Announced' = events' \o SaveEvents(q)'
    BY <2>3, AnnouncedByOneNext DEF AnnouncedBy
  <2> QED
    BY <2>3, <2>4, <2>5
<1>2. CASE \A q \in Proc : ~Saved(q)
  <2>1. \A q \in Proc : ~Saved(q)'
    BY <1>2, OthersAnswered
  <2> QED
    BY <1>2, <2>1 DEF Announced
<1> QED
  BY <1>1, <1>2

DirectoryGoesOn == DirectoryInv' /\ (Directory!Next \/ UNCHANGED Directory!vars)

(* A request that arrives.                                                  *)
LEMMA ArriveGoesOn ==
  ASSUME ServiceInv, DirectoryInv, Serial, NEW p \in Proc, NEW r \in Request,
         RefuseArguments(p, r) \/ BeginCreate(p, r) \/ Load(p, r)
  PROVE  DirectoryGoesOn
<1>0. LocalTypes /\ StandingOK(p)
  BY Parts DEF DirectoryInv
<1>1. /\ phase[p] \in {"idle", "answered"} /\ req' = [req EXCEPT ![p] = r]
      /\ since' = [since EXCEPT ![p] = now] /\ UNCHANGED <<events, now, ids>>
  BY DEF RefuseArguments, BeginCreate, Load, Begin, Idle, factory
<1>2. UNCHANGED table /\ OthersSame(p)
  BY <1>0, LoadEffect
     DEF RefuseArguments, BeginCreate, Load, Begin, LocalTypes, storage, OthersSame
<1>3. /\ req'[p] = r /\ since'[p] = now
      /\ \/ ~Complete(r) /\ phase'[p] = "answered" /\ answer'[p] = Answer("InvalidArguments", Empty)
         \/ Complete(r) /\ BeginCreate(p, r) /\ phase'[p] = "number" /\ answer'[p] = NoAnswer
         \/ Complete(r) /\ Load(p, r) /\ phase'[p] = "load" /\ answer'[p] = NoAnswer
  BY <1>0, <1>1 DEF RefuseArguments, BeginCreate, Load, Begin, LocalTypes
<1>4. StandingOK(p)'
  <2>1. ASSUME Load(p, r) PROVE FindOK(p)'
    <3>1. /\ call'[p].pc # "done" /\ call'[p].kind = LookupKind(r.op)
          /\ call'[p].key = LookupKey(r)
      <4>1. CASE LookupKind(r.op) # "id"
        BY <2>1, <4>1, LoadEffect
      <4>2. CASE LookupKind(r.op) = "id"
        <5>1. KVS!Get(p, r.id)
          BY <2>1, <4>2, SameFinds DEF Load
        <5>2. call \in [Proc -> KVS!Call]
          BY StorageTypes DEF KVS!TypeInv, KVS!TypeOK
        <5>3. call'[p].pc = "fetch" /\ call'[p].kind = "id" /\ call'[p].key = r.id
          BY <5>1, <5>2 DEF KVS!Get, KVS!Idle
        <5>4. LookupKey(r) = r.id
          BY <4>2 DEF LookupKey
        <5> QED
          BY <4>2, <5>3, <5>4
      <4> QED
        BY <4>1, <4>2
    <3> QED
      BY <1>3, <3>1 DEF FindOK
  <2>2. Answer("InvalidArguments", Empty).err # "none"
    BY DEF Answer
  <2>3. since'[p] <= now'
    BY <1>0, <1>1, <1>3 DEF LocalTypes, Time
  <2> QED
    BY <1>3, <2>1, <2>2, <2>3 DEF StandingOK
<1>5. DirectoryInv'
  BY <1>1, <1>2, <1>4, DirectoryStep DEF DirectoryInv, RecordsOK
<1>6. ~Saved(p) /\ ~Saved(p)' /\ Decided(p) = answer[p] /\ Decided(p)' = answer'[p]
  BY <1>1, <1>3 DEF Saved, Decided
<1>7. Announced' = Announced
  BY <1>1, <1>2, <1>6, SameAnnounced
<1>8. Directory!Ask(p)
  <2>1. ~Directory!Pending(p)
    BY <1>0, <1>1, <1>6, SameAccounts DEF Directory!Pending, StandingOK, NoAnswer, Answer
  <2>2. Decided(p)' = IF Complete(r) THEN NoAnswer ELSE Answer("InvalidArguments", Empty)
    BY <1>3, <1>6
  <2>3. \A q \in Proc \ {p} : Decided(q)' = Decided(q)
    BY <1>2, OthersAnswered
  <2> QED
    BY <1>1, <1>2, <1>7, <2>1, <2>2, <2>3, SameAccounts DEF Directory!Ask
<1> QED
  BY <1>5, <1>8 DEF Directory!Next, DirectoryGoesOn

(* A Save begins: nothing is to be seen of it.                              *)
LEMMA SaveGoesOn ==
  ASSUME ServiceInv, DirectoryInv, Serial, Serial', NEW p \in Proc, NEW user \in User,
         SaveAs(p, user), phase[p] # "save", phase[p] # "answered", ids \subseteq ids',
         user.id \in ids',
         working'[p] = user => PlanOK(p)'
  PROVE  DirectoryGoesOn
<1>. phase' = [phase EXCEPT ![p] = "save"] /\ working' = [working EXCEPT ![p] = user]
     /\ UNCHANGED <<req, answer, since, events, now>>
  BY DEF SaveAs
<1>0. LocalTypes /\ StandingOK(p)
  BY Parts DEF DirectoryInv
<1>1. phase'[p] = "save" /\ working'[p] = user /\ UNCHANGED table /\ call'[p].pc = "check"
  BY <1>0, SaveEffect DEF LocalTypes
<1>2. OthersSame(p)
  BY <1>0, SaveEffect DEF LocalTypes, OthersSame
<1>3. StandingOK(p)'
  BY <1>0, <1>1 DEF StandingOK
<1>4. DirectoryInv'
  BY <1>1, <1>2, <1>3, DirectoryStep DEF DirectoryInv, RecordsOK
<1>5. ~Saved(p) /\ ~Saved(p)'
  BY <1>1 DEF Saved
<1>6. Announced' = Announced /\ Decided(p)' = Decided(p)
  BY <1>2, <1>5, SameAnnounced DEF Decided
<1> QED
  BY <1>1, <1>2, <1>4, <1>6, SilentView DEF DirectoryGoesOn
-----------------------------------------------------------------------------
(* A find that found a user has that of the directory.                      *)
LEMMA FoundMatches ==
  ASSUME ServiceInv, DirectoryInv, NEW p \in Proc, Found(p)
  PROVE  LET user == call[p].user
         IN  /\ user \in User /\ user.id \in UserID /\ user = table[user.id]
             /\ user[LookupKind(req[p].op)] = LookupKey(req[p])
             /\ user \in Directory!Matching(p) /\ Dated(user) /\ user.id \in ids
<1>. DEFINE user == call[p].user
<1>1. user \in User /\ user.id \in UserID /\ user # NoUser
  BY FoundUser, NotEmpty DEF User, NoUser
<1>2. FindOK(p) /\ call[p].pc = "done" /\ call[p].err = "nil"
  BY DEF DirectoryInv, StandingOK, Found, Loaded
<1>3. user = table[user.id] /\ user[LookupKind(req[p].op)] = LookupKey(req[p])
  BY <1>2 DEF FindOK
<1>4. Dated(user) /\ user.id \in ids
  BY <1>1, <1>3 DEF DirectoryInv, RecordsOK
<1>5. user \in Directory!Matching(p)
  BY <1>1, <1>3, SameAccounts DEF Directory!Matching
<1> QED
  BY <1>1, <1>3, <1>4, <1>5

(* An answer without a Save is that of the directory at this moment.        *)
LEMMA ReplyGoesOn ==
  ASSUME ServiceInv, DirectoryInv, Serial, NEW p \in Proc, NEW err, NEW user, NEW logged,
         Loaded(p), err # "none", ReplyNow(p, err, user, logged)
  PROVE  /\ DirectoryInv' /\ UNCHANGED table
         /\ Directory!Pending(p) /\ Directory!Reply(p, err, user, logged)
<1>. Reply(p, err, user, logged) /\ Store!TakeAnswer(p) /\ UNCHANGED <<factory, now>>
  BY DEF ReplyNow
<1>0. LocalTypes /\ StandingOK(p) /\ phase[p] = "load"
  BY Parts DEF DirectoryInv, Loaded
<1>1. /\ phase'[p] = "answered" /\ answer'[p] = AnswerTo(req[p], err, user)
      /\ events' = events \o logged /\ UNCHANGED <<req, since, table, ids>>
  BY <1>0, AnswerEffect DEF Reply, LocalTypes, factory
<1>2. OthersSame(p)
  BY <1>0, AnswerEffect DEF Reply, LocalTypes, OthersSame
<1>3. StandingOK(p)'
  <2>1. answer'[p].err # "none"
    BY <1>1 DEF AnswerTo, Answer
  <2> QED
    BY <1>0, <1>1, <2>1 DEF StandingOK
<1>4. DirectoryInv'
  BY <1>1, <1>2, <1>3, DirectoryStep DEF DirectoryInv, RecordsOK
<1>5. Alone(p) /\ Alone(p)' /\ ~Saved(p) /\ ~Saved(p)'
  BY <1>0, <1>1, <1>2, SerialAlone DEF Alone, OthersSame, Saved
<1>6. Announced' = Announced \o logged
  BY <1>1, <1>5, AnnouncedAlone, AnnouncedAloneNext
<1>7. Decided(p) = NoAnswer /\ Decided(p)' = AnswerTo(req[p], err, user)
  BY <1>0, <1>1, <1>5 DEF Decided, StandingOK
<1>8. Directory!Pending(p)
  <2>1. req[p] # NoRequest
    BY <1>0, RequestFacts, RequestTypes DEF Op, NoRequest
  <2> QED
    BY <1>7, <2>1, SameAccounts DEF Directory!Pending
<1>9. Directory!Reply(p, err, user, logged)
  BY <1>1, <1>2, <1>6, <1>7, ReplyView
<1> QED
  BY <1>1, <1>4, <1>8, <1>9

LEMMA Performed ==
  ASSUME NEW p \in Proc, DirectoryInv', Directory!Pending(p),
         \/ Directory!Create(p) \/ Directory!NotFound(p) \/ Directory!Get(p) \/ Directory!Modify(p)
         \/ Directory!Authenticate(p) \/ Directory!NewToken(p) \/ Directory!ResetCredentials(p)
  PROVE  DirectoryGoesOn
BY DEF Directory!Perform, Directory!Next, DirectoryGoesOn

LEMMA CreateGoesOn ==
  ASSUME Factory = "uuid", ServiceInv, DirectoryInv, Serial, Serial', NEW p \in Proc, CreateUser(p)
  PROVE  DirectoryGoesOn
<1>1. PICK id \in UserID : /\ Numbering(p) /\ Ids!GiveUserID(p, id)
                           /\ SaveAs(p, NewUser(id, req[p]))
  BY DEF CreateUser
<1>. DEFINE user == NewUser(id, req[p])
<1>2. req[p].op = "create" /\ user \in User /\ user.id = id
  BY <1>1, RequestFacts, NewRecord DEF Numbering
<1>3. id \notin ids /\ ids' = ids \cup {id}
  BY <1>1 DEF Ids!GiveUserID, Ids!NewUserIDs
<1>4. table[id] = NoUser /\ UNCHANGED <<table, req>>
  BY <1>1, <1>2, <1>3, SaveEffect DEF DirectoryInv, RecordsOK, SaveAs
<1>5. working'[p] = user => PlanOK(p)'
  BY <1>2, <1>4 DEF PlanOK
<1> QED
  BY <1>1, <1>2, <1>3, <1>5, SaveGoesOn DEF Numbering

LEMMA LoadFailedGoesOn ==
  ASSUME ServiceInv, DirectoryInv, Serial, NEW p \in Proc, LoadFailed(p)
  PROVE  DirectoryGoesOn
<1>1. Loaded(p) /\ FindOK(p) /\ call[p].err # "nil"
  BY DEF LoadFailed, DirectoryInv, StandingOK, Loaded
<1>2. /\ call[p].err = "UserNotFound"
      /\ \A id \in UserID : table[id] # NoUser => table[id][LookupKind(req[p].op)] # LookupKey(req[p])
  BY <1>1 DEF FindOK, Loaded
<1>. DEFINE err == IF req[p].op = "reset_credentials" THEN "InvalidArguments" ELSE "UserNotFound"
<1>3. ReplyNow(p, err, NoUser, <<>>) /\ err # "none"
  BY <1>2 DEF LoadFailed
<1>4. req[p].op # "create"
  BY <1>1, RequestFacts DEF Loaded, LoadOK
<1>5. Directory!Matching(p) = {}
  BY <1>2, SameAccounts DEF Directory!Matching
<1>6. /\ DirectoryInv' /\ UNCHANGED table
      /\ Directory!Pending(p) /\ Directory!Reply(p, err, NoUser, <<>>)
  BY <1>1, <1>3, ReplyGoesOn
<1>7. Directory!NotFound(p)
  BY <1>4, <1>5, <1>6, SameAccounts DEF Directory!NotFound, Directory!Refuse
<1> QED
  BY <1>6, <1>7, Performed

LEMMA GetGoesOn ==
  ASSUME ServiceInv, DirectoryInv, Serial, NEW p \in Proc, GetUser(p)
  PROVE  DirectoryGoesOn
<1>1. /\ Loaded(p) /\ Found(p) /\ req[p].op = "get"
      /\ ReplyNow(p, "nil", call[p].user, <<>>)
  BY DEF GetUser, Found
<1>2. /\ DirectoryInv' /\ UNCHANGED table
      /\ Directory!Pending(p) /\ Directory!Reply(p, "nil", call[p].user, <<>>)
  BY <1>1, ReplyGoesOn
<1>3. Directory!Get(p)
  BY <1>1, <1>2, FoundMatches DEF Directory!Get
<1> QED
  BY <1>2, <1>3, Performed

LEMMA ModifyGoesOn ==
  ASSUME ServiceInv, DirectoryInv, Serial, Serial', NEW p \in Proc, ModifyWrite(p)
  PROVE  DirectoryGoesOn
<1>. DEFINE user == call[p].user
<1>1. Loaded(p) /\ Found(p) /\ req[p].op \in ReadModifyWrite /\ phase[p] = "load"
  BY DEF ModifyWrite, Found, Loaded
<1>2. /\ user \in User /\ user.id \in UserID /\ user = table[user.id]
      /\ user[LookupKind(req[p].op)] = LookupKey(req[p])
      /\ user \in Directory!Matching(p) /\ user.id \in ids
  BY <1>1, FoundMatches
<1>3. CASE WrongEmail(user, req[p])
  <2>1. ReplyNow(p, "InvalidVerificationEmail", NoUser, <<>>)
    BY <1>3 DEF ModifyWrite
  <2>2. /\ DirectoryInv' /\ UNCHANGED table /\ Directory!Pending(p)
        /\ Directory!Reply(p, "InvalidVerificationEmail", NoUser, <<>>)
    BY <1>1, <2>1, ReplyGoesOn
  <2>3. Directory!Modify(p)
    BY <1>1, <1>2, <1>3, <2>2, SameAccounts DEF Directory!Modify, Directory!Refuse
  <2> QED
    BY <2>2, <2>3, Performed
<1>4. CASE ~WrongEmail(user, req[p])
  <2>. DEFINE new == Modified(user, req[p])
  <2>1. SaveAs(p, new) /\ UNCHANGED ids
    BY <1>4 DEF ModifyWrite, factory
  <2>2. new \in User /\ new.id = user.id
    BY <1>1, FoundUser, Updates
  <2>3. UNCHANGED <<table, req, since, now>>
    BY <2>1, <2>2, SaveEffect DEF SaveAs
  <2>4. working'[p] = new => PlanOK(p)'
    BY <1>1, <1>2, <1>4, <2>2, <2>3 DEF PlanOK, Changes
  <2> QED
    BY <1>1, <1>2, <2>1, <2>2, <2>4, SaveGoesOn
<1> QED
  BY <1>3, <1>4

LEMMA TokenGoesOn ==
  ASSUME Factory = "uuid", ServiceInv, TokenInv, DirectoryInv, Serial, Serial', NEW p \in Proc,
         NewResetToken(p)
  PROVE  DirectoryGoesOn
<1>. DEFINE user == call[p].user
<1>1. Found(p) /\ req[p].op = "new_reset_token" /\ phase[p] = "load"
  BY DEF NewResetToken, Tokening, Found, Loaded
<1>2. /\ user \in User /\ user.id \in UserID /\ user = table[user.id]
      /\ user[LookupKind(req[p].op)] = LookupKey(req[p]) /\ user.id \in ids
  BY <1>1, FoundMatches
<1>3. PICK token \in Token :
        Ids!GiveToken(p, token) /\ SaveAs(p, WithToken(user, token, IssueTime(p)))
  BY DEF NewResetToken
<1>. DEFINE new == WithToken(user, token, IssueTime(p))
<1>4. IssueTime(p) \in Time /\ IssueTime(p) \in since[p]..now
  BY <1>3, TimeIssued DEF NewResetToken
<1>5. new \in User /\ new.id = user.id /\ new.token = token
  BY <1>1, <1>4, FoundUser, Updates
<1>6. token \notin GivenTokens /\ UNCHANGED ids
  BY <1>3 DEF Ids!GiveToken, Ids!NewTokens
<1>7. \A id \in UserID : table[id].token # token
  <2>. SUFFICES ASSUME NEW id \in UserID, table[id].token = token PROVE FALSE
    OBVIOUS
  <2>1. token # Empty /\ table[id].id \in UserID
    BY NotEmpty, RecordTypes, NoUserOwned DEF User
  <2>2. owner[token] = table[id].id
    BY <2>1 DEF TokenInv, Owned
  <2> QED
    BY <1>6, <2>1, <2>2, NotEmpty DEF GivenTokens
<1>8. UNCHANGED <<table, req, since, now>>
  BY <1>3, <1>5, SaveEffect DEF SaveAs
<1>9. working'[p] = new => PlanOK(p)'
  <2>. SUFFICES ASSUME working'[p] = new PROVE PlanOK(p)'
    OBVIOUS
  <2>1. IssueTime(p) \in since'[p]..now'
    BY <1>4, <1>8
  <2>2. table'[working'[p].id] = user /\ working'[p].token = token
    BY <1>2, <1>5, <1>8
  <2>3. \E time \in since'[p]..now' : working'[p] = WithToken(user, working'[p].token, time)
    BY <1>8, <2>1, <2>2
  <2> QED
    BY <1>1, <1>2, <1>7, <1>8, <2>2, <2>3 DEF PlanOK, Changes
<1> QED
  BY <1>1, <1>2, <1>3, <1>5, <1>6, <1>9, SaveGoesOn

LEMMA ResetGoesOn ==
  ASSUME ServiceInv, DirectoryInv, Serial, Serial', NEW p \in Proc, ResetCredentials(p)
  PROVE  DirectoryGoesOn
<1>. DEFINE user == call[p].user
<1>1. Loaded(p) /\ Found(p) /\ req[p].op = "reset_credentials" /\ phase[p] = "load"
  BY DEF ResetCredentials, Found, Loaded
<1>2. /\ user \in User /\ user.id \in UserID /\ user = table[user.id] /\ Dated(user)
      /\ user[LookupKind(req[p].op)] = LookupKey(req[p])
      /\ user \in Directory!Matching(p) /\ user.id \in ids
  BY <1>1, FoundMatches
<1>3. user.data.issued # Empty /\ user.data.issued \in Nat
  <2>1. LookupKind(req[p].op) = "token" /\ LookupKey(req[p]) = req[p].token
    BY <1>1 DEF LookupKind, LookupKey
  <2>2. req[p].token # Empty
    BY <1>1, RequestFacts DEF Complete, Required
  <2>3. user.token # Empty
    BY <1>2, <2>1, <2>2
  <2>4. user.data.issued \in Time \cup {Empty}
    BY <1>2 DEF User, Details
  <2> QED
    BY <1>2, <2>3, <2>4 DEF Dated, Time
<1>4. CASE Expired(user, now)
  <2>1. ReplyNow(p, "ResetPasswordTokenExpired", NoUser, <<>>)
    BY <1>3, <1>4 DEF ResetCredentials
  <2>2. /\ DirectoryInv' /\ UNCHANGED table /\ Directory!Pending(p)
        /\ Directory!Reply(p, "ResetPasswordTokenExpired", NoUser, <<>>)
    BY <1>1, <2>1, ReplyGoesOn
  <2>3. Directory!ResetCredentials(p)
    <3>1. Directory!GoodUntil(user) < now
      <4>1. now \in Nat /\ ResetPasswordExpireTime \in Nat
        BY Parts, ConfigAssumption DEF LocalTypes, Time
      <4> QED
        BY <1>3, <1>4, <4>1 DEF Expired, Directory!GoodUntil
    <3> QED
      BY <1>1, <1>2, <2>2, <3>1, SameAccounts DEF Directory!ResetCredentials, Directory!Refuse
  <2> QED
    BY <2>2, <2>3, Performed
<1>5. CASE ~Expired(user, now)
  <2>. DEFINE new == Reset(user, req[p])
  <2>1. SaveAs(p, new) /\ UNCHANGED ids
    BY <1>3, <1>5 DEF ResetCredentials, factory
  <2>2. new \in User /\ new.id = user.id
    BY <1>1, FoundUser, Updates
  <2>3. UNCHANGED <<table, req, since, now>>
    BY <2>1, <2>2, SaveEffect DEF SaveAs
  <2>4. ~Expired(user, since[p])
    <3>1. since[p] \in Nat /\ now \in Nat /\ since[p] <= now /\ ResetPasswordExpireTime \in Nat
      BY Parts, ConfigAssumption DEF LocalTypes, Time, DirectoryInv, StandingOK
    <3> QED
      BY <1>3, <1>5, <3>1 DEF Expired
  <2>5. working'[p] = new => PlanOK(p)'
    BY <1>1, <1>2, <2>2, <2>3, <2>4 DEF PlanOK, Changes
  <2> QED
    BY <1>1, <1>2, <2>1, <2>2, <2>5, SaveGoesOn
<1> QED
  BY <1>4, <1>5

(* A hash of the configured cost is that of the directory already; another   *)
(* is replaced by one.                                                      *)
LEMMA CostUpdated ==
  ASSUME NEW user \in User, NEW r
  PROVE  /\ ~NeedsRehash(user.data.hash) => [user EXCEPT !.data.hash.cost = "configured"] = user
         /\ AuthenticateError(user, r) = "nil"
              => Rehashed(user, r) = [user EXCEPT !.data.hash.cost = "configured"]
<1>. DEFINE hash == user.data.hash
<1>1. user.data \in Details /\ hash \in PasswordHash
  BY DEF User, Details
<1>2. ~NeedsRehash(hash) => [hash EXCEPT !.cost = "configured"] = hash
  BY <1>1 DEF PasswordHash, NeedsRehash
<1>3. AuthenticateError(user, r) = "nil" => Hash(r.password) = [hash EXCEPT !.cost = "configured"]
  BY <1>1 DEF AuthenticateError, Verify, Hash, PasswordHash
<1>4. ~NeedsRehash(hash) => [user.data EXCEPT !.hash = [hash EXCEPT !.cost = "configured"]] = user.data
  BY <1>1, <1>2 DEF Details
<1>5. [user EXCEPT !.data.hash.cost = "configured"]
        = [user EXCEPT !.data = [user.data EXCEPT !.hash = [hash EXCEPT !.cost = "configured"]]]
  OBVIOUS
<1>6. ~NeedsRehash(hash) => [user EXCEPT !.data.hash.cost = "configured"] = user
  BY <1>4, <1>5 DEF User
<1>7. AuthenticateError(user, r) = "nil"
        => Rehashed(user, r) = [user EXCEPT !.data.hash.cost = "configured"]
  BY <1>3, <1>5 DEF Rehashed
<1> QED
  BY <1>6, <1>7

LEMMA AuthenticateGoesOn ==
  ASSUME ServiceInv, KVS!StorageInv, KVS!CalmInv, DirectoryInv, Serial, Serial', NEW p \in Proc,
         Authenticate(p)
  PROVE  DirectoryGoesOn
<1>. DEFINE user == call[p].user
            err  == AuthenticateError(user, req[p])
<1>1. Loaded(p) /\ Found(p) /\ req[p].op = "authenticate" /\ phase[p] = "load"
  BY DEF Authenticate, Found, Loaded
<1>2. /\ user \in User /\ user.id \in UserID /\ user = table[user.id]
      /\ user[LookupKind(req[p].op)] = LookupKey(req[p])
      /\ user \in Directory!Matching(p) /\ user.id \in ids
  BY <1>1, FoundMatches
<1>3. CASE err # "nil"
  <2>1. ReplyNow(p, err, NoUser, <<>>) /\ err # "none"
    BY <1>3 DEF Authenticate, AuthenticateError
  <2>2. /\ DirectoryInv' /\ UNCHANGED table /\ Directory!Pending(p)
        /\ Directory!Reply(p, err, NoUser, <<>>)
    BY <1>1, <2>1, ReplyGoesOn
  <2>3. Directory!Authenticate(p)
    BY <1>1, <1>2, <1>3, <2>2, SameAccounts DEF Directory!Authenticate, Directory!Refuse
  <2> QED
    BY <2>2, <2>3, Performed
<1>4. CASE err = "nil" /\ ~NeedsRehash(user.data.hash)
  <2>. DEFINE logged == <<Event("authenticate", user)>>
  <2>1. ReplyNow(p, "nil", user, logged)
    BY <1>4 DEF Authenticate
  <2>2. /\ DirectoryInv' /\ UNCHANGED table /\ Directory!Pending(p)
        /\ Directory!Reply(p, "nil", user, logged)
    BY <1>1, <2>1, ReplyGoesOn
  <2>3. \A q \in Proc : ~KVS!Saving(q)
    <3>1. Alone(p) /\ call[p].pc = "done"
      BY <1>1, SerialAlone DEF Loaded
    <3> QED
      BY <3>1, Parts DEF Alone, InCall, KVS!Saving, KVS!SavePhase
  <2>4. Directory!Conflicts(user) = {}
    BY <1>2, <2>3, KVS!NoKeysShared, StorageAssumptions, StorageTypes, SameUser, SameAccounts,
       NotEmpty DEF User, NoUser
  <2>5. table' = [table EXCEPT ![user.id] = user]
    BY <1>2, <2>2, StorageTypes DEF KVS!TypeInv, KVS!TypeOK
  <2>6. Directory!Enter(p, user)
    BY <1>1, <2>2, <2>4, <2>5, SameAccounts DEF Directory!Enter
  <2>7. [user EXCEPT !.data.hash.cost = "configured"] = user
    BY <1>2, <1>4, CostUpdated
  <2>8. Directory!Authenticate(p)
    BY <1>1, <1>2, <1>4, <2>6, <2>7, SameAccounts DEF Directory!Authenticate
  <2> QED
    BY <2>2, <2>8, Performed
<1>5. CASE err = "nil" /\ NeedsRehash(user.data.hash)
  <2>. DEFINE new == Rehashed(user, req[p])
  <2>1. SaveAs(p, new) /\ UNCHANGED ids
    BY <1>5 DEF Authenticate, factory
  <2>2. new \in User /\ new.id = user.id
    BY <1>1, FoundUser, Updates
  <2>3. UNCHANGED <<table, req, since, now>>
    BY <2>1, <2>2, SaveEffect DEF SaveAs
  <2>4. working'[p] = new => PlanOK(p)'
    BY <1>1, <1>2, <1>5, <2>2, <2>3 DEF PlanOK, Changes
  <2> QED
    BY <1>1, <1>2, <2>1, <2>2, <2>4, SaveGoesOn
<1> QED
  BY <1>3, <1>4, <1>5

(* The answer after a Save is what the directory gave already.              *)
LEMMA FinishGoesOn ==
  ASSUME ServiceInv, DirectoryInv, Serial, NEW p \in Proc, Finish(p)
  PROVE  DirectoryGoesOn
<1>. /\ Saved(p) /\ phase[p] = "save" /\ UNCHANGED <<factory, now>>
     /\ Reply(p, SaveError(p), working[p], SaveEvents(p)) /\ Store!TakeAnswer(p)
  BY DEF Finish, Saved, ReplyNow
<1>0. LocalTypes /\ StandingOK(p)
  BY Parts DEF DirectoryInv
<1>1. /\ phase'[p] = "answered" /\ answer'[p] = AnswerTo(req[p], SaveError(p), working[p])
      /\ events' = events \o SaveEvents(p) /\ UNCHANGED <<req, since, table, ids>>
  BY <1>0, AnswerEffect DEF Reply, LocalTypes, factory
<1>2. OthersSame(p)
  BY <1>0, AnswerEffect DEF Reply, LocalTypes, OthersSame
<1>3. StandingOK(p)'
  <2>1. SaveError(p) # "none"
    <3>1. call[p].err \in KVS!Error
      BY StorageTypes DEF KVS!TypeInv, KVS!TypeOK, KVS!Call
    <3> QED
      BY <3>1 DEF SaveError, KVS!Error
  <2>2. answer'[p].err # "none"
    BY <1>1, <2>1 DEF AnswerTo, Answer
  <2> QED
    BY <1>0, <1>1, <2>2 DEF StandingOK
<1>4. DirectoryInv'
  BY <1>1, <1>2, <1>3, DirectoryStep DEF DirectoryInv, RecordsOK
<1>5. Alone(p) /\ Alone(p)' /\ ~Saved(p)'
  BY <1>1, <1>2, SerialAlone DEF Alone, OthersSame, Saved
<1>6. Announced' = Announced
  BY <1>1, <1>5, AnnouncedAlone, AnnouncedAloneNext
<1>7. Decided(p)' = Decided(p)
  BY <1>1, <1>5 DEF Decided
<1> QED
  BY <1>1, <1>2, <1>4, <1>6, <1>7, SilentView DEF DirectoryGoesOn
-----------------------------------------------------------------------------
(* The storage works on the find of p: nothing is to be seen of it.         *)
LEMMA FindGoesOn ==
  ASSUME ServiceInv, KVS!StorageInv, KVS!CalmInv, DirectoryInv, Sequential, NEW p \in Proc,
         StoreStep(p), phase[p] = "load"
  PROVE  DirectoryGoesOn
<1>. /\ KVS!Step(p) /\ UNCHANGED <<local, factory, events, now>> /\ Serial
     /\ \A q \in Proc \ {p} : call'[q] = call[q]
  BY StoreEffect, SameStep DEF StoreStep, Sequential
<1>0. StandingOK(p) /\ call[p].pc # "done"
  BY DEF DirectoryInv, KVS!Step, KVS!CheckTaken, KVS!LookupOld, KVS!RemoveOld, KVS!PutNew,
         KVS!SetUser, KVS!Lookup, KVS!Fetch
<1>1. ~KVS!Saving(p)
  BY RequestFacts DEF LoadOK, KVS!Saving, KVS!SavePhase
<1>. DEFINE kind == LookupKind(req[p].op)
            key  == LookupKey(req[p])
<1>2. call[p].kind = kind /\ call[p].key = key
  BY <1>0 DEF StandingOK, FindOK
<1>3. /\ UNCHANGED table
      /\ \/ call'[p].pc = "fetch" /\ call'[p].kind = kind /\ call'[p].key = key
         \/ /\ call'[p].pc = "done" /\ call'[p].err = "nil"
            /\ call'[p].user = table[call'[p].user.id] /\ call'[p].user[kind] = key
         \/ /\ call'[p].pc = "done" /\ call'[p].err = "UserNotFound"
            /\ \A id \in UserID : table[id] = NoUser \/ table[id][kind] # key
  BY <1>1, <1>2, KVS!FindExact, StorageAssumptions, StorageTypes, SequentialCalm, SameUser
<1>4. StandingOK(p)'
  <2>1. FindOK(p)'
    BY <1>3 DEF FindOK, local
  <2> QED
    BY <1>0, <2>1 DEF StandingOK, local
<1>5. OthersSame(p) /\ UNCHANGED <<req, since, ids, events>>
  BY DEF OthersSame, local, factory
<1>6. DirectoryInv'
  BY <1>3, <1>4, <1>5, DirectoryStep DEF DirectoryInv, RecordsOK
<1>7. ~Saved(p) /\ ~Saved(p)' /\ Decided(p)' = Decided(p)
  BY DEF Saved, Decided, local
<1>8. Announced' = Announced
  BY <1>5, <1>7, SameAnnounced
<1> QED
  BY <1>3, <1>5, <1>6, <1>7, <1>8, SilentView DEF DirectoryGoesOn

(* A change of a user and a new hash leave the reset token as it is; a new   *)
(* token comes with its time.                                               *)
LEMMA IssuedStays ==
  ASSUME NEW user \in User, NEW r
  PROVE  /\ Modified(user, r).token = user.token
         /\ Modified(user, r).data.issued = user.data.issued
         /\ Rehashed(user, r).token = user.token
         /\ Rehashed(user, r).data.issued = user.data.issued
         /\ \A token, time : WithToken(user, token, time).data.issued = time
<1>. user.data \in Details
  BY DEF User
<1>1. \A v : /\ [user.data EXCEPT !.hash = v].issued = user.data.issued
             /\ [user.data EXCEPT !.profile = v].issued = user.data.issued
             /\ [user.data EXCEPT !.verified = v].issued = user.data.issued
  BY DEF Details
<1>2. \A v : /\ [user EXCEPT !.data = v].data = v /\ [user EXCEPT !.data = v].token = user.token
             /\ [user EXCEPT !.email = v].data = user.data
             /\ [user EXCEPT !.email = v].token = user.token
  BY DEF User
<1>3. \A v, w : LET new == [user EXCEPT !.login = w, !.data.hash = v]
               IN  new.data.issued = user.data.issued /\ new.token = user.token
  <2>. SUFFICES ASSUME NEW v, NEW w
                PROVE  LET new == [user EXCEPT !.login = w, !.data.hash = v]
                       IN  new.data.issued = user.data.issued /\ new.token = user.token
    OBVIOUS
  <2>. DEFINE kept == [user EXCEPT !.login = w]
  <2>1. kept.data = user.data /\ kept.token = user.token
    BY DEF User
  <2>2. [user EXCEPT !.login = w, !.data.hash = v]
          = [kept EXCEPT !.data = [user.data EXCEPT !.hash = v]]
    BY <2>1
  <2>3. [kept EXCEPT !.data = [user.data EXCEPT !.hash = v]].data = [user.data EXCEPT !.hash = v]
        /\ [kept EXCEPT !.data = [user.data EXCEPT !.hash = v]].token = user.token
    BY DEF User
  <2> QED
    BY <1>1, <2>2, <2>3
<1>4. \A token, time : WithToken(user, token, time).data.issued = time
  <2>. SUFFICES ASSUME NEW token, NEW time PROVE WithToken(user, token, time).data.issued = time
    OBVIOUS
  <2>. DEFINE told == [user EXCEPT !.token = token]
  <2>1. told.data \in Details /\ \A v : [told EXCEPT !.data = v].data = v
    BY DEF User
  <2>2. [told.data EXCEPT !.issued = time].issued = time
    BY <2>1 DEF Details
  <2>3. WithToken(user, token, time) = [told EXCEPT !.data = [told.data EXCEPT !.issued = time]]
    BY DEF WithToken
  <2> QED
    BY <2>1, <2>2, <2>3
<1>5. Rehashed(user, r).token = user.token /\ Rehashed(user, r).data.issued = user.data.issued
  <2>1. Rehashed(user, r) = [user EXCEPT !.data = [user.data EXCEPT !.hash = Hash(r.password)]]
    BY DEF Rehashed
  <2>2. [user.data EXCEPT !.hash = Hash(r.password)].issued = user.data.issued
    BY <1>1
  <2> QED
    BY <1>2, <2>1, <2>2
<1>6. Modified(user, r).token = user.token /\ Modified(user, r).data.issued = user.data.issued
  <2>1. CASE r.op = "change_login_credentials"
    BY <1>3, <2>1 DEF Modified, WithCredentials
  <2>2. CASE r.op = "change_profile_name"
    <3>1. Modified(user, r) = [user EXCEPT !.data = [user.data EXCEPT !.profile = r.profile]]
      BY <2>2 DEF Modified
    <3>2. [user.data EXCEPT !.profile = r.profile].issued = user.data.issued
      BY <1>1
    <3> QED
      BY <1>2, <3>1, <3>2
  <2>3. CASE r.op = "change_email"
    <3>1. Modified(user, r) = [user EXCEPT !.email = r.email]
      BY <2>3 DEF Modified
    <3> QED
      BY <1>2, <3>1
  <2>4. CASE r.op \notin {"change_login_credentials", "change_profile_name", "change_email"}
    BY <1>1, <1>2, <2>4 DEF Modified
  <2> QED
    BY <2>1, <2>2, <2>3, <2>4
<1> QED
  BY <1>4, <1>5, <1>6

(* What p saves is a user, with a time when it has a reset token.           *)
LEMMA PlanDated ==
  ASSUME ServiceInv, DirectoryInv, NEW p \in Proc, phase[p] = "save", PlanOK(p)
  PROVE  Dated(working[p])
<1>. DEFINE user == table[working[p].id]
<1>1. /\ working[p] \in User /\ working[p].id \in UserID /\ Dated(user)
      /\ req[p] \in Request /\ Complete(req[p])
  BY RequestFacts DEF SaveOK, User, DirectoryInv, RecordsOK
<1>2. CASE req[p].op = "create"
  <2>1. working[p] = NewUser(working[p].id, req[p])
    BY <1>2 DEF PlanOK, Changes, ReadModifyWrite
  <2> QED
    BY <2>1 DEF NewUser, Dated
<1>3. ASSUME user \in User, req[p].op \in ReadModifyWrite, working[p] = Modified(user, req[p])
      PROVE  Dated(working[p])
  <2>1. working[p].token = user.token /\ working[p].data.issued = user.data.issued
    BY <1>3, IssuedStays
  <2> QED
    BY <1>1, <2>1 DEF Dated
<1>4. ASSUME user \in User, working[p] = Rehashed(user, req[p])
      PROVE  Dated(working[p])
  <2>1. working[p].token = user.token /\ working[p].data.issued = user.data.issued
    BY <1>4, IssuedStays
  <2> QED
    BY <1>1, <2>1 DEF Dated
<1>5. ASSUME user \in User, NEW time \in since[p]..now,
             working[p] = WithToken(user, working[p].token, time)
      PROVE  Dated(working[p])
  <2>1. working[p].data.issued = time
    BY <1>5, IssuedStays
  <2>2. time \in Time
    <3>1. since[p] \in Nat /\ now \in Nat /\ now <= MaxTime /\ MaxTime \in Nat
      BY Parts, ConfigAssumption DEF LocalTypes, Time
    <3> QED
      BY <1>5, <3>1 DEF Time
  <2> QED
    BY <2>1, <2>2, NilAssumption DEF Dated
<1>6. ASSUME user \in User, working[p] = Reset(user, req[p]) PROVE Dated(working[p])
  BY <1>6 DEF Reset, WithCredentials, User, Dated
<1> QED
  BY <1>2, <1>3, <1>4, <1>5, <1>6 DEF PlanOK, Changes

(* A record that the directory takes in or refuses is what the request      *)
(* makes of the user it is about.                                           *)
LEMMA PlanPerformed ==
  ASSUME ServiceInv, NEW p \in Proc, phase[p] = "save", PlanOK(p),
         RecordsOK,
         \/ Directory!Enter(p, working[p])
         \/ /\ Directory!RefuseTaken(p, working[p])
            /\ req[p].op \notin {"authenticate", "new_reset_token"}
  PROVE  \/ Directory!Create(p) \/ Directory!Modify(p) \/ Directory!Authenticate(p)
         \/ Directory!NewToken(p) \/ Directory!ResetCredentials(p)
<1>. DEFINE user == table[working[p].id]
<1>1. /\ working[p] \in User /\ working[p].id \in UserID
      /\ req[p] \in Request /\ Complete(req[p])
  BY RequestFacts DEF SaveOK, User
<1>2. CASE req[p].op = "create" /\ user = NoUser /\ working[p] = NewUser(working[p].id, req[p])
  BY <1>1, <1>2, SameAccounts DEF Directory!Create
<1>3. CASE /\ user \in User /\ user[LookupKind(req[p].op)] = LookupKey(req[p])
           /\ Changes(p, user)
  <2>1. user # NoUser
    BY <1>3, NotEmpty DEF User, NoUser
  <2>2. user \in Directory!Matching(p)
    BY <1>1, <1>3, <2>1, SameAccounts DEF Directory!Matching
  <2>3. CASE /\ req[p].op \in ReadModifyWrite /\ ~WrongEmail(user, req[p])
             /\ working[p] = Modified(user, req[p])
    BY <2>2, <2>3, SameAccounts DEF Directory!Modify, ReadModifyWrite
  <2>4. CASE /\ req[p].op = "authenticate" /\ AuthenticateError(user, req[p]) = "nil"
             /\ working[p] = Rehashed(user, req[p])
    <3>1. working[p] = [user EXCEPT !.data.hash.cost = "configured"]
      BY <1>3, <2>4, CostUpdated
    <3> QED
      BY <2>2, <2>4, <3>1, SameAccounts DEF Directory!Authenticate
  <2>5. CASE /\ req[p].op = "new_reset_token"
             /\ \E time \in since[p]..now : working[p] = WithToken(user, working[p].token, time)
             /\ \A id \in UserID : table[id].token # working[p].token
    <3>1. PICK time \in since[p]..now : working[p] = WithToken(user, working[p].token, time)
      BY <2>5
    <3>2. working[p].token \in Token
      BY <2>5, RequestFacts DEF SaveOK
    <3> QED
      BY <2>2, <2>5, <3>1, <3>2, SameAccounts DEF Directory!NewToken
  <2>6. CASE /\ req[p].op = "reset_credentials" /\ ~Expired(user, since[p])
             /\ working[p] = Reset(user, req[p])
    <3>1. user.token # Empty
      BY <1>1, <1>3, <2>6 DEF LookupKind, LookupKey, Complete, Required
    <3>2. user.data.issued \in Nat
      BY <1>1, <1>3, <3>1 DEF RecordsOK, Dated, User, Details, Time
    <3>3. since[p] \in Nat /\ ResetPasswordExpireTime \in Nat
      BY Parts, ConfigAssumption DEF LocalTypes, Time
    <3>4. since[p] <= Directory!GoodUntil(user)
      BY <2>6, <3>2, <3>3 DEF Expired, Directory!GoodUntil
    <3> QED
      BY <2>2, <2>6, <3>4, SameAccounts DEF Directory!ResetCredentials
  <2> QED
    BY <1>3, <2>3, <2>4, <2>5, <2>6 DEF Changes
<1> QED
  BY <1>2, <1>3 DEF PlanOK

(* A login and a new token are never refused for a key: the user keeps its   *)
(* email and login name, and nobody has the token.                          *)
LEMMA PlanUnrefused ==
  ASSUME ServiceInv, KVS!StorageInv, KVS!CalmInv, Sequential, NEW p \in Proc,
         phase[p] = "save", KVS!Saving(p), PlanOK(p),
         req[p].op \in {"authenticate", "new_reset_token"}
  PROVE  KVS!Store!Conflicts(working[p]) = {}
<1>. DEFINE user == table[working[p].id]
<1>1. working[p] \in User /\ working[p].id \in UserID /\ call[p].user = working[p]
  BY RequestFacts, SameTypes DEF SaveOK, User
<1>2. user \in User /\ Changes(p, user)
  BY DEF PlanOK
<1>3. ASSUME NEW k \in {"email", "login", "token"}, working[p][k] = user[k]
      PROVE  k \notin KVS!Store!Conflicts(working[p])
  BY <1>1, <1>3, KVS!OwnKeyFree, StorageAssumptions, StorageTypes, SequentialCalm, SMTT(30)
     DEF KVS!Kind
<1>4. working[p].email = user.email /\ working[p].login = user.login
  BY <1>2 DEF Changes, Rehashed, WithToken, ReadModifyWrite, User
<1>5. "token" \notin KVS!Store!Conflicts(working[p])
  <2>1. CASE req[p].op = "authenticate"
    <3>1. working[p].token = user.token
      BY <1>2, <2>1 DEF Changes, Rehashed, ReadModifyWrite, User
    <3> QED
      BY <1>3, <3>1
  <2>2. CASE req[p].op = "new_reset_token"
    <3>1. \A id \in UserID : table[id].token # working[p].token
      BY <1>2, <2>2 DEF Changes, ReadModifyWrite
    <3> QED
      BY <3>1 DEF KVS!Store!Conflicts
  <2> QED
    BY <2>1, <2>2
<1> QED
  BY <1>3, <1>4, <1>5 DEF KVS!Store!Conflicts, KVS!Store!Kind

(* The storage works on the Save of p: the request takes effect when the     *)
(* storage writes the record or refuses it.                                 *)
LEMMA WriteGoesOn ==
  ASSUME ServiceInv, KVS!StorageInv, KVS!CalmInv, DirectoryInv, Sequential, Serial',
         NEW p \in Proc, StoreStep(p), phase[p] = "save"
  PROVE  DirectoryGoesOn
<1>. DEFINE user == working[p]
<1>. /\ KVS!Step(p) /\ UNCHANGED <<local, factory, events, now>> /\ Serial
     /\ \A q \in Proc \ {p} : call'[q] = call[q]
  BY StoreEffect, SameStep DEF StoreStep, Sequential
<1>. UNCHANGED <<req, phase, working, answer, since, ids>>
  BY DEF local, factory
<1>0. /\ StandingOK(p) /\ call[p].pc # "done" /\ SaveOK(p)
      /\ req[p] \in Request /\ Complete(req[p])
  BY RequestFacts
     DEF DirectoryInv, KVS!Step, KVS!CheckTaken, KVS!LookupOld, KVS!RemoveOld, KVS!PutNew,
         KVS!SetUser, KVS!Lookup, KVS!Fetch
<1>1. /\ KVS!Saving(p) /\ call[p].user = user /\ user \in User /\ user.id \in UserID
      /\ PlanOK(p)
  BY <1>0, SameTypes DEF SaveOK, StandingOK, User
<1>2. \/ KVS!Saving(p)' /\ call'[p].user = user /\ UNCHANGED table
      \/ /\ call'[p].pc = "done" /\ call'[p].err = "nil" /\ KVS!Store!Conflicts(user) = {}
         /\ table' = [table EXCEPT ![user.id] = user]
      \/ /\ call'[p].pc = "done" /\ UNCHANGED table /\ KVS!Store!Conflicts(user) # {}
         /\ call'[p].err = IF "email" \in KVS!Store!Conflicts(user)
                           THEN "EmailAlreadyTaken" ELSE "LoginNameAlreadyTaken"
  BY <1>1, KVS!SaveExact, StorageAssumptions, StorageTypes, SequentialCalm
<1>3. OthersSame(p) /\ ~Saved(p)
  BY <1>0 DEF OthersSame, Saved
<1>4. Alone(p) /\ Alone(p)'
  <2>1. phase'[p] = "save"
    OBVIOUS
  <2> QED
    BY <2>1, SerialAlone, SerialAloneNext
<1>5. CASE KVS!Saving(p)' /\ call'[p].user = user /\ UNCHANGED table
  <2>1. call'[p].pc # "done"
    BY <1>5 DEF KVS!Saving, KVS!SavePhase
  <2>2. PlanOK(p)'
    BY <1>1, <1>5 DEF PlanOK, Changes
  <2>3. StandingOK(p)'
    BY <1>0, <2>2 DEF StandingOK
  <2>4. DirectoryInv'
    BY <1>3, <1>5, <2>3, DirectoryStep DEF DirectoryInv, RecordsOK
  <2>5. ~Saved(p)' /\ Decided(p)' = Decided(p)
    BY <1>3, <2>1 DEF Saved, Decided
  <2>6. Announced' = Announced
    BY <1>3, <2>5, SameAnnounced
  <2> QED
    BY <1>3, <1>5, <2>4, <2>5, <2>6, SilentView DEF DirectoryGoesOn
<1>6. CASE call'[p].pc = "done" /\ ~KVS!Saving(p)'
  <2>1. Saved(p)' /\ ~Store!Saving(p)'
    BY <1>6 DEF Saved, Store!Saving, Store!SavePhase
  <2>2. StandingOK(p)'
    BY <1>0, <2>1 DEF StandingOK
  <2>3. Decided(p) = NoAnswer /\ Decided(p)' = AnswerTo(req[p], SaveError(p)', user)
    BY <1>0, <1>3, <2>1 DEF Decided, StandingOK
  <2>4. Announced = events /\ Announced' = events \o SaveEvents(p)'
    BY <1>3, <1>4, <2>1, AnnouncedAlone, AnnouncedAloneNext
  <2>5. Directory!Pending(p)
    <3>1. req[p] # NoRequest
      BY <1>0, RequestTypes DEF Op, NoRequest
    <3> QED
      BY <2>3, <3>1, SameAccounts DEF Directory!Pending
  <2>6. CASE /\ call'[p].err = "nil" /\ KVS!Store!Conflicts(user) = {}
             /\ table' = [table EXCEPT ![user.id] = user]
    <3>1. SaveError(p)' = "nil" /\ SaveEvents(p)' = <<Event(req[p].op, user)>>
      BY <2>6 DEF SaveError, SaveEvents
    <3>2. Directory!Reply(p, "nil", user, <<Event(req[p].op, user)>>)
      BY <1>3, <2>3, <2>4, <3>1, ReplyView
    <3>3. Directory!Enter(p, user)
      BY <2>6, <3>2, SameAccounts DEF Directory!Enter
    <3>4. \A id \in UserID : table'[id] = IF id = user.id THEN user ELSE table[id]
      BY <1>1, <2>6, StorageTypes DEF KVS!TypeInv, KVS!TypeOK
    <3>5. RecordsOK'
      BY <1>0, <1>1, <3>4, PlanDated DEF RecordsOK, DirectoryInv, StandingOK, Dated
    <3>6. DirectoryInv'
      BY <1>3, <1>4, <2>2, <3>5, DirectoryStep
    <3> QED
      BY <1>1, <2>5, <3>3, <3>6, PlanPerformed, Performed DEF DirectoryInv
  <2>7. CASE /\ UNCHANGED table /\ KVS!Store!Conflicts(user) # {}
             /\ call'[p].err = IF "email" \in KVS!Store!Conflicts(user)
                               THEN "EmailAlreadyTaken" ELSE "LoginNameAlreadyTaken"
    <3>1. req[p].op \notin {"authenticate", "new_reset_token"}
      BY <1>1, <2>7, PlanUnrefused
    <3>2. SaveError(p)' = call'[p].err /\ SaveEvents(p)' = <<>>
      BY <2>7, <3>1 DEF SaveError, SaveEvents
    <3>3. AnswerTo(req[p], call'[p].err, user) = AnswerTo(req[p], call'[p].err, NoUser)
      BY <2>7 DEF AnswerTo
    <3>4. Directory!Refuse(p, call'[p].err)
      <4>1. Decided(p)' = AnswerTo(req[p], call'[p].err, NoUser)
        BY <2>3, <3>2, <3>3
      <4>2. Announced' = Announced \o <<>>
        BY <2>4, <3>2, Parts DEF LocalTypes
      <4>3. Directory!Reply(p, call'[p].err, NoUser, <<>>)
        BY <1>3, <4>1, <4>2, ReplyView
      <4> QED
        BY <2>7, <4>3, SameAccounts DEF Directory!Refuse
    <3>5. Directory!RefuseTaken(p, user)
      BY <2>7, <3>4, SameAccounts DEF Directory!RefuseTaken
    <3>6. DirectoryInv'
      BY <1>3, <2>2, <2>7, DirectoryStep DEF DirectoryInv, RecordsOK
    <3> QED
      BY <1>1, <2>5, <3>1, <3>5, <3>6, PlanPerformed, Performed DEF DirectoryInv
  <2> QED
    BY <1>2, <1>6, <2>6, <2>7
<1> QED
  BY <1>2, <1>5, <1>6 DEF KVS!Saving, KVS!SavePhase

(* The id factory counts.                                                   *)
LEMMA CountGoesOn ==
  ASSUME ServiceInv, DirectoryInv, Serial, NEW p \in Proc, CountStep(p)
  PROVE  DirectoryGoesOn
<1>1. UNCHANGED <<table, call, req, phase, answer, since, events, ids, now>> /\ OthersSame(p)
  BY CountEffect DEF OthersSame, storage
<1>2. phase[p] \in {"number", "load"} /\ ~Saved(p) /\ ~Saved(p)'
  BY <1>1, CountEffect DEF Saved
<1>3. StandingOK(p)'
  BY <1>1, <1>2 DEF DirectoryInv, StandingOK, FindOK
<1>4. DirectoryInv'
  BY <1>1, <1>3, DirectoryStep DEF DirectoryInv, RecordsOK
<1>5. Announced' = Announced
  BY <1>1, <1>2, SameAnnounced
<1>6. Decided(p)' = Decided(p)
  BY <1>1, <1>2 DEF Decided
<1> QED
  BY <1>1, <1>4, <1>5, <1>6, SilentView DEF DirectoryGoesOn

(* Time passes.                                                             *)
LEMMA RestGoesOn ==
  ASSUME ServiceInv, ServiceInv', DirectoryInv, Tick \/ UNCHANGED vars
  PROVE  DirectoryGoesOn
<1>1. /\ UNCHANGED <<storage, local, events>> /\ ids \subseteq ids'
      /\ now' \in {now, now + 1} /\ now \in Nat /\ now' \in Nat
      /\ now' = now + 1 => Tick
  BY Parts
  DEF Tick, vars, factory, LocalTypes, Time
<1>2. UNCHANGED <<table, call, req, phase, working, answer, since>>
  BY <1>1 DEF storage, local
<1>3. \A q \in Proc : StandingOK(q)'
  BY <1>1, <1>2, StandingKeeps DEF DirectoryInv
<1>4. DirectoryInv'
  BY <1>1, <1>2, <1>3 DEF DirectoryInv, RecordsOK
<1>5. Announced' = Announced /\ \A q \in Proc : Decided(q)' = Decided(q)
  BY <1>1, <1>2 DEF Announced, Decided, Saved, SaveError, SaveEvents
<1>6. CASE now' = now
  BY <1>2, <1>4, <1>5, <1>6 DEF DirectoryGoesOn, Directory!vars
<1>7. CASE now' = now + 1
  BY <1>2, <1>4, <1>5, <1>7 DEF DirectoryGoesOn, Directory!Tick, Directory!Next
<1> QED
  BY <1>1, <1>6, <1>7
-----------------------------------------------------------------------------
(* The storage keeps what is proved of it.                                  *)
StorageOK == KVS!StorageInv /\ KVS!CalmInv

LEMMA StorageOKNext ==
  ServiceInv /\ ServiceInv' /\ StorageOK /\ Sequential /\ Sequential' /\ [Next]_vars => StorageOK'
<1>. SUFFICES ASSUME ServiceInv, ServiceInv', StorageOK, Sequential, Sequential', [Next]_vars
              PROVE  StorageOK'
  OBVIOUS
<1>1. [KVS!Next]_(KVS!vars)
  BY StorageStep
<1>2. KVS!Calm /\ KVS!Calm'
  BY SequentialCalm, SequentialCalmNext
<1> QED
  BY <1>1, <1>2, KVS!InvStep, KVS!CalmStep, StorageAssumptions, StorageTypes DEF StorageOK

(* The directory starts with the records of earlier runs.                   *)
LEMMA DirectoryInit == Init => StorageOK /\ DirectoryInv /\ Directory!Init
<1>. SUFFICES ASSUME Init PROVE StorageOK /\ DirectoryInv /\ Directory!Init
  OBVIOUS
<1>1. KVS!Init /\ ServiceInv
  BY SameInit, ServiceInit DEF Init
<1>2. /\ req = [p \in Proc |-> NoRequest] /\ phase = [p \in Proc |-> "idle"]
      /\ answer = [p \in Proc |-> NoAnswer] /\ since = [p \in Proc |-> 0]
      /\ events = <<>> /\ now = 0 /\ ids = {id \in UserID : table[id] # NoUser}
      /\ call = [p \in Proc |-> KVS!Idle]
      /\ faults = 0 /\ interrupted = KVS!NoUser /\ suspect = FALSE
  BY <1>1 DEF Init, KVS!Init
<1>3. KVS!StorageInv
  BY <1>1, KVS!InitInv, KVS!InitType, StorageAssumptions
<1>4. KVS!CalmInv
  BY <1>2 DEF KVS!CalmInv, KVS!FindsOK, KVS!FindOK, KVS!Idle
<1>5. ASSUME NEW id \in UserID PROVE Dated(table[id])
  <2>1. table \in Earlier \/ table[id].token = Empty
    BY <1>1 DEF KVS!Init, KVS!EmptyTable, KVS!NoUser
  <2> QED
    BY <2>1, EarlierTokensAssumption DEF Dated
<1>6. RecordsOK
  BY <1>2, <1>5 DEF RecordsOK
<1>7. \A p \in Proc : StandingOK(p)
  BY <1>2 DEF StandingOK
<1>8. \A p \in Proc : ~Saved(p) /\ Decided(p) = NoAnswer
  BY <1>2 DEF Saved, Decided
<1>9. Announced = <<>>
  BY <1>2, <1>8 DEF Announced
<1>10. Directory!Init
  BY <1>2, <1>8, <1>9, SameAccounts DEF Directory!Init
<1> QED
  BY <1>3, <1>4, <1>6, <1>7, <1>10 DEF StorageOK, DirectoryInv

(* Every step of the service is a step of the directory, or none.           *)
LEMMA DirectoryNext ==
  ASSUME Factory = "uuid", ServiceInv, ServiceInv', TokenInv, StorageOK, DirectoryInv,
         Sequential, Sequential', [Next]_vars
  PROVE  DirectoryGoesOn
<1>. Serial /\ Serial' /\ KVS!StorageInv /\ KVS!CalmInv
  BY DEF Sequential, StorageOK
<1>1. ASSUME NEW p \in Proc, Arrive(p) PROVE DirectoryGoesOn
  BY <1>1, ArriveGoesOn DEF Arrive
<1>2. ASSUME NEW p \in Proc, Continue(p) PROVE DirectoryGoesOn
  BY <1>2, CreateGoesOn, LoadFailedGoesOn, GetGoesOn, ModifyGoesOn, AuthenticateGoesOn,
     TokenGoesOn, ResetGoesOn, FinishGoesOn DEF Continue
<1>3. ASSUME NEW p \in Proc, StoreStep(p) PROVE DirectoryGoesOn
  <2>1. phase[p] \in {"load", "save"}
    BY <1>3, StoreEffect
  <2> QED
    BY <1>3, <2>1, FindGoesOn, WriteGoesOn
<1>4. ~Crash
  <2>1. ASSUME Crash PROVE FALSE
    <3>1. crashes' = crashes + 1 /\ crashes = 0 /\ crashes' = 0
      BY <2>1, SameCrash DEF Crash, KVS!Crash, Sequential
    <3> QED
      BY <3>1
  <2> QED
    BY <2>1
<1>5. ASSUME NEW p \in Proc, StoreFails(p) PROVE FALSE
  <2>1. KVS!Fail(p) /\ faults = 0 /\ faults' = 0
    BY <1>5, SameFail DEF StoreFails, Serial
  <2> QED
    BY <2>1 DEF KVS!Fail, KVS!ReadFails, KVS!WriteFails
<1>6. \/ UNCHANGED vars \/ Tick \/ Crash
      \/ \E p \in Proc : Arrive(p) \/ Continue(p) \/ CountStep(p) \/ StoreStep(p) \/ StoreFails(p)
  BY DEF Next
<1> QED
  BY <1>1, <1>2, <1>3, <1>4, <1>5, <1>6, RestGoesOn, CountGoesOn

(* While requests use the storage one after the other, no driver call fails  *)
(* and the process lives, service.go over keyvalue.go is a directory of      *)
(* users: each request takes effect at once, and is answered and announced   *)
(* by that.  (A factory that repeats an id or a token writes over a user.)   *)
THEOREM ServiceActsAsDirectory ==
  ASSUME Factory = "uuid"
  PROVE  Spec /\ []Sequential => ActsAsDirectory
<1>. DEFINE Inv == ServiceInv /\ TokenInv /\ StorageOK /\ DirectoryInv
<1>1. Init => Inv /\ Directory!Init
  BY ServiceInit, TokenInit, DirectoryInit
<1>2. Inv /\ Sequential /\ Sequential' /\ [Next]_vars
        => Inv' /\ [Directory!Next]_(Directory!vars)
  <2>. SUFFICES ASSUME Inv, Sequential, Sequential', [Next]_vars
                PROVE  Inv' /\ [Directory!Next]_(Directory!vars)
    OBVIOUS
  <2>1. ServiceInv' /\ TokenInv'
    BY ServiceNext, TokenNext
  <2>2. StorageOK'
    BY <2>1, StorageOKNext
  <2>3. DirectoryGoesOn
    BY <2>1, DirectoryNext
  <2> QED
    BY <2>1, <2>2, <2>3 DEF DirectoryGoesOn
<1>. HIDE DEF Inv
<1> QED
  BY <1>1, <1>2, PTL DEF Spec, ActsAsDirectory, Directory!Spec
-----------------------------------------------------------------------------
(* "uuid" gives an id once: a step of p that gets no id but from the table   *)
(* or the factory leaves the ids of the other creations alone.              *)
LEMMA FreshStep ==
  ASSUME ServiceInv, FreshInv, ids \subseteq ids', NEW p \in Proc,
         \A q \in Proc \ {p} :
           /\ req'[q] = req[q] /\ phase'[q] = phase[q]
           /\ working'[q] = working[q] /\ call'[q] = call[q],
         \A id \in UserID : table'[id] = table[id] \/ id \in InHand(p),
         \A id \in InHand(p)' :
           \/ id \in InHand(p) \/ id \in ids' \ ids
           \/ id \in UserID /\ table[id] # NoUser,
         Creating(p)' =>
           /\ UNCHANGED table
           /\ working'[p].id \in UserID \ ids \/ (Creating(p) /\ working'[p] = working[p])
  PROVE  FreshInv'
<1>1. ASSUME NEW id \in UserID, table'[id] # NoUser PROVE id \in ids'
  BY <1>1 DEF FreshInv
<1>2. ASSUME NEW q \in Proc \ {p}
      PROVE  InHand(q)' = InHand(q) /\ Creating(q)' = Creating(q) /\ working'[q] = working[q]
  BY DEF InHand, Creating, Loaded, Store!Saving, Store!SavePhase
<1>3. InHand(p)' \subseteq ids'
  BY DEF FreshInv
<1>4. ASSUME NEW q \in Proc PROVE InHand(q)' \subseteq ids'
  <2>1. CASE q # p
    BY <1>2, <2>1 DEF FreshInv
  <2> QED
    BY <1>3, <2>1
<1>5. ASSUME NEW q \in Proc \ {p}, Creating(q)
      PROVE  /\ table'[working[q].id] = NoUser
             /\ \A other \in Proc \ {q} : working[q].id \notin InHand(other)'
  <2>1. working[q].id \in InHand(q) /\ working[q].id \in UserID
    BY <1>5, RequestFacts DEF Creating, InHand, SaveOK, User
  <2>2. /\ working[q].id \in ids /\ table[working[q].id] = NoUser
        /\ \A other \in Proc \ {q} : working[q].id \notin InHand(other)
    BY <1>5, <2>1 DEF FreshInv
  <2>3. working[q].id \notin InHand(p)'
    BY <2>2
  <2> QED
    BY <1>2, <2>1, <2>2, <2>3
<1>6. ASSUME Creating(p)'
      PROVE  /\ table'[working'[p].id] = NoUser
             /\ \A q \in Proc \ {p} : working'[p].id \notin InHand(q)'
  <2>1. CASE working'[p].id \in UserID \ ids
    BY <1>2, <1>6, <2>1 DEF FreshInv
  <2>2. CASE Creating(p) /\ working'[p] = working[p]
    BY <1>2, <1>6, <2>2 DEF FreshInv
  <2> QED
    BY <1>6, <2>1, <2>2
<1>7. ASSUME NEW q \in Proc, Creating(q)'
      PROVE  /\ table'[working'[q].id] = NoUser
             /\ \A other \in Proc \ {q} : working'[q].id \notin InHand(other)'
  <2>1. CASE q = p
    BY <1>6, <1>7, <2>1
  <2>2. CASE q # p
    BY <1>2, <1>5, <1>7, <2>2
  <2> QED
    BY <2>1, <2>2
<1> QED
  BY <1>1, <1>4, <1>7 DEF FreshInv

LEMMA ArriveFresh ==
  ASSUME ServiceInv, FreshInv, NEW p \in Proc, Arrive(p)
  PROVE  FreshInv'
<1>0. LocalTypes
  BY Parts
<1>1. PICK r \in Request : RefuseArguments(p, r) \/ BeginCreate(p, r) \/ Load(p, r)
  BY DEF Arrive
<1>2. /\ \A q \in Proc \ {p} :
           /\ req'[q] = req[q] /\ phase'[q] = phase[q]
           /\ working'[q] = working[q] /\ call'[q] = call[q]
      /\ UNCHANGED <<table, ids>>
  BY <1>0, <1>1, LoadEffect
     DEF RefuseArguments, BeginCreate, Load, Begin, LocalTypes, storage, factory
<1>3. \/ phase'[p] \in {"answered", "number"}
      \/ phase'[p] = "load" /\ call'[p].pc \in {"fetch", "lookup"}
  BY <1>0, <1>1, LoadEffect
     DEF RefuseArguments, BeginCreate, Load, Begin, LocalTypes
<1>4. InHand(p)' = {} /\ ~Creating(p)'
  BY <1>3 DEF InHand, Creating, Loaded
<1> QED
  BY <1>2, <1>4, FreshStep

(* A Save of a user that p has in hand, or that has just got its id.        *)
LEMMA SaveFresh ==
  ASSUME ServiceInv, FreshInv, NEW p \in Proc, NEW user \in User, SaveAs(p, user),
         ids \subseteq ids',
         \/ user.id \in InHand(p) /\ req[p].op # "create"
         \/ user.id \in ids' \ ids
  PROVE  FreshInv'
<1>0. LocalTypes
  BY Parts
<1>1. /\ \A q \in Proc \ {p} :
           /\ req'[q] = req[q] /\ phase'[q] = phase[q]
           /\ working'[q] = working[q] /\ call'[q] = call[q]
      /\ UNCHANGED <<table, req>> /\ phase'[p] = "save" /\ working'[p] = user
  BY <1>0, SaveEffect DEF SaveAs, LocalTypes
<1>2. InHand(p)' = {user.id}
  BY <1>1 DEF InHand, Loaded
<1>3. ASSUME Creating(p)' PROVE working'[p].id \in UserID \ ids
  <2>1. user.id \in UserID
    BY DEF User
  <2>2. req[p].op = "create"
    BY <1>1, <1>3 DEF Creating
  <2> QED
    BY <1>1, <2>1, <2>2
<1> QED
  BY <1>1, <1>2, <1>3, FreshStep

LEMMA ReplyFresh ==
  ASSUME ServiceInv, FreshInv, NEW p \in Proc, NEW err, NEW user, NEW logged,
         ReplyNow(p, err, user, logged)
  PROVE  FreshInv'
<1>0. LocalTypes /\ Reply(p, err, user, logged) /\ Store!TakeAnswer(p)
  BY Parts DEF ReplyNow
<1>1. /\ \A q \in Proc \ {p} :
           /\ req'[q] = req[q] /\ phase'[q] = phase[q]
           /\ working'[q] = working[q] /\ call'[q] = call[q]
      /\ UNCHANGED <<table, ids>> /\ phase'[p] = "answered"
  BY <1>0, AnswerEffect DEF ReplyNow, Reply, LocalTypes, factory
<1>2. InHand(p)' = {} /\ ~Creating(p)'
  BY <1>1 DEF InHand, Creating, Loaded
<1> QED
  BY <1>1, <1>2, FreshStep

LEMMA ContinueFresh ==
  ASSUME Factory = "uuid", ServiceInv, FreshInv, NEW p \in Proc, Continue(p)
  PROVE  FreshInv'
<1>1. CASE SavesNew(p)
  <2>1. PICK id \in UserID : /\ Ids!GiveUserID(p, id) /\ SaveAs(p, NewUser(id, req[p]))
                             /\ phase[p] = "number"
    BY <1>1 DEF SavesNew, Numbering
  <2>2. NewUser(id, req[p]) \in User /\ NewUser(id, req[p]).id = id
    BY <2>1, RequestFacts, NewRecord
  <2>3. ids' = ids \cup {id} /\ id \notin ids
    BY <2>1 DEF Ids!GiveUserID, Ids!NewUserIDs
  <2> QED
    BY <2>1, <2>2, <2>3, SaveFresh
<1>2. CASE SavesChange(p) \/ SavesToken(p)
  <2>1. PICK user \in User : /\ Found(p) /\ req[p].op # "create"
                             /\ user.id = call[p].user.id /\ SaveAs(p, user)
                             /\ UNCHANGED ids
    BY <1>2 DEF SavesChange, SavesToken, factory, Ids!GiveToken
  <2>2. user.id \in InHand(p)
    BY <2>1 DEF InHand, Found, Loaded
  <2> QED
    BY <2>1, <2>2, SaveFresh
<1>3. CASE Refuses(p) \/ AnswersFound(p) \/ Finish(p)
  BY <1>3, ReplyFresh DEF Refuses, AnswersFound, Finish
<1> QED
  BY <1>1, <1>2, <1>3, ContinueCases

(* A Save writes its own record, and that with its last step.               *)
LEMMA SaveStoresLast ==
  ASSUME ServiceInv, NEW p \in Proc, StoreStep(p) \/ StoreFails(p), phase[p] = "save"
  PROVE  /\ KVS!Saving(p) /\ Store!Saving(p) /\ call[p].user = working[p]
         /\ \A id \in UserID :
              table'[id] = table[id] \/ (id = working[p].id /\ table'[id] = working[p])
         /\ KVS!Saving(p)' => UNCHANGED table
<1>. KVS!TypeInv /\ (KVS!Step(p) \/ KVS!Fail(p))
  BY StoreEffect, StorageTypes
<1>1. call[p].pc # "done"
  BY DEF KVS!Step, KVS!Fail, KVS!CheckTaken, KVS!LookupOld, KVS!RemoveOld, KVS!PutNew,
         KVS!SetUser, KVS!Lookup, KVS!Fetch, KVS!ReadFails, KVS!WriteFails
<1>2. KVS!Saving(p) /\ Store!Saving(p) /\ call[p].user = working[p]
  BY <1>1, RequestFacts, SameTypes DEF SaveOK
<1>3. \A id \in UserID :
        table'[id] = table[id] \/ (id = working[p].id /\ table'[id] = working[p])
  BY <1>2, RequestFacts, KVS!SaveWrites, StorageAssumptions, StoredAsIs DEF SaveOK
<1>4. CASE KVS!Step(p)
  <2>1. (KVS!Saving(p)' /\ UNCHANGED table) \/ call'[p].pc = "done"
    BY <1>2, <1>4, KVS!SavePhases, StorageAssumptions
  <2> QED
    BY <1>2, <1>3, <2>1 DEF KVS!Saving, KVS!SavePhase
<1>5. CASE KVS!Fail(p)
  <2>1. UNCHANGED table
    BY <1>5 DEF KVS!Fail, KVS!ReadFails, KVS!WriteFails, KVS!store
  <2> QED
    BY <1>2, <1>3, <2>1
<1> QED
  BY <1>4, <1>5

LEMMA StoreFresh ==
  ASSUME ServiceInv, FreshInv, NEW p \in Proc, StoreStep(p) \/ StoreFails(p)
  PROVE  FreshInv'
<1>. KVS!TypeInv /\ UNCHANGED <<req, phase, working, ids>>
  BY StoreEffect, StorageTypes DEF local, factory
<1>0. /\ KVS!Step(p) \/ KVS!Fail(p)
      /\ \A q \in Proc \ {p} : call'[q] = call[q]
      /\ phase[p] \in {"load", "save"}
  BY StoreEffect
<1>1. CASE phase[p] = "load"
  <2>1. ~KVS!Saving(p)
    BY <1>1, RequestFacts DEF LoadOK, KVS!Saving, KVS!SavePhase
  <2>2. /\ UNCHANGED table
        /\ \/ call'[p].pc = "fetch"
           \/ /\ call[p].pc = "fetch" /\ call'[p].user = table[call[p].id]
              /\ call'[p].user # NoUser
           \/ call'[p].pc = "done" /\ call'[p].err # "nil"
    BY <1>0, <2>1, KVS!FindMoves, StorageAssumptions, SameUser DEF KVS!store
  <2>3. call[p].pc = "fetch" => call[p].id \in UserID
    BY DEF KVS!TypeInv, KVS!CallOK, KVS!Fits
  <2>4. ASSUME NEW id \in InHand(p)' PROVE id \in UserID /\ table[id] # NoUser
    <3>1. call'[p].pc = "done" /\ call'[p].err = "nil" /\ id = call'[p].user.id
      BY <1>1, <2>4 DEF InHand, Loaded
    <3>2. call'[p].user = table[call[p].id] /\ call'[p].user # NoUser /\ call[p].id \in UserID
      BY <2>2, <2>3, <3>1
    <3>3. id = call[p].id
      BY <3>1, <3>2, RecordTypes
    <3> QED
      BY <3>2, <3>3
  <2>5. ~Creating(p)'
    BY <1>1 DEF Creating
  <2> QED
    BY <1>0, <2>2, <2>4, <2>5, FreshStep
<1>2. CASE phase[p] = "save"
  <2>1. /\ Store!Saving(p) /\ (KVS!Saving(p)' => UNCHANGED table)
        /\ \A id \in UserID : table'[id] = table[id] \/ id = working[p].id
    BY <1>2, SaveStoresLast
  <2>2. working[p].id \in InHand(p)
    BY <1>2 DEF InHand, Loaded
  <2>3. InHand(p)' = InHand(p)
    <3>1. InHand(p) = {working[p].id}
      BY <1>2 DEF InHand, Loaded
    <3>2. InHand(p)' = {working'[p].id}
      BY <1>2 DEF InHand, Loaded
    <3> QED
      BY <3>1, <3>2
  <2>4. Creating(p)' => UNCHANGED table /\ Creating(p)
    BY <1>2, <2>1 DEF Creating, Store!Saving, KVS!Saving, Store!SavePhase, KVS!SavePhase
  <2> QED
    BY <1>0, <2>1, <2>2, <2>3, <2>4, FreshStep
<1> QED
  BY <1>0, <1>1, <1>2

LEMMA RestFresh ==
  ASSUME ServiceInv, FreshInv, Tick \/ UNCHANGED vars \/ (\E p \in Proc : CountStep(p))
  PROVE  FreshInv'
<1>1. \A q \in Proc : InHand(q)' = InHand(q) /\ (Creating(q)' <=> Creating(q))
  BY RestEffect DEF InHand, Creating, Loaded, Store!Saving, Noted, Tokening
<1>2. \A q \in Proc : Creating(q) => working'[q] = working[q]
  BY RestEffect DEF Creating, Noted, Tokening, Loaded
<1> QED
  BY <1>1, <1>2, RestEffect DEF FreshInv

LEMMA CrashFresh ==
  ASSUME ServiceInv, FreshInv, Crash
  PROVE  FreshInv'
<1>1. UNCHANGED ids /\ KVS!Crash
  BY SameCrash DEF Crash, Ids!Restart
<1>2. \A q \in Proc : phase'[q] = "idle"
  BY DEF Crash
<1>3. \A id \in UserID : table'[id] \in {table[id], NoUser}
  BY <1>1, SameUser DEF KVS!Crash, KVS!store, KVS!EmptyTable
<1>4. \A q \in Proc : InHand(q)' = {} /\ ~Creating(q)'
  BY <1>2 DEF InHand, Creating, Loaded
<1> QED
  BY <1>1, <1>3, <1>4 DEF FreshInv

LEMMA FreshInit ==
  ASSUME Init
  PROVE  FreshInv
<1>1. \A q \in Proc : phase[q] = "idle"
  BY DEF Init
<1>2. \A q \in Proc : InHand(q) = {} /\ ~Creating(q)
  BY <1>1 DEF InHand, Creating, Loaded
<1> QED
  BY <1>2 DEF Init, FreshInv

LEMMA FreshNext ==
  ASSUME Factory = "uuid"
  PROVE  ServiceInv /\ FreshInv /\ [Next]_vars => FreshInv'
BY ArriveFresh, ContinueFresh, StoreFresh, RestFresh, CrashFresh DEF Next

(* CreatesNewUser, with the id factory "uuid": however requests overlap,     *)
(* writes are lost and the process is restarted, CreateUser of service.go    *)
(* writes over no user that is there.  (The run SeqIds shows that the       *)
(* factory "seq" makes it do so.)                                           *)
THEOREM UuidsCreateNewUsers ==
  ASSUME Factory = "uuid"
  PROVE  Spec => CreatesNewUser
<1>1. Init => ServiceInv /\ FreshInv
  BY ServiceInit, FreshInit
<1>2. ServiceInv /\ FreshInv /\ [Next]_vars => ServiceInv' /\ FreshInv'
  BY ServiceNext, FreshNext
<1>3. ServiceInv /\ FreshInv =>
        \A p \in Proc : req[p].op = "create" /\ call[p].pc = "set" =>
                          table[working[p].id] = NoUser
  <2>. SUFFICES ASSUME ServiceInv, FreshInv, NEW p \in Proc,
                       req[p].op = "create", call[p].pc = "set"
                PROVE  table[working[p].id] = NoUser
    OBVIOUS
  <2>1. phase[p] \in {"load", "save"}
    BY DEF ServiceInv, BasicInv, TypeOK
  <2>2. phase[p] = "save"
    BY <2>1, RequestFacts DEF LoadOK
  <2> QED
    BY <2>2 DEF FreshInv, Creating, Store!Saving, Store!SavePhase
<1>4. ServiceInv /\ FreshInv =>
        [\A p \in Proc : req[p].op = "create" /\ Stores(p) => table[working[p].id] = NoUser]_vars
  BY <1>3 DEF Stores
<1> QED
  BY <1>1, <1>2, <1>4, PTL DEF Spec, CreatesNewUser
-----------------------------------------------------------------------------
(* A step of p writes only a record of a Save of p, which has the time of    *)
(* its token, and only while no other request is in a find.                 *)
LEMMA IssuedStep ==
  ASSUME ServiceInv, IssuedInv, NEW p \in Proc,
         \A q \in Proc \ {p} :
           /\ req'[q] = req[q] /\ phase'[q] = phase[q]
           /\ working'[q] = working[q] /\ call'[q] = call[q],
         \/ UNCHANGED table
         \/ Alone(p) /\ \A id \in UserID : table'[id] \in {table[id], call[p].user},
         Dated(call'[p].user), Dated(working'[p]), ResetFinds(p)'
  PROVE  IssuedInv'
<1>1. \A id \in UserID : Dated(table'[id])
  BY DEF IssuedInv
<1>2. ASSUME NEW q \in Proc \ {p} PROVE ResetFinds(q)'
  <2>1. CASE UNCHANGED table
    BY <2>1 DEF IssuedInv, ResetFinds, Loaded
  <2>2. CASE Alone(p)
    BY <2>2 DEF Alone, ResetFinds
  <2> QED
    BY <2>1, <2>2
<1>3. \A q \in Proc : Dated(call'[q].user) /\ Dated(working'[q]) /\ ResetFinds(q)'
  BY <1>2 DEF IssuedInv
<1> QED
  BY <1>1, <1>3 DEF IssuedInv, Dated

LEMMA NoUserDated == Dated(NoUser) /\ Dated(KVS!Idle.user)
BY NoUserOwned DEF Dated

LEMMA ArriveIssued ==
  ASSUME ServiceInv, IssuedInv, NEW p \in Proc, Arrive(p)
  PROVE  IssuedInv'
<1>0. LocalTypes
  BY Parts
<1>1. PICK r \in Request : RefuseArguments(p, r) \/ BeginCreate(p, r) \/ Load(p, r)
  BY DEF Arrive
<1>2. /\ \A q \in Proc \ {p} :
           /\ req'[q] = req[q] /\ phase'[q] = phase[q]
           /\ working'[q] = working[q] /\ call'[q] = call[q]
      /\ UNCHANGED table /\ req'[p] = r
  BY <1>0, <1>1, LoadEffect
     DEF RefuseArguments, BeginCreate, Load, Begin, LocalTypes, storage
<1>3. Dated(call'[p].user) /\ Dated(working'[p])
  <2>1. call'[p].user \in {NoUser, call[p].user} /\ working'[p] \in {NoUser, working[p]}
    BY <1>0, <1>1, LoadEffect
       DEF RefuseArguments, BeginCreate, Load, Begin, LocalTypes, storage
  <2> QED
    BY <2>1, NoUserDated DEF IssuedInv
<1>4. ResetFinds(p)'
  <2>1. CASE Load(p, r)
    BY <1>2, <2>1, LoadEffect DEF ResetFinds, Loaded, LookupKind
  <2>2. CASE RefuseArguments(p, r) \/ BeginCreate(p, r)
    <3>1. phase'[p] # "load"
      BY <1>0, <2>2 DEF RefuseArguments, BeginCreate, Begin, LocalTypes
    <3> QED
      BY <3>1 DEF ResetFinds
  <2> QED
    BY <1>1, <2>1, <2>2
<1> QED
  BY <1>2, <1>3, <1>4, IssuedStep

LEMMA SaveIssued ==
  ASSUME ServiceInv, IssuedInv, NEW p \in Proc, NEW user \in User, SaveAs(p, user), Dated(user)
  PROVE  IssuedInv'
<1>0. LocalTypes
  BY Parts
<1>1. /\ \A q \in Proc \ {p} :
           /\ req'[q] = req[q] /\ phase'[q] = phase[q]
           /\ working'[q] = working[q] /\ call'[q] = call[q]
      /\ UNCHANGED table /\ call'[p].user = user
      /\ phase'[p] = "save" /\ working'[p] = user
  BY <1>0, SaveEffect DEF SaveAs, LocalTypes
<1>2. ResetFinds(p)'
  BY <1>1 DEF ResetFinds
<1> QED
  BY <1>1, <1>2, IssuedStep

LEMMA ReplyIssued ==
  ASSUME ServiceInv, IssuedInv, NEW p \in Proc, NEW err, NEW user, NEW logged,
         ReplyNow(p, err, user, logged)
  PROVE  IssuedInv'
<1>0. LocalTypes /\ Reply(p, err, user, logged) /\ Store!TakeAnswer(p)
  BY Parts DEF ReplyNow
<1>1. /\ \A q \in Proc \ {p} :
           /\ req'[q] = req[q] /\ phase'[q] = phase[q]
           /\ working'[q] = working[q] /\ call'[q] = call[q]
      /\ UNCHANGED table /\ phase'[p] = "answered" /\ working'[p] = NoUser
      /\ call'[p] = KVS!Idle
  BY <1>0, AnswerEffect DEF Reply, LocalTypes
<1>2. ResetFinds(p)'
  BY <1>1 DEF ResetFinds
<1> QED
  BY <1>1, <1>2, NoUserDated, IssuedStep

(* A reset token that the storage found a user by has a time: Add is not     *)
(* called on a nil ResetPasswordTokenIssued.                                *)
LEMMA ResetIsDated ==
  ASSUME ServiceInv, IssuedInv, NEW p \in Proc, Found(p), req[p].op = "reset_credentials"
  PROVE  call[p].user.data.issued # Empty
<1>1. req[p].token # Empty
  BY FoundUser DEF Complete, Required
<1> QED
  BY <1>1 DEF IssuedInv, Dated, ResetFinds, Found, Loaded

LEMMA ContinueIssued ==
  ASSUME ServiceInv, IssuedInv, NEW p \in Proc, Continue(p)
  PROVE  IssuedInv'
<1>. DEFINE user == call[p].user
            r    == req[p]
<1>1. CASE CreateUser(p)
  <2>1. PICK id \in UserID : SaveAs(p, NewUser(id, r)) /\ phase[p] = "number"
    BY <1>1 DEF CreateUser, Numbering
  <2>2. NewUser(id, r) \in User /\ NewUser(id, r).token = Empty
    BY <2>1, RequestFacts, NewRecord
  <2> QED
    BY <2>1, <2>2, SaveIssued DEF Dated
<1>2. CASE LoadFailed(p) \/ GetUser(p) \/ Finish(p)
  BY <1>2, ReplyIssued DEF LoadFailed, GetUser, Finish
<1>3. ASSUME Found(p) PROVE user \in User /\ Dated(user) /\ r \in Request /\ Complete(r)
  BY <1>3, FoundUser DEF IssuedInv
<1>4. CASE ModifyWrite(p)
  <2>1. Found(p) /\ r.op \in ReadModifyWrite
    BY <1>4 DEF ModifyWrite, Found
  <2>2. \/ ReplyNow(p, "InvalidVerificationEmail", NoUser, <<>>)
        \/ SaveAs(p, Modified(user, r))
    BY <1>4 DEF ModifyWrite
  <2>3. Modified(user, r) \in User
    BY <1>3, <2>1, Updates
  <2>4. Dated(Modified(user, r))
    BY <1>3, <2>1, IssuedStays DEF Dated
  <2> QED
    BY <2>2, <2>3, <2>4, ReplyIssued, SaveIssued
<1>5. CASE Authenticate(p)
  <2>1. Found(p) /\ r.op = "authenticate"
    BY <1>5 DEF Authenticate, Found
  <2>2. \/ \E err, logged : ReplyNow(p, err, NoUser, logged) \/ ReplyNow(p, err, user, logged)
        \/ SaveAs(p, Rehashed(user, r))
    BY <1>5 DEF Authenticate
  <2>3. Rehashed(user, r) \in User
    BY <1>3, <2>1, Updates
  <2>4. Dated(Rehashed(user, r))
    BY <1>3, <2>1, IssuedStays DEF Dated
  <2> QED
    BY <2>2, <2>3, <2>4, ReplyIssued, SaveIssued
<1>6. CASE NewResetToken(p)
  <2>. DEFINE time == IssueTime(p)
  <2>1. PICK token \in Token : SaveAs(p, WithToken(user, token, time)) /\ Found(p)
                               /\ Ids!GiveToken(p, token)
    BY <1>6 DEF NewResetToken, Tokening, Found
  <2>2. time \in Time
    BY <1>6, <2>1, TimeIssued DEF NewResetToken
  <2>. HIDE DEF time
  <2>3. WithToken(user, token, time) \in User /\ WithToken(user, token, time).data.issued = time
    BY <1>3, <2>1, <2>2, Updates, IssuedStays
  <2>4. Dated(WithToken(user, token, time))
    BY <2>2, <2>3, NilAssumption DEF Dated
  <2> QED
    BY <2>1, <2>3, <2>4, SaveIssued
<1>7. CASE ResetCredentials(p)
  <2>1. Found(p) /\ r.op = "reset_credentials"
    BY <1>7 DEF ResetCredentials, Found
  <2>2. (\E err : ReplyNow(p, err, NoUser, <<>>)) \/ SaveAs(p, Reset(user, r))
    BY <1>7 DEF ResetCredentials
  <2>3. Reset(user, r) \in User /\ Reset(user, r).token = Empty
    BY <1>3, <2>1, Updates
  <2> QED
    BY <2>2, <2>3, ReplyIssued, SaveIssued DEF Dated
<1> QED
  BY <1>1, <1>2, <1>4, <1>5, <1>6, <1>7 DEF Continue

(* The entry of a token that a client was told leads to the record that has  *)
(* it, which stays as it is while the request is alone in the storage.      *)
LEMMA StoreIssued ==
  ASSUME ServiceInv, TokenInv, SpentInv, IssuedInv, Serial,
         NEW p \in Proc, StoreStep(p) \/ StoreFails(p)
  PROVE  IssuedInv'
<1>. KVS!TypeInv /\ UNCHANGED <<req, phase, working, known>>
  BY StoreEffect, StorageTypes DEF local, tokens
<1>0. /\ KVS!Step(p) \/ KVS!Fail(p)
      /\ \A q \in Proc \ {p} : call'[q] = call[q]
      /\ phase[p] \in {"load", "save"} /\ Alone(p)
  BY StoreEffect, SerialAlone
<1>a. Dated(working'[p])
  BY DEF IssuedInv
<1>1. CASE phase[p] = "load"
  <2>1. ~KVS!Saving(p)
    BY <1>1, RequestFacts DEF LoadOK, KVS!Saving, KVS!SavePhase
  <2>2. /\ UNCHANGED table
        /\ \/ /\ call[p].pc = "lookup" /\ call'[p].pc = "fetch"
              /\ call'[p].id = index[call[p].kind][call[p].key]
              /\ call'[p].id # Empty /\ call'[p].user = call[p].user
           \/ /\ call[p].pc = "fetch" /\ call'[p].pc = "done"
              /\ call'[p].user = table[call[p].id]
           \/ call'[p].pc = "done" /\ call'[p].err # "nil" /\ call'[p].user = NoUser
    BY <1>0, <2>1, KVS!FindMoves, StorageAssumptions, SameUser DEF KVS!store
  <2>3. /\ call[p].pc = "fetch" => call[p].id \in UserID
        /\ call'[p].pc = "fetch" => call'[p].id \in UserID
    <3>1. call[p].pc = "fetch" => call[p].id \in UserID
      BY DEF KVS!TypeInv, KVS!CallOK, KVS!Fits
    <3>2. KVS!TypeInv'
      BY <1>0, KVS!NextType, StorageAssumptions DEF KVS!Next
    <3>3. call'[p].pc = "fetch" => call'[p].id \in UserID
      BY <3>2 DEF KVS!TypeInv, KVS!CallOK, KVS!Fits
    <3> QED
      BY <3>1, <3>3
  <2>4. Dated(call'[p].user)
    BY <2>2, <2>3, NoUserDated DEF IssuedInv
  <2>5. ResetFinds(p)'
    <3>. SUFFICES ASSUME req[p].op = "reset_credentials"
                  PROVE  /\ call'[p].pc = "fetch" => table[call'[p].id].token = req[p].token
                         /\ call'[p].pc = "done" /\ call'[p].err = "nil"
                              => call'[p].user.token = req[p].token
      BY <2>2 DEF ResetFinds, Loaded
    <3>1. /\ req[p].token \in known
          /\ call[p].pc = "lookup" => call[p].kind = "token" /\ call[p].key = req[p].token
      BY <1>1, ResetToken DEF TokenInv, ResetOK
    <3>2. call'[p].pc = "fetch" => table[call'[p].id].token = req[p].token
      BY <2>2, <2>3, <3>1 DEF SpentInv
    <3>3. call[p].pc = "fetch" => table[call[p].id].token = req[p].token
      BY <1>1 DEF IssuedInv, ResetFinds
    <3> QED
      BY <2>2, <3>2, <3>3
  <2> QED
    BY <1>0, <1>a, <2>2, <2>4, <2>5, IssuedStep
<1>2. CASE phase[p] = "save"
  <2>1. KVS!Saving(p) /\ call[p].user = working[p]
        /\ \A id \in UserID : table'[id] \in {table[id], working[p]}
    BY <1>2, SaveStoresLast
  <2>2. /\ \A id \in UserID : table'[id] \in {table[id], call[p].user}
        /\ call'[p].user \in {call[p].user, NoUser}
    BY <1>0, <2>1, KVS!SaveMoves, StorageAssumptions, SameUser
  <2>3. Dated(call'[p].user)
    BY <2>2, NoUserDated DEF IssuedInv
  <2>4. ResetFinds(p)'
    BY <1>2 DEF ResetFinds
  <2> QED
    BY <1>0, <1>a, <2>2, <2>3, <2>4, IssuedStep
<1> QED
  BY <1>0, <1>1, <1>2

LEMMA RestIssued ==
  ASSUME ServiceInv, IssuedInv, Tick \/ UNCHANGED vars \/ (\E p \in Proc : CountStep(p))
  PROVE  IssuedInv'
<1>1. now # Empty
  BY Parts, NilAssumption DEF LocalTypes
<1>2. \A q \in Proc : Dated(working'[q])
  BY <1>1, RestEffect DEF IssuedInv, Dated, Noted
<1> QED
  BY <1>2, RestEffect DEF IssuedInv, ResetFinds, Loaded, Dated

LEMMA CrashIssued ==
  ASSUME ServiceInv, IssuedInv, Crash
  PROVE  IssuedInv'
<1>1. KVS!Crash
  BY SameCrash DEF Crash
<1>2. \A q \in Proc : call'[q] = KVS!Idle /\ working'[q] = NoUser /\ phase'[q] = "idle"
  BY <1>1 DEF Crash, KVS!Crash
<1>3. \A id \in UserID : table'[id] \in {table[id], NoUser}
  BY <1>1, SameUser DEF KVS!Crash, KVS!store, KVS!EmptyTable
<1>4. \A id \in UserID : Dated(table'[id])
  BY <1>3, NoUserDated DEF IssuedInv
<1>5. \A q \in Proc : Dated(call'[q].user) /\ Dated(working'[q]) /\ ResetFinds(q)'
  BY <1>2, NoUserDated DEF ResetFinds
<1> QED
  BY <1>4, <1>5 DEF IssuedInv, Dated

LEMMA IssuedInit ==
  ASSUME Init
  PROVE  IssuedInv
<1>1. KVS!Init
  BY SameInit DEF Init
<1>2. \A q \in Proc : call[q] = KVS!Idle /\ working[q] = NoUser /\ phase[q] = "idle"
  BY <1>1 DEF Init, KVS!Init
<1>3. \A id \in UserID : Dated(table[id])
  <2>1. table \in Earlier \/ \A id \in UserID : table[id] = NoUser
    BY <1>1, SameUser DEF KVS!Init, KVS!EmptyTable
  <2> QED
    BY <2>1, NoUserDated, EarlierTokensAssumption DEF Dated
<1>4. \A q \in Proc : Dated(call[q].user) /\ Dated(working[q]) /\ ResetFinds(q)
  BY <1>2, NoUserDated DEF ResetFinds
<1> QED
  BY <1>3, <1>4 DEF IssuedInv

(* The answers of a step that no reset panics in.                           *)
LEMMA AnswersNoPanic ==
  ASSUME ServiceInv, IssuedInv, NoPanic, [Next]_vars
  PROVE  NoPanic'
<1>0. LocalTypes /\ \A p \in Proc : call[p].err # "panic"
  <2>1. \A p \in Proc : call[p].err \in KVS!Error
    BY StorageTypes DEF KVS!TypeInv, KVS!TypeOK, KVS!Call
  <2> QED
    BY <2>1, Parts DEF KVS!Error
<1>1. ASSUME NEW p \in Proc, NEW err, NEW user, NEW logged, ReplyNow(p, err, user, logged),
             err # "panic"
      PROVE  NoPanic'
  <2>1. answer' = [answer EXCEPT ![p] = AnswerTo(req[p], err, user)]
    BY <1>1 DEF ReplyNow, Reply
  <2> QED
    BY <1>0, <1>1, <2>1 DEF NoPanic, LocalTypes, AnswerTo, Answer
<1>2. ASSUME NEW p \in Proc, NEW user, SaveAs(p, user) PROVE NoPanic'
  BY <1>2 DEF SaveAs, NoPanic
<1>3. ASSUME NEW p \in Proc, Arrive(p) PROVE NoPanic'
  BY <1>0, <1>3
     DEF Arrive, RefuseArguments, BeginCreate, Load, Begin, NoPanic, LocalTypes, NoAnswer, Answer
<1>4. ASSUME NEW p \in Proc, Continue(p) PROVE NoPanic'
  <2>1. CASE CreateUser(p) \/ NewResetToken(p)
    BY <1>2, <2>1 DEF CreateUser, NewResetToken
  <2>2. CASE LoadFailed(p) \/ GetUser(p)
    BY <1>0, <1>1, <2>2 DEF LoadFailed, GetUser
  <2>3. CASE ModifyWrite(p)
    BY <1>1, <1>2, <2>3 DEF ModifyWrite
  <2>4. CASE Authenticate(p)
    BY <1>1, <1>2, <2>4 DEF Authenticate, AuthenticateError
  <2>5. CASE ResetCredentials(p)
    <3>1. call[p].user.data.issued # Empty
      BY <2>5, ResetIsDated DEF ResetCredentials, Found
    <3>2. \/ ReplyNow(p, "ResetPasswordTokenExpired", NoUser, <<>>)
          \/ SaveAs(p, Reset(call[p].user, req[p]))
      BY <2>5, <3>1 DEF ResetCredentials
    <3> QED
      BY <1>1, <1>2, <3>2
  <2>6. CASE Finish(p)
    <3>1. SaveError(p) # "panic"
      BY <1>0 DEF SaveError
    <3> QED
      BY <1>1, <2>6, <3>1 DEF Finish
  <2> QED
    BY <1>4, <2>1, <2>2, <2>3, <2>4, <2>5, <2>6 DEF Continue
<1>5. ASSUME NEW p \in Proc, CountStep(p) \/ StoreStep(p) \/ StoreFails(p) PROVE NoPanic'
  BY <1>5 DEF CountStep, StoreStep, StoreFails, local, NoPanic
<1>6. CASE Tick \/ UNCHANGED vars
  BY <1>6 DEF Tick, vars, local, NoPanic
<1>7. CASE Crash
  BY <1>7 DEF Crash, NoPanic, NoAnswer, Answer
<1> QED
  BY <1>3, <1>4, <1>5, <1>6, <1>7 DEF Next

(* NoPanic in every state, while requests use the storage one after the      *)
(* other and no driver call fails, however often the process dies: then     *)
(* ResetUserCredentials of service.go dereferences no nil time.  (The run   *)
(* TokenPanic shows that two requests that overlap make it panic.)          *)
THEOREM SerialNeverPanics ==
  ASSUME Factory = "uuid"
  PROVE  Spec /\ []Serial => []NoPanic
<1>. DEFINE Inv == ServiceInv /\ TokenInv /\ SpentInv /\ IssuedInv /\ NoPanic
<1>1. Init => Inv
  <2>1. Init => NoPanic
    BY DEF Init, NoPanic, NoAnswer, Answer
  <2> QED
    BY <2>1, ServiceInit, TokenInit, SpentInit, IssuedInit
<1>2. Inv /\ Serial /\ Serial' /\ [Next]_vars => Inv'
  <2>. SUFFICES ASSUME Inv, Serial, Serial', [Next]_vars PROVE IssuedInv'
    BY ServiceNext, TokenNext, SpentNext, AnswersNoPanic
  <2> QED
    BY ArriveIssued, ContinueIssued, StoreIssued, RestIssued, CrashIssued DEF Next
<1>. HIDE DEF Inv
<1>3. Inv => NoPanic
  BY DEF Inv
<1> QED
  BY <1>1, <1>2, <1>3, PTL DEF Spec
-----------------------------------------------------------------------------
(* While a request is alone in the storage, what it has read stays true     *)
(* until it writes.                                                         *)
LEMMA ChangeStep ==
  ASSUME ChangeInv, NEW p \in Proc, UNCHANGED table \/ Alone(p),
         \A q \in Proc \ {p} :
           /\ req'[q] = req[q] /\ phase'[q] = phase[q]
           /\ working'[q] = working[q] /\ call'[q] = call[q],
         ChangeOK(p)'
  PROVE  ChangeInv'
<1>1. ASSUME NEW q \in Proc \ {p} PROVE ChangeOK(q)'
  <2>1. CASE UNCHANGED table
    BY <2>1, SMTT(30) DEF ChangeInv, ChangeOK, Loaded, Store!Saving, Store!SavePhase
  <2>2. CASE Alone(p)
    BY <2>2 DEF Alone, ChangeOK, Loaded
  <2> QED
    BY <2>1, <2>2, SMTT(30)
<1> QED
  BY <1>1 DEF ChangeInv

LEMMA ArriveChange ==
  ASSUME ServiceInv, ChangeInv, NEW p \in Proc, Arrive(p)
  PROVE  ChangeInv' /\ UNCHANGED table
<1>0. LocalTypes
  BY Parts
<1>1. PICK r \in Request : RefuseArguments(p, r) \/ BeginCreate(p, r) \/ Load(p, r)
  BY DEF Arrive
<1>2. /\ \A q \in Proc \ {p} :
           /\ req'[q] = req[q] /\ phase'[q] = phase[q]
           /\ working'[q] = working[q] /\ call'[q] = call[q]
      /\ UNCHANGED table /\ phase'[p] # "save"
      /\ phase'[p] = "load" => call'[p].pc # "done"
  BY <1>0, <1>1, LoadEffect, SMTT(30)
     DEF RefuseArguments, BeginCreate, Load, Begin, LocalTypes, storage
<1>3. ChangeOK(p)'
  BY <1>2 DEF ChangeOK, Loaded
<1> QED
  BY <1>2, <1>3, ChangeStep

LEMMA SaveChange ==
  ASSUME ServiceInv, ChangeInv, NEW p \in Proc, NEW user \in User, SaveAs(p, user),
         req[p].op \in ReadModifyWrite => user = Modified(table[user.id], req[p]),
         req[p].op = "authenticate" => user = [table[user.id] EXCEPT !.data.hash.cost = "configured"]
  PROVE  ChangeInv' /\ UNCHANGED table
<1>0. LocalTypes
  BY Parts
<1>1. /\ \A q \in Proc \ {p} :
           /\ req'[q] = req[q] /\ phase'[q] = phase[q]
           /\ working'[q] = working[q] /\ call'[q] = call[q]
      /\ UNCHANGED <<table, req>> /\ phase'[p] = "save" /\ working'[p] = user
  BY <1>0, SaveEffect DEF SaveAs, LocalTypes
<1>2. ChangeOK(p)'
  BY <1>1 DEF ChangeOK, Loaded
<1> QED
  BY <1>1, <1>2, ChangeStep

LEMMA ReplyChange ==
  ASSUME ServiceInv, ChangeInv, NEW p \in Proc, NEW err, NEW user, NEW logged,
         ReplyNow(p, err, user, logged)
  PROVE  ChangeInv' /\ UNCHANGED table
<1>0. LocalTypes /\ Reply(p, err, user, logged) /\ Store!TakeAnswer(p)
  BY Parts DEF ReplyNow
<1>1. /\ \A q \in Proc \ {p} :
           /\ req'[q] = req[q] /\ phase'[q] = phase[q]
           /\ working'[q] = working[q] /\ call'[q] = call[q]
      /\ UNCHANGED table /\ phase'[p] = "answered"
  BY <1>0, AnswerEffect DEF Reply, LocalTypes
<1>2. ChangeOK(p)'
  BY <1>1 DEF ChangeOK, Loaded
<1> QED
  BY <1>1, <1>2, ChangeStep

LEMMA ContinueChange ==
  ASSUME ServiceInv, ChangeInv, NEW p \in Proc, Continue(p)
  PROVE  ChangeInv' /\ UNCHANGED table
<1>. DEFINE user == call[p].user
            r    == req[p]
<1>1. ASSUME Found(p)
      PROVE  user \in User /\ r \in Request /\ Complete(r) /\ user = table[user.id]
  BY <1>1, FoundUser DEF ChangeInv, ChangeOK, Found
<1>2. ASSUME NEW new \in User, SaveAs(p, new), r.op \notin ReadModifyWrite \cup {"authenticate"}
      PROVE  ChangeInv' /\ UNCHANGED table
  BY <1>2, SaveChange
<1>3. CASE CreateUser(p)
  <2>1. PICK id \in UserID : SaveAs(p, NewUser(id, r)) /\ phase[p] = "number"
    BY <1>3 DEF CreateUser, Numbering
  <2>2. NewUser(id, r) \in User /\ r.op = "create"
    BY <2>1, RequestFacts, NewRecord
  <2> QED
    BY <1>2, <2>1, <2>2 DEF ReadModifyWrite
<1>4. CASE LoadFailed(p) \/ GetUser(p) \/ Finish(p)
  BY <1>4, ReplyChange DEF LoadFailed, GetUser, Finish
<1>5. CASE ModifyWrite(p)
  <2>1. Found(p) /\ r.op \in ReadModifyWrite
    BY <1>5 DEF ModifyWrite, Found
  <2>2. \/ ReplyNow(p, "InvalidVerificationEmail", NoUser, <<>>)
        \/ SaveAs(p, Modified(user, r))
    BY <1>5 DEF ModifyWrite
  <2>3. Modified(user, r) \in User /\ Modified(user, r).id = user.id
    BY <1>1, <2>1, Updates
  <2>4. Modified(user, r) = Modified(table[Modified(user, r).id], r) /\ r.op # "authenticate"
    BY <1>1, <2>1, <2>3 DEF ReadModifyWrite
  <2> QED
    BY <2>2, <2>3, <2>4, ReplyChange, SaveChange
<1>6. CASE Authenticate(p)
  <2>. DEFINE new == Rehashed(user, r)
  <2>1. Found(p) /\ r.op = "authenticate"
    BY <1>6 DEF Authenticate, Found
  <2>2. \/ \E err, logged : ReplyNow(p, err, NoUser, logged) \/ ReplyNow(p, err, user, logged)
        \/ SaveAs(p, new) /\ AuthenticateError(user, r) = "nil"
    BY <1>6 DEF Authenticate
  <2>3. new \in User /\ new.id = user.id
    BY <1>1, <2>1, Updates, SMTT(30)
  <2>4. AuthenticateError(user, r) = "nil" =>
          new = [table[new.id] EXCEPT !.data.hash.cost = "configured"]
    BY <1>1, <2>1, <2>3, CostUpdated
  <2>5. r.op \notin ReadModifyWrite
    BY <2>1 DEF ReadModifyWrite
  <2>. HIDE DEF new
  <2> QED
    BY <2>2, <2>3, <2>4, <2>5, ReplyChange, SaveChange
<1>7. CASE NewResetToken(p)
  <2>1. PICK token \in Token : /\ SaveAs(p, WithToken(user, token, IssueTime(p)))
                               /\ Found(p) /\ Ids!GiveToken(p, token)
                               /\ r.op = "new_reset_token"
    BY <1>7 DEF NewResetToken, Tokening, Found
  <2>2. IssueTime(p) \in Time
    BY <1>7, <2>1, TimeIssued DEF NewResetToken
  <2>3. WithToken(user, token, IssueTime(p)) \in User
    BY <1>1, <2>1, <2>2, Updates
  <2> QED
    BY <1>2, <2>1, <2>3 DEF ReadModifyWrite
<1>8. CASE ResetCredentials(p)
  <2>1. Found(p) /\ r.op = "reset_credentials"
    BY <1>8 DEF ResetCredentials, Found
  <2>2. (\E err : ReplyNow(p, err, NoUser, <<>>)) \/ SaveAs(p, Reset(user, r))
    BY <1>8 DEF ResetCredentials
  <2>3. Reset(user, r) \in User
    BY <1>1, <2>1, Updates
  <2> QED
    BY <1>2, <2>1, <2>2, <2>3, ReplyChange DEF ReadModifyWrite
<1> QED
  BY <1>3, <1>4, <1>5, <1>6, <1>7, <1>8 DEF Continue

LEMMA StoreChange ==
  ASSUME ServiceInv, ChangeInv, Serial, NEW p \in Proc, StoreStep(p) \/ StoreFails(p)
  PROVE  ChangeInv'
<1>. KVS!TypeInv /\ UNCHANGED <<req, phase, working>>
  BY StoreEffect, StorageTypes DEF local
<1>0. /\ KVS!Step(p) \/ KVS!Fail(p)
      /\ \A q \in Proc \ {p} : call'[q] = call[q]
      /\ phase[p] \in {"load", "save"} /\ Alone(p)
  BY StoreEffect, SerialAlone
<1>1. CASE phase[p] = "load"
  <2>1. ~KVS!Saving(p)
    BY <1>1, RequestFacts DEF LoadOK, KVS!Saving, KVS!SavePhase
  <2>2. /\ UNCHANGED table
        /\ call'[p].pc = "done" /\ call'[p].err = "nil" =>
             /\ call[p].pc = "fetch" /\ call'[p].user = table[call[p].id]
             /\ call'[p].user # NoUser
    BY <1>0, <2>1, KVS!FindMoves, StorageAssumptions, SameUser DEF KVS!store
  <2>3. call[p].pc = "fetch" => call[p].id \in UserID
    BY DEF KVS!TypeInv, KVS!CallOK, KVS!Fits
  <2>4. call'[p].pc = "done" /\ call'[p].err = "nil" =>
          call'[p].user = table'[call'[p].user.id]
    BY <2>2, <2>3, RecordTypes
  <2>5. ChangeOK(p)'
    BY <1>1, <2>4 DEF ChangeOK, Loaded
  <2> QED
    BY <1>0, <2>5, ChangeStep
<1>2. CASE phase[p] = "save"
  <2>1. Store!Saving(p) /\ (KVS!Saving(p)' => UNCHANGED table)
    BY <1>2, SaveStoresLast
  <2>2. ChangeOK(p)'
    BY <1>2, <2>1, SamePhasesNext DEF ChangeInv, ChangeOK, Loaded
  <2> QED
    BY <1>0, <2>2, ChangeStep
<1> QED
  BY <1>0, <1>1, <1>2

LEMMA RestChange ==
  ASSUME ServiceInv, ChangeInv, Tick \/ UNCHANGED vars \/ (\E p \in Proc : CountStep(p))
  PROVE  ChangeInv' /\ UNCHANGED table
<1>1. \A q \in Proc : phase[q] = "save" => working'[q] = working[q]
  BY RestEffect DEF Noted, Tokening, Loaded
<1>2. ASSUME NEW q \in Proc PROVE ChangeOK(q)'
  BY <1>1, RestEffect DEF ChangeInv, ChangeOK, Loaded, Store!Saving
<1> QED
  BY <1>2, RestEffect DEF ChangeInv

LEMMA CrashChange ==
  ASSUME ChangeInv, Crash
  PROVE  ChangeInv'
<1>1. \A q \in Proc : phase'[q] = "idle"
  BY DEF Crash
<1> QED
  BY <1>1 DEF ChangeInv, ChangeOK, Loaded

(* SavesOnlyItsChange, while requests use the store one after the other and  *)
(* no driver call fails: readModifyWrite and Authenticate of service.go save *)
(* what is stored with their own change, however often the process dies.     *)
(* (The run LostUpdate shows what two requests that overlap do.)            *)
THEOREM SerialSavesOnlyChange == Spec /\ []Serial => SavesOnlyItsChange
<1>. DEFINE Kept(p) == LET stored == table[working[p].id]
                       IN  table'[working[p].id] =
                             IF req[p].op = "authenticate"
                             THEN [stored EXCEPT !.data.hash.cost = "configured"]
                             ELSE Modified(stored, req[p])
            Wrote(p) == req[p].op \in ReadModifyWrite \cup {"authenticate"}
                          /\ Stores(p)
<1>1. Init => ServiceInv /\ ChangeInv
  <2>1. Init => ChangeInv
    BY DEF Init, ChangeInv, ChangeOK, Loaded
  <2> QED
    BY <2>1, ServiceInit
<1>2. ServiceInv /\ ChangeInv /\ Serial /\ [Next]_vars => ServiceInv' /\ ChangeInv'
  BY ServiceNext, ArriveChange, ContinueChange, StoreChange, RestChange, CrashChange, SMTT(30) DEF Next
<1>3. ServiceInv /\ ChangeInv /\ Serial /\ [Next]_vars =>
        [\A p \in Proc : Wrote(p) => Kept(p)]_vars
  <2>. SUFFICES ASSUME ServiceInv, ChangeInv, Serial, [Next]_vars, NEW p \in Proc, Wrote(p)
                PROVE  Kept(p)
    OBVIOUS
  <2>1. ~Crash
    BY SameCrash DEF Crash, KVS!Crash, KVS!Idle, Stores
  <2>2. PICK q \in Proc : StoreStep(q) \/ StoreFails(q)
    BY <2>1, ArriveChange, ContinueChange, RestChange DEF Next, Stores
  <2>3. phase[p] \in {"load", "save"} /\ phase[q] \in {"load", "save"}
    BY <2>2, StoreEffect DEF ServiceInv, BasicInv, TypeOK, Stores
  <2>4. q = p /\ phase[p] = "save"
    BY <2>3, RequestFacts DEF Serial, LoadOK, Stores
  <2>5. /\ Store!Saving(p) /\ working[p].id \in UserID
        /\ \A id \in UserID :
             table'[id] = table[id] \/ (id = working[p].id /\ table'[id] = working[p])
    BY <2>2, <2>4, SaveStoresLast, RequestFacts DEF SaveOK, User
  <2>6. table'[working[p].id] = working[p]
    <3>1. table \in [UserID -> User \cup {NoUser}] /\ table' \in [UserID -> User \cup {NoUser}]
      <4>1. ServiceInv'
        BY ServiceNext
      <4>2. KVS!TypeInv'
        BY <4>1, Parts, PTL
      <4> QED
        BY <4>2, StorageTypes, SameUser DEF KVS!TypeInv, KVS!TypeOK
    <3> QED
      BY <2>5, <3>1 DEF Stores
  <2>7. "authenticate" \notin ReadModifyWrite
    BY DEF ReadModifyWrite
  <2> QED
    BY <2>4, <2>5, <2>6, <2>7 DEF ChangeInv, ChangeOK
<1> QED
  BY <1>1, <1>2, <1>3, PTL DEF Spec, SavesOnlyItsChange
=============================================================================
