------------------------ MODULE KeyValueStorageProofs ------------------------
(***************************************************************************)
(* Theorems about KeyValueStorage, for every set of goroutines, users and   *)
(* keys, every driver, and any number of failures and crashes.              *)
(***************************************************************************)
EXTENDS KeyValueStorageProps, TLAPS

Index == [Key -> UserID \cup {Empty}]

TypeInv == TypeOK /\ CallOK

(* A driver call leaves an index an index.                                  *)
LEMMA DriverTypes ==
  ASSUME NEW idx \in Index, NEW key, NEW id \in UserID
  PROVE  Put(idx, key, id) \in Index /\ Remove(idx, key) \in Index
BY DriverAssumption
   DEF Index, Put, Remove, LocalPut, LocalRemove, RedisPut, RedisRemove, EtcdPut, EtcdRemove

(* Save lets only complete records pass.                                    *)
LEMMA ValidArgument ==
  ASSUME NEW user \in UserArgument, Valid(user)
  PROVE  user \in User
BY DEF UserArgument, Valid, User

(* JSON gives a record back as a record of the same user.                   *)
LEMMA EncodedType ==
  ASSUME NEW user \in User
  PROVE  Encoded(user) \in User /\ Encoded(user).id = user.id
BY Utf8Assumption DEF Encoded, User

(* The index that Init builds from a table.                                 *)
LEMMA OwnerType ==
  ASSUME NEW tbl, NEW k, NEW key
  PROVE  OwnerOf(tbl, k, key) \in UserID \cup {Empty}
BY DEF OwnerOf

LEMMA IdleType == Idle \in Call
BY DEF Idle, Call, Phase, SavePhase, Error

(* An action changes one call, to one that has its type and fits its place. *)
LEMMA CallUpdate ==
  ASSUME TypeInv, NEW p \in Proc, NEW c \in Call, Fits(c), call' = [call EXCEPT ![p] = c]
  PROVE  call' \in [Proc -> Call] /\ CallOK'
<1>1. call' \in [Proc -> Call]
  BY DEF TypeInv, TypeOK
<1>2. ASSUME NEW q \in Proc PROVE Fits(call'[q])
  BY <1>2 DEF TypeInv, TypeOK, CallOK
<1> QED
  BY <1>1, <1>2 DEF CallOK, Fits

LEMMA GotoType ==
  ASSUME TypeInv, NEW p \in Proc, NEW pc \in SavePhase, NEW kind \in Kind,
         Saving(p), Goto(p, pc, kind)
  PROVE  call' \in [Proc -> Call] /\ CallOK'
<1>. DEFINE moved == [call[p] EXCEPT !.pc = pc, !.kind = kind]
<1>1. call[p] \in Call /\ call \in [Proc -> Call] /\ Fits(call[p])
  BY DEF TypeInv, TypeOK, CallOK
<1>2. moved \in Call /\ Fits(moved)
  BY <1>1, ZenonT(60) DEF Call, Fits, Saving, SavePhase, Phase
<1>3. call' = [call EXCEPT ![p] = moved]
  BY <1>1 DEF Goto
<1> QED
  BY <1>2, <1>3, CallUpdate

LEMMA ReturnType ==
  ASSUME TypeInv, NEW p \in Proc, NEW err \in Error, NEW user \in User \cup {NoUser},
         Return(p, err, user)
  PROVE  call' \in [Proc -> Call] /\ CallOK'
<1>. DEFINE returned == [Idle EXCEPT !.pc = "done", !.err = err, !.user = user]
<1>1. returned \in Call /\ Fits(returned)
  BY IdleType DEF Idle, Call, Fits, SavePhase, Phase
<1>2. call' = [call EXCEPT ![p] = returned]
  BY DEF Return
<1> QED
  BY <1>1, <1>2, CallUpdate
-----------------------------------------------------------------------------
LEMMA InitType == Init => TypeInv
<1>. SUFFICES ASSUME Init PROVE TypeInv
  OBVIOUS
<1>1. table \in [UserID -> User \cup {NoUser}] /\ WellFormed(table)
  BY EarlierAssumption DEF Init, EmptyTable, WellFormed, NoUser
<1>2. index \in [Kind -> [Key -> UserID \cup {Empty}]]
  BY OwnerType DEF Init
<1>3. call \in [Proc -> Call] /\ CallOK
  BY IdleType DEF Init, CallOK, Fits, Idle, SavePhase
<1> QED
  BY <1>1, <1>2, <1>3 DEF Init, TypeInv, TypeOK

LEMMA NextType == TypeInv /\ [Next]_vars => TypeInv'
<1>. SUFFICES ASSUME TypeInv, [Next]_vars PROVE TypeInv'
  OBVIOUS
<1>a. TypeOK /\ CallOK
  BY DEF TypeInv
<1>0. CASE UNCHANGED vars
  BY <1>0, <1>a DEF vars, TypeInv, TypeOK, CallOK, Fits, WellFormed
<1>1. ASSUME NEW p \in Proc, NEW user \in UserArgument, Save(p, user) PROVE TypeInv'
  <2>1. CASE Valid(user)
    <3>. DEFINE c == [Idle EXCEPT !.pc = "check", !.kind = "email", !.user = user]
    <3>1. user \in User
      BY <2>1, ValidArgument
    <3>2. c \in Call /\ Fits(c)
      BY <3>1, IdleType DEF Idle, Call, Fits, SavePhase, Phase, Kind
    <3>3. call' = [call EXCEPT ![p] = c]
      BY <1>1, <2>1 DEF Save
    <3>4. call' \in [Proc -> Call] /\ CallOK'
      BY <3>2, <3>3, CallUpdate
    <3>5. suspect' \in BOOLEAN
      BY <1>1, <2>1 DEF Save
    <3> QED
      BY <1>1, <1>a, <3>4, <3>5 DEF Save, TypeInv, TypeOK, store, WellFormed
  <2>2. CASE ~Valid(user)
    <3>1. Return(p, "InvalidUserObject", NoUser) /\ UNCHANGED suspect
      BY <1>1, <2>2 DEF Save
    <3>2. call' \in [Proc -> Call] /\ CallOK'
      BY <3>1, ReturnType DEF Error
    <3> QED
      BY <1>1, <1>a, <3>1, <3>2 DEF Save, TypeInv, TypeOK, store, WellFormed
  <2> QED
    BY <2>1, <2>2
<1>2. ASSUME NEW p \in Proc, CheckTaken(p) PROVE TypeInv'
  <2>1. call' \in [Proc -> Call] /\ CallOK'
    <3>1. Saving(p) /\ call[p].kind \in Kind
      BY <1>2, <1>a DEF CheckTaken, Saving, SavePhase, CallOK, Fits
    <3>2. \/ \E err \in Error : Return(p, err, NoUser)
          \/ \E pc \in SavePhase, kind \in Kind : Goto(p, pc, kind)
      BY <1>2, <3>1 DEF CheckTaken, TakenError, Error, SavePhase, Kind
    <3> QED
      BY <3>1, <3>2, GotoType, ReturnType
  <2> QED
    BY <1>2, <1>a, <2>1 DEF CheckTaken, TypeInv, TypeOK, store, history, WellFormed
<1>3. ASSUME NEW p \in Proc, LookupOld(p) PROVE TypeInv'
  <2>. DEFINE c == [call[p] EXCEPT !.pc = "remove", !.kind = "email",
                                   !.old = table[call[p].user.id]]
  <2>1. call \in [Proc -> Call] /\ call[p] \in Call /\ call[p].user \in User
    BY <1>3, <1>a DEF LookupOld, TypeOK, CallOK, Fits, SavePhase
  <2>2. table[call[p].user.id] \in User \cup {NoUser}
    BY <2>1, <1>a DEF TypeOK, User
  <2>3. c \in Call /\ Fits(c)
    BY <2>1, <2>2 DEF Call, Fits, SavePhase, Phase, Kind
  <2>4. call' = [call EXCEPT ![p] = c]
    BY <1>3, <2>1 DEF LookupOld
  <2>5. call' \in [Proc -> Call] /\ CallOK'
    BY <2>3, <2>4, CallUpdate
  <2> QED
    BY <1>3, <1>a, <2>5 DEF LookupOld, TypeInv, TypeOK, store, history, WellFormed
<1>4. ASSUME NEW p \in Proc, RemoveOld(p) PROVE TypeInv'
  <2>1. Saving(p) /\ call[p].kind \in Kind
    BY <1>4, <1>a DEF RemoveOld, Saving, SavePhase, CallOK, Fits
  <2>2. \E pc \in SavePhase, kind \in Kind : Goto(p, pc, kind)
    BY <1>4, <2>1 DEF RemoveOld, AfterRemove, SavePhase, Kind
  <2>3. call' \in [Proc -> Call] /\ CallOK'
    BY <2>1, <2>2, GotoType
  <2>4. index' \in [Kind -> [Key -> UserID \cup {Empty}]]
    <3>. DEFINE k == call[p].kind
                idx == Remove(index[k], call[p].old[k])
    <3>1. index[k] \in [Key -> UserID \cup {Empty}]
      BY <2>1, <1>a DEF TypeOK
    <3>2. idx \in [Key -> UserID \cup {Empty}]
      BY <3>1, DriverAssumption
         DEF Remove, LocalRemove, RedisRemove, EtcdRemove
    <3>3. index' = index \/ index' = [index EXCEPT ![k] = idx]
      BY <1>4, <1>a, <2>1 DEF RemoveOld, TypeOK
    <3> QED
      BY <3>2, <3>3, <1>a DEF TypeOK
  <2> QED
    BY <1>4, <1>a, <2>3, <2>4 DEF RemoveOld, TypeInv, TypeOK, history, WellFormed
<1>5. ASSUME NEW p \in Proc, PutNew(p) PROVE TypeInv'
  <2>1. Saving(p) /\ call[p].kind \in Kind /\ call[p].user \in User
    BY <1>5, <1>a DEF PutNew, Saving, SavePhase, CallOK, Fits
  <2>2. \E pc \in SavePhase, kind \in Kind : Goto(p, pc, kind)
    BY <1>5, <2>1 DEF PutNew, AfterPut, SavePhase, Kind
  <2>3. call' \in [Proc -> Call] /\ CallOK'
    BY <2>1, <2>2, GotoType
  <2>4. index' \in [Kind -> [Key -> UserID \cup {Empty}]]
    <3>. DEFINE k == call[p].kind
                user == call[p].user
                idx == Put(index[k], user[k], user.id)
    <3>1. index[k] \in Index /\ user.id \in UserID
      BY <2>1, <1>a DEF TypeOK, Index, User
    <3>2. idx \in [Key -> UserID \cup {Empty}]
      BY <3>1, DriverTypes DEF Index
    <3>3. index' = index \/ index' = [index EXCEPT ![k] = idx]
      BY <1>5, <1>a, <2>1 DEF PutNew, TypeOK
    <3> QED
      BY <3>2, <3>3, <1>a DEF TypeOK
  <2> QED
    BY <1>5, <1>a, <2>3, <2>4 DEF PutNew, TypeInv, TypeOK, history, WellFormed
<1>6. ASSUME NEW p \in Proc, SetUser(p) PROVE TypeInv'
  <2>1. call[p].user \in User /\ call[p].user.id \in UserID
    BY <1>6, <1>a DEF SetUser, CallOK, Fits, SavePhase, User
  <2>2. call' \in [Proc -> Call] /\ CallOK'
    BY <1>6, ReturnType DEF SetUser, Error
  <2>3. table' = [table EXCEPT ![call[p].user.id] = Encoded(call[p].user)]
    BY <1>6 DEF SetUser, SetRecord
  <2>4. table' \in [UserID -> User \cup {NoUser}] /\ WellFormed(table')
    BY <2>1, <2>3, <1>a, EncodedType DEF TypeOK, WellFormed
  <2>5. interrupted' \in User \cup {NoUser}
    BY <1>6, <1>a DEF SetUser, TypeOK
  <2> QED
    BY <1>6, <1>a, <2>2, <2>4, <2>5 DEF SetUser, TypeInv, TypeOK, WellFormed
<1>7. ASSUME NEW p \in Proc, NEW id \in UserID, Get(p, id) PROVE TypeInv'
  <2>. DEFINE c == [Idle EXCEPT !.pc = "fetch", !.key = id, !.id = id]
  <2>1. c \in Call /\ Fits(c)
    BY IdleType DEF Idle, Call, Fits, SavePhase, Phase
  <2>2. call' \in [Proc -> Call] /\ CallOK'
    BY <1>7, <2>1, CallUpdate DEF Get
  <2> QED
    BY <1>7, <1>a, <2>2 DEF Get, TypeInv, TypeOK, store, history, WellFormed
<1>8. ASSUME NEW p \in Proc, NEW k \in Kind, NEW key \in Key, FindBy(p, k, key) PROVE TypeInv'
  <2>. DEFINE c == [Idle EXCEPT !.pc = "lookup", !.kind = k, !.key = key]
  <2>1. c \in Call /\ Fits(c)
    BY IdleType DEF Idle, Call, Fits, SavePhase, Phase
  <2>2. call' \in [Proc -> Call] /\ CallOK'
    BY <1>8, <2>1, CallUpdate DEF FindBy
  <2> QED
    BY <1>8, <1>a, <2>2 DEF FindBy, TypeInv, TypeOK, store, history, WellFormed
<1>9. ASSUME NEW p \in Proc, TakeAnswer(p) PROVE TypeInv'
  <2>1. Fits(Idle)
    BY DEF Idle, Fits, SavePhase
  <2>2. call' \in [Proc -> Call] /\ CallOK'
    BY <1>9, <2>1, IdleType, CallUpdate DEF TakeAnswer
  <2> QED
    BY <1>9, <1>a, <2>2 DEF TakeAnswer, TypeInv, TypeOK, store, history, WellFormed
<1>10. ASSUME NEW p \in Proc, Lookup(p) PROVE TypeInv'
  <2>. DEFINE id == index[call[p].kind][call[p].key]
              c  == [call[p] EXCEPT !.pc = "fetch", !.id = id]
  <2>1. call \in [Proc -> Call] /\ call[p] \in Call /\ id \in UserID \cup {Empty}
    BY <1>10, <1>a DEF Lookup, TypeOK, CallOK, Fits
  <2>2. CASE id = Empty
    BY <1>10, <2>2, ReturnType, <1>a
       DEF Lookup, Error, TypeInv, TypeOK, store, history, WellFormed
  <2>3. CASE id # Empty
    <3>1. c \in Call /\ Fits(c)
      BY <2>1, <2>3 DEF Call, Fits, SavePhase, Phase
    <3>2. call' = [call EXCEPT ![p] = c]
      BY <1>10, <2>1, <2>3 DEF Lookup
    <3>3. call' \in [Proc -> Call] /\ CallOK'
      BY <3>1, <3>2, CallUpdate
    <3> QED
      BY <1>10, <1>a, <3>3 DEF Lookup, TypeInv, TypeOK, store, history, WellFormed
  <2> QED
    BY <2>2, <2>3
<1>11. ASSUME NEW p \in Proc, Fetch(p) PROVE TypeInv'
  <2>1. table[call[p].id] \in User \cup {NoUser}
    BY <1>11, <1>a DEF Fetch, TypeOK, CallOK, Fits
  <2>2. call' \in [Proc -> Call] /\ CallOK'
    BY <1>11, <2>1, ReturnType DEF Fetch, Error
  <2> QED
    BY <1>11, <1>a, <2>2 DEF Fetch, TypeInv, TypeOK, store, history, WellFormed
<1>12. ASSUME NEW p \in Proc, ReadFails(p) PROVE TypeInv'
  <2>1. call' \in [Proc -> Call] /\ CallOK'
    BY <1>12, ReturnType DEF ReadFails, Error
  <2> QED
    BY <1>12, <1>a, <2>1 DEF ReadFails, TypeInv, TypeOK, store, history, WellFormed
<1>13. ASSUME NEW p \in Proc, WriteFails(p) PROVE TypeInv'
  <2>1. call' \in [Proc -> Call] /\ CallOK'
    <3>1. Saving(p) /\ call[p].kind \in Kind
      BY <1>13, <1>a DEF WriteFails, Saving, SavePhase, CallOK, Fits
    <3>2. \/ Return(p, "nil", NoUser)
          \/ \E pc \in SavePhase, kind \in Kind : Goto(p, pc, kind)
      BY <1>13, <3>1 DEF WriteFails, AfterRemove, AfterPut, SavePhase, Kind
    <3> QED
      BY <3>1, <3>2, GotoType, ReturnType DEF Error
  <2> QED
    BY <1>13, <1>a, <2>1 DEF WriteFails, TypeInv, TypeOK, store, WellFormed
<1>14. ASSUME Crash PROVE TypeInv'
  <2>1. call' \in [Proc -> Call] /\ CallOK'
    BY <1>14, IdleType DEF Crash, CallOK, Fits, Idle, SavePhase
  <2>2. interrupted' \in User \cup {NoUser}
    <3>. DEFINE cut  == {call[p].user : p \in {q \in Proc : Writing(q)}}
                torn == cut \cup ({interrupted} \ {NoUser})
    <3>1. torn \subseteq User
      BY <1>a DEF Writing, CallOK, Fits, SavePhase, TypeOK
    <3>2. torn # {} => (CHOOSE u \in torn : TRUE) \in torn
      OBVIOUS
    <3> QED
      BY <1>14, <1>a, <3>1, <3>2 DEF Crash, TypeOK
  <2>3. /\ table' \in [UserID -> User \cup {NoUser}] /\ WellFormed(table')
        /\ index' \in [Kind -> [Key -> UserID \cup {Empty}]]
    BY <1>14, <1>a DEF Crash, TypeOK, store, EmptyTable, WellFormed, NoUser
  <2>4. suspect' \in BOOLEAN
    BY <1>14 DEF Crash
  <2> QED
    BY <1>14, <1>a, <2>1, <2>2, <2>3, <2>4 DEF Crash, TypeInv, TypeOK, WellFormed
<1> QED
  <2>1. ASSUME NEW p \in Proc, Invoke(p) PROVE TypeInv'
    BY <2>1, <1>1, <1>7, <1>8, <1>9 DEF Invoke, Kind, Key
  <2>2. ASSUME NEW p \in Proc, Step(p) PROVE TypeInv'
    BY <2>2, <1>2, <1>3, <1>4, <1>5, <1>6, <1>10, <1>11 DEF Step
  <2>3. ASSUME NEW p \in Proc, Fail(p) PROVE TypeInv'
    BY <2>3, <1>12, <1>13 DEF Fail
  <2> QED
    BY <1>0, <1>14, <2>1, <2>2, <2>3 DEF Next

(* Types are preserved, a stored record is never half filled in, and a call *)
(* never goes to the indexes or the table with anything that is not a       *)
(* record, a key or an id.                                                  *)
THEOREM TypeCorrect == Spec => []TypeOK
<1>1. TypeInv => TypeOK
  BY DEF TypeInv
<1> QED
  BY InitType, NextType, <1>1, PTL DEF Spec
-----------------------------------------------------------------------------
(* An action of one goroutine leaves the storage calls of the others alone. *)
LEMMA OthersStay ==
  ASSUME TypeInv, NEW p \in Proc, NEW q \in Proc, p # q, Invoke(q) \/ Step(q) \/ Fail(q)
  PROVE  call'[p] = call[p]
<1>. call \in [Proc -> Call]
  BY DEF TypeInv, TypeOK
<1>1. CASE Invoke(q)
  BY <1>1 DEF Invoke, Save, Get, FindBy, TakeAnswer, Return
<1>2. CASE CheckTaken(q) \/ LookupOld(q)
  BY <1>2 DEF CheckTaken, LookupOld, Return, Goto, TypeInv, CallOK, Fits, SavePhase, Kind
<1>3. CASE RemoveOld(q) \/ PutNew(q) \/ SetUser(q)
  BY <1>3 DEF RemoveOld, AfterRemove, PutNew, AfterPut, SetUser, Return, Goto,
              TypeInv, CallOK, Fits, SavePhase, Kind
<1>4. CASE Lookup(q) \/ Fetch(q)
  BY <1>4 DEF Lookup, Fetch, Return
<1>5. CASE Fail(q)
  BY <1>5 DEF Fail, ReadFails, WriteFails, AfterRemove, AfterPut, Return, Goto,
              TypeInv, CallOK, Fits, SavePhase, Kind
<1> QED
  BY <1>1, <1>2, <1>3, <1>4, <1>5 DEF Step

LEMMA RefusalStep ==
  ASSUME TypeInv, [Next]_vars, NEW p \in Proc,
         Saving(p), call'[p].pc = "done", call'[p].err # "nil"
  PROVE  call[p].pc \in {"check", "old"} /\ UNCHANGED store
<1>. /\ call \in [Proc -> Call] /\ call[p] \in Call /\ call[p].kind \in Kind
     /\ ~Ready(p) /\ call[p].pc # "done" /\ call'[p] # call[p]
  BY DEF TypeInv, TypeOK, CallOK, Fits, Saving, SavePhase, Ready
<1>1. CASE UNCHANGED vars
  BY <1>1 DEF vars
<1>2. CASE Crash
  BY <1>2 DEF Crash, Idle
<1>3. CASE \E q \in Proc : Invoke(q) \/ Step(q) \/ Fail(q)
  <2>1. Invoke(p) \/ Step(p) \/ Fail(p)
    BY <1>3, OthersStay
  <2>2. ~Invoke(p) /\ ~Lookup(p) /\ ~Fetch(p)
    BY DEF Invoke, Save, Get, FindBy, TakeAnswer, Lookup, Fetch, Saving, SavePhase
  <2>3. CASE CheckTaken(p) \/ LookupOld(p)
    BY <2>3 DEF CheckTaken, LookupOld
  <2>4. CASE RemoveOld(p)
    <3>1. \E pc \in {"remove", "put"}, k \in Kind : Goto(p, pc, k)
      BY <2>4 DEF RemoveOld, AfterRemove, Kind
    <3> QED
      BY <3>1 DEF Goto, Call
  <2>5. CASE PutNew(p)
    <3>1. \E pc \in {"put", "set"}, k \in Kind : Goto(p, pc, k)
      BY <2>5 DEF PutNew, AfterPut, Kind
    <3> QED
      BY <3>1 DEF Goto, Call
  <2>6. CASE SetUser(p)
    BY <2>6 DEF SetUser, Return, Idle
  <2>7. CASE ReadFails(p)
    BY <2>7 DEF ReadFails, Saving, SavePhase
  <2>8. CASE WriteFails(p)
    <3>1. \/ \E pc \in {"remove", "put", "set"}, k \in Kind : Goto(p, pc, k)
          \/ Return(p, "nil", NoUser)
      BY <2>8 DEF WriteFails, AfterRemove, AfterPut, Kind
    <3>2. ASSUME NEW pc \in {"remove", "put", "set"}, NEW k \in Kind, Goto(p, pc, k)
          PROVE  call'[p].pc # "done"
      BY <3>2 DEF Goto, Call
    <3> QED
      BY <3>1, <3>2 DEF Return, Idle
  <2> QED
    BY <2>1, <2>2, <2>3, <2>4, <2>5, <2>6, <2>7, <2>8 DEF Step, Fail
<1> QED
  BY <1>1, <1>2, <1>3 DEF Next

(* Save refuses before its first write: a call that answers an error has     *)
(* changed neither an index nor the table, whatever the other callers do.   *)
THEOREM RefusalsWriteNothing == Spec => RefusedSaveWritesNothing
<1>1. TypeInv /\ [Next]_vars =>
        [\A p \in Proc :
           Saving(p) /\ call'[p].pc = "done" /\ call'[p].err # "nil"
             => call[p].pc \in {"check", "old"} /\ UNCHANGED store]_vars
  BY RefusalStep
<1> QED
  BY InitType, NextType, <1>1, PTL DEF Spec, RefusedSaveWritesNothing
-----------------------------------------------------------------------------
(* What the callers of the storage may rely on, step by step.  A step of a   *)
(* Save keeps its argument until the Save answers.                          *)
LEMMA GotoMoves ==
  ASSUME TypeInv, NEW p \in Proc, NEW pc \in SavePhase, NEW k, Goto(p, pc, k)
  PROVE  /\ call'[p].pc = pc /\ call'[p].kind = k /\ call'[p].user = call[p].user
         /\ call'[p].old = call[p].old /\ Saving(p)'
BY DEF Goto, Saving, TypeInv, TypeOK, Call

LEMMA ReturnMoves ==
  ASSUME TypeInv, NEW p \in Proc, NEW err, NEW user, Return(p, err, user)
  PROVE  /\ call'[p].pc = "done" /\ call'[p].err = err /\ call'[p].user = user
         /\ call'[p].old = NoUser
BY DEF Return, Idle, TypeInv, TypeOK

LEMMA SaveMoves ==
  ASSUME TypeInv, NEW p \in Proc, Saving(p), Step(p) \/ Fail(p)
  PROVE  \/ /\ Saving(p)' /\ call'[p].user = call[p].user
            /\ call'[p].old \in {call[p].old, table[call[p].user.id]}
         \/ call'[p].pc = "done" /\ call'[p].user = NoUser /\ call'[p].old = NoUser
<1>. DEFINE Goal == \/ /\ Saving(p)' /\ call'[p].user = call[p].user
                       /\ call'[p].old \in {call[p].old, table[call[p].user.id]}
                    \/ call'[p].pc = "done" /\ call'[p].user = NoUser /\ call'[p].old = NoUser
<1>. call \in [Proc -> Call] /\ call[p] \in Call /\ call[p].kind \in Kind
  BY DEF TypeInv, TypeOK, CallOK, Fits, Saving
<1>a. ASSUME NEW pc \in SavePhase, NEW k, Goto(p, pc, k) PROVE Goal
  BY <1>a, GotoMoves DEF SavePhase
<1>b. ASSUME NEW err, Return(p, err, NoUser) PROVE Goal
  BY <1>b, ReturnMoves
<1>1. CASE CheckTaken(p)
  <2>1. \/ \E err : Return(p, err, NoUser)
        \/ \E pc \in SavePhase : \E k : Goto(p, pc, k)
    BY <1>1 DEF CheckTaken, SavePhase, Kind
  <2> QED
    BY <2>1, <1>a, <1>b
<1>2. CASE LookupOld(p)
  BY <1>2 DEF LookupOld, Saving, SavePhase, Call
<1>3. CASE RemoveOld(p)
  <2>1. \E pc \in SavePhase : \E k : Goto(p, pc, k)
    BY <1>3 DEF RemoveOld, AfterRemove, SavePhase, Kind
  <2> QED
    BY <2>1, <1>a
<1>4. CASE PutNew(p)
  <2>1. \E pc \in SavePhase : \E k : Goto(p, pc, k)
    BY <1>4 DEF PutNew, AfterPut, SavePhase, Kind
  <2> QED
    BY <2>1, <1>a
<1>5. CASE SetUser(p)
  BY <1>5, <1>b DEF SetUser
<1>6. CASE ReadFails(p)
  BY <1>6, <1>b DEF ReadFails
<1>7. CASE WriteFails(p)
  <2>1. \/ Return(p, "nil", NoUser)
        \/ \E pc \in SavePhase : \E k : Goto(p, pc, k)
    BY <1>7 DEF WriteFails, AfterRemove, AfterPut, SavePhase, Kind
  <2> QED
    BY <2>1, <1>a, <1>b
<1>8. ~Lookup(p) /\ ~Fetch(p)
  BY DEF Lookup, Fetch, Saving, SavePhase
<1> QED
  BY <1>1, <1>2, <1>3, <1>4, <1>5, <1>6, <1>7, <1>8 DEF Step, Fail

(* A find reads an id from the index, then the record of that id.           *)
LEMMA FindMoves ==
  ASSUME TypeInv, NEW p \in Proc, ~Saving(p), Step(p) \/ Fail(p)
  PROVE  /\ UNCHANGED store
         /\ call'[p].old \in {call[p].old, NoUser}
         /\ \/ /\ call[p].pc = "lookup" /\ call'[p].pc = "fetch"
               /\ call'[p].id = index[call[p].kind][call[p].key]
               /\ call'[p].id # Empty /\ call'[p].user = call[p].user
            \/ /\ call[p].pc = "fetch" /\ call'[p].pc = "done" /\ call'[p].err = "nil"
               /\ call'[p].user = table[call[p].id] /\ call'[p].user # NoUser
            \/ /\ call[p].pc \in {"lookup", "fetch"} /\ call'[p].pc = "done"
               /\ call'[p].user = NoUser
               /\ \/ call'[p].err = "UserNotFound"
                  \/ call'[p].err = "internal" /\ faults' = faults + 1
<1>. call \in [Proc -> Call] /\ call[p] \in Call
  BY DEF TypeInv, TypeOK
<1>1. CASE Lookup(p)
  <2>1. CASE index[call[p].kind][call[p].key] = Empty
    BY <1>1, <2>1, ReturnMoves DEF Lookup
  <2>2. CASE index[call[p].kind][call[p].key] # Empty
    BY <1>1, <2>2 DEF Lookup, Call
  <2> QED
    BY <1>1, <2>1, <2>2
<1>2. CASE Fetch(p)
  BY <1>2, ReturnMoves DEF Fetch
<1>3. CASE ReadFails(p)
  <2>1. call[p].pc \in {"lookup", "fetch"} /\ Return(p, "internal", NoUser)
    BY <1>3 DEF ReadFails, Saving, SavePhase
  <2> QED
    BY <1>3, <2>1, ReturnMoves DEF ReadFails
<1>4. /\ ~CheckTaken(p) /\ ~LookupOld(p) /\ ~RemoveOld(p) /\ ~PutNew(p) /\ ~SetUser(p)
      /\ ~WriteFails(p)
  BY DEF CheckTaken, LookupOld, RemoveOld, PutNew, SetUser, WriteFails, Saving, SavePhase
<1> QED
  BY <1>1, <1>2, <1>3, <1>4 DEF Step, Fail

(* What a step of a Save of p may write: its user's record, and an entry of  *)
(* an index for one of its user's keys; else it removes entries.            *)
LEMMA SaveWrites ==
  ASSUME TypeInv, NEW p \in Proc, Saving(p), Step(p) \/ Fail(p)
  PROVE  /\ \A id \in UserID :
              table'[id] = table[id] \/ (id = call[p].user.id /\ table'[id] = Encoded(call[p].user))
         /\ \A k \in Kind, key \in Key :
              \/ index'[k][key] \in {index[k][key], Empty}
              \/ index'[k][key] = call[p].user.id /\ key = call[p].user[k]
<1>. /\ call[p].user \in User /\ call[p].kind \in Kind
     /\ table \in [UserID -> User \cup {NoUser}]
     /\ index \in [Kind -> Index]
  BY DEF TypeInv, TypeOK, CallOK, Fits, Saving, Index
<1>1. CASE CheckTaken(p) \/ LookupOld(p) \/ Lookup(p) \/ Fetch(p) \/ Fail(p)
  BY <1>1 DEF CheckTaken, LookupOld, Lookup, Fetch, Fail, ReadFails, WriteFails, store
<1>2. CASE RemoveOld(p)
  <2>1. UNCHANGED table
    BY <1>2 DEF RemoveOld
  <2>2. ASSUME NEW idx \in Index, NEW old, NEW key \in Key
        PROVE  Remove(idx, old)[key] \in {idx[key], Empty}
    BY DriverAssumption DEF Remove, LocalRemove, RedisRemove, EtcdRemove, Index
  <2>3. ASSUME NEW k \in Kind, NEW key \in Key
        PROVE  index'[k][key] \in {index[k][key], Empty}
    <3>1. CASE call[p].old[call[p].kind] = Empty \/ k # call[p].kind
      BY <1>2, <3>1 DEF RemoveOld
    <3>2. CASE call[p].old[call[p].kind] # Empty /\ k = call[p].kind
      <4>1. index'[k] = Remove(index[k], call[p].old[k])
        BY <1>2, <3>2 DEF RemoveOld
      <4> QED
        BY <4>1, <2>2
    <3> QED
      BY <3>1, <3>2
  <2> QED
    BY <2>1, <2>3
<1>3. CASE PutNew(p)
  <2>1. UNCHANGED table
    BY <1>3 DEF PutNew
  <2>2. ASSUME NEW idx \in Index, NEW new, NEW id, NEW key \in Key
        PROVE  Put(idx, new, id)[key] = idx[key] \/ (Put(idx, new, id)[key] = id /\ key = new)
    BY DriverAssumption DEF Put, LocalPut, RedisPut, EtcdPut, Index
  <2>3. ASSUME NEW k \in Kind, NEW key \in Key
        PROVE  \/ index'[k][key] = index[k][key]
               \/ index'[k][key] = call[p].user.id /\ key = call[p].user[k]
    <3>1. CASE call[p].user[call[p].kind] = Empty \/ k # call[p].kind
      BY <1>3, <3>1 DEF PutNew
    <3>2. CASE call[p].user[call[p].kind] # Empty /\ k = call[p].kind
      <4>1. index'[k] = Put(index[k], call[p].user[k], call[p].user.id)
        BY <1>3, <3>2 DEF PutNew
      <4> QED
        BY <4>1, <2>2
    <3> QED
      BY <3>1, <3>2
  <2> QED
    BY <2>1, <2>3
<1>4. CASE SetUser(p)
  <2>1. UNCHANGED index /\ table' = [table EXCEPT ![call[p].user.id] = Encoded(call[p].user)]
    BY <1>4 DEF SetUser, SetRecord
  <2> QED
    BY <2>1
<1> QED
  BY <1>1, <1>2, <1>3, <1>4 DEF Step

(* A Save answers nil once it has written its record, unless the driver     *)
(* failed; it answers no error of an argument, and "internal" only for a    *)
(* driver that failed.                                                      *)
LEMMA SaveAnswers ==
  ASSUME TypeInv, NEW p \in Proc, Saving(p), Step(p) \/ Fail(p), call'[p].pc = "done"
  PROVE  \/ call'[p].err = "nil" /\ table'[call[p].user.id] = Encoded(call[p].user)
         \/ call'[p].err \in {"EmailAlreadyTaken", "LoginNameAlreadyTaken"}
         \/ call'[p].err \in {"nil", "internal"} /\ faults' = faults + 1
<1>. /\ call[p].user \in User /\ call[p].kind \in Kind /\ call[p] \in Call
     /\ table \in [UserID -> User \cup {NoUser}] /\ call[p].user.id \in UserID
  BY DEF TypeInv, TypeOK, CallOK, Fits, Saving, User
<1>a. ASSUME NEW pc \in SavePhase, NEW k, Goto(p, pc, k) PROVE FALSE
  BY <1>a, GotoMoves DEF SavePhase
<1>1. CASE CheckTaken(p)
  <2>1. CASE TakenByOtherUser(call[p].user, call[p].kind)
    BY <1>1, <2>1, ReturnMoves DEF CheckTaken, TakenError
  <2>2. CASE ~TakenByOtherUser(call[p].user, call[p].kind)
    BY <1>1, <2>2, <1>a DEF CheckTaken, SavePhase, Kind
  <2> QED
    BY <2>1, <2>2
<1>2. CASE LookupOld(p)
  BY <1>2 DEF LookupOld, TypeInv, TypeOK, Call
<1>3. CASE RemoveOld(p)
  BY <1>3, <1>a DEF RemoveOld, AfterRemove, SavePhase, Kind
<1>4. CASE PutNew(p)
  BY <1>4, <1>a DEF PutNew, AfterPut, SavePhase, Kind
<1>5. CASE SetUser(p)
  BY <1>5, ReturnMoves DEF SetUser, SetRecord
<1>6. CASE ReadFails(p)
  BY <1>6, ReturnMoves DEF ReadFails
<1>7. CASE WriteFails(p)
  <2>1. \/ Return(p, "nil", NoUser)
        \/ \E pc \in SavePhase : \E k : Goto(p, pc, k)
    BY <1>7 DEF WriteFails, AfterRemove, AfterPut, SavePhase, Kind
  <2> QED
    BY <1>7, <2>1, <1>a, ReturnMoves DEF WriteFails
<1>8. ~Lookup(p) /\ ~Fetch(p)
  BY DEF Lookup, Fetch, Saving, SavePhase
<1> QED
  BY <1>1, <1>2, <1>3, <1>4, <1>5, <1>6, <1>7, <1>8 DEF Step, Fail

(* A Save step by step, while no driver call fails: the record is written    *)
(* last, what was read of the user is kept, and an index is cleared by      *)
(* taking the old key out.                                                  *)
LEMMA SavePhases ==
  ASSUME TypeInv, NEW p \in Proc, Saving(p), Step(p)
  PROVE  \/ /\ Saving(p)' /\ call'[p].user = call[p].user /\ UNCHANGED table
            /\ Writing(p)' =>
                 \/ Writing(p) /\ call'[p].old = call[p].old
                 \/ call'[p].old = table[call[p].user.id]
            /\ \A k \in Kind : Cleared(p, k)' =>
                 \/ Cleared(p, k)
                 \/ /\ Writing(p)
                    /\ \A key \in Key :
                         index'[k][key] = Empty
                           \/ (index'[k][key] = index[k][key] /\ key # call[p].old[k])
         \/ /\ call'[p].pc = "done" /\ UNCHANGED index
            /\ \/ call'[p].err # "nil" /\ UNCHANGED table
               \/ /\ call[p].pc = "set" /\ call'[p].err = "nil"
                  /\ table' = SetRecord(table, call[p].user.id, Encoded(call[p].user))
<1>. /\ call \in [Proc -> Call] /\ call[p] \in Call /\ call[p].kind \in Kind
     /\ call[p].old \in User \cup {NoUser} /\ index \in [Kind -> Index]
  BY DEF TypeInv, TypeOK, CallOK, Fits, Saving, Index, Call
<1>. Empty \notin Key
  BY EmptyAssumption
<1>1. CASE CheckTaken(p)
  <2>1. CASE TakenByOtherUser(call[p].user, call[p].kind)
    <3>1. Return(p, TakenError(call[p].kind), NoUser) /\ UNCHANGED <<table, index>>
      BY <1>1, <2>1 DEF CheckTaken, store
    <3> QED
      BY <3>1, ReturnMoves DEF TakenError
  <2>2. CASE ~TakenByOtherUser(call[p].user, call[p].kind)
    <3>1. UNCHANGED <<table, index>> /\ call'[p].user = call[p].user
          /\ call'[p].pc \in {"check", "old"}
      <4>1. \E pc \in {"check", "old"} : \E k : Goto(p, pc, k)
        BY <1>1, <2>2 DEF CheckTaken, Kind
      <4> QED
        BY <1>1, <4>1, GotoMoves DEF CheckTaken, SavePhase, store
    <3> QED
      BY <3>1 DEF Saving, SavePhase, Writing, Cleared
  <2> QED
    BY <2>1, <2>2
<1>2. CASE LookupOld(p)
  <2>1. UNCHANGED <<table, index>> /\ call'[p].user = call[p].user
        /\ call'[p].pc = "remove" /\ call'[p].kind = "email"
        /\ call'[p].old = table[call[p].user.id]
    BY <1>2 DEF LookupOld, store, Call
  <2>2. \A k \in Kind : ~Cleared(p, k)'
    BY <2>1 DEF Cleared, Before
  <2> QED
    BY <2>1, <2>2 DEF Saving, SavePhase
<1>3. CASE RemoveOld(p)
  <2>1. UNCHANGED table /\ call'[p].user = call[p].user /\ call'[p].old = call[p].old
        /\ call[p].pc = "remove"
        /\ \/ call[p].kind = "email" /\ call'[p].pc = "remove" /\ call'[p].kind = "login"
           \/ call[p].kind = "login" /\ call'[p].pc = "remove" /\ call'[p].kind = "token"
           \/ call[p].kind = "token" /\ call'[p].pc = "put"
    <3>1. \/ call[p].kind = "email" /\ Goto(p, "remove", "login")
          \/ call[p].kind = "login" /\ Goto(p, "remove", "token")
          \/ call[p].kind = "token" /\ Goto(p, "put", "email")
      BY <1>3 DEF RemoveOld, AfterRemove, Kind
    <3> QED
      BY <1>3, <3>1, GotoMoves DEF RemoveOld, SavePhase
  <2>2. \A k \in Kind : Cleared(p, k)' => Cleared(p, k) \/ k = call[p].kind
    BY <2>1 DEF Cleared, Before, Kind
  <2>3. ASSUME NEW key \in Key
        PROVE  LET k == call[p].kind
               IN  index'[k][key] = Empty
                     \/ (index'[k][key] = index[k][key] /\ key # call[p].old[k])
    <3>1. CASE call[p].old[call[p].kind] = Empty
      BY <1>3, <3>1 DEF RemoveOld
    <3>2. CASE call[p].old[call[p].kind] # Empty
      <4>. DEFINE k == call[p].kind
      <4>1. index'[k] = Remove(index[k], call[p].old[k]) /\ index[k] \in Index
        BY <1>3, <3>2 DEF RemoveOld
      <4>2. \A idx \in Index : \A old :
                Remove(idx, old)[key] = IF key = old THEN Empty ELSE idx[key]
        BY DriverAssumption DEF Remove, LocalRemove, RedisRemove, EtcdRemove, Index
      <4> QED
        BY <4>1, <4>2
    <3> QED
      BY <3>1, <3>2
  <2> QED
    BY <2>1, <2>2, <2>3 DEF Saving, SavePhase, Writing
<1>4. CASE PutNew(p)
  <2>1. UNCHANGED table /\ call'[p].user = call[p].user /\ call'[p].old = call[p].old
        /\ call[p].pc = "put" /\ call'[p].pc \in {"put", "set"}
    <3>1. \E pc \in {"put", "set"} : \E k : Goto(p, pc, k)
      BY <1>4 DEF PutNew, AfterPut, Kind
    <3> QED
      BY <1>4, <3>1, GotoMoves DEF PutNew, SavePhase
  <2> QED
    BY <2>1 DEF Saving, SavePhase, Writing, Cleared
<1>5. CASE SetUser(p)
  <2>1. Return(p, "nil", NoUser)
    BY <1>5 DEF SetUser
  <2> QED
    BY <1>5, <2>1, ReturnMoves DEF SetUser
<1>6. ~Lookup(p) /\ ~Fetch(p)
  BY DEF Lookup, Fetch, Saving, SavePhase
<1> QED
  BY <1>1, <1>2, <1>3, <1>4, <1>5, <1>6 DEF Step
=============================================================================
