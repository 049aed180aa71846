----------------------- MODULE KeyValueStorageInvProofs -----------------------
(***************************************************************************)
(* LookupsExact and KeysUnique hold in every state of KeyValueStorage, for  *)
(* every set of goroutines, users and keys, every driver and any number of  *)
(* crashes: StorageInv is inductive.                                        *)
(***************************************************************************)
EXTENDS KeyValueStorageProofs

LEMMA RecordKeys ==
  ASSUME NEW user \in User \cup {NoUser}, NEW k \in Kind
  PROVE  user[k] \in Key \cup {Empty}
<1>1. CASE user \in User
  BY <1>1 DEF User, Kind, Key
<1>2. CASE user = NoUser
  BY <1>2 DEF NoUser, Kind
<1> QED
  BY <1>1, <1>2

LEMMA NoUserKeys == ASSUME NEW k \in Kind PROVE NoUser[k] = Empty
BY DEF NoUser, Kind

(* The empty string is neither an id nor a key.                             *)
LEMMA NotEmpty == Empty \notin UserID /\ Empty \notin Key
BY EmptyAssumption

(* The types, as the steps below use them.                                  *)
LEMMA Types ==
  ASSUME TypeInv
  PROVE  /\ \A id \in UserID : table[id] \in User \cup {NoUser}
         /\ \A id \in UserID, k \in Kind : table[id][k] \in Key \cup {Empty}
         /\ \A p \in Proc : Saving(p) =>
              /\ call[p].user \in User /\ call[p].user.id \in UserID
              /\ call[p].kind \in Kind
              /\ \A k \in Kind : call[p].user[k] \in Key \cup {Empty}
         /\ interrupted # NoUser =>
              /\ interrupted \in User /\ interrupted.id \in UserID
              /\ \A k \in Kind : interrupted[k] \in Key \cup {Empty}
         /\ index \in [Kind -> Index]
         /\ call \in [Proc -> Call]
<1>1. \A u \in User : u.id \in UserID
  BY DEF User
<1>2. \A p \in Proc : Saving(p) => call[p].user \in User /\ call[p].kind \in Kind
  BY DEF TypeInv, CallOK, Fits, Saving
<1> QED
  BY <1>1, <1>2, RecordKeys DEF TypeInv, TypeOK, Index

(* A Save of another user than the one a crash cut short.                   *)
LEMMA OtherSave ==
  ASSUME TypeInv, StorageInv, ~suspect, interrupted # NoUser,
         NEW p \in Proc, Saving(p), call[p].user # interrupted
  PROVE  /\ call[p].user.id # interrupted.id
         /\ \A k \in Kind : call[p].user[k] # Empty =>
              call[p].user[k] \notin {table[interrupted.id][k], interrupted[k]}
BY DEF StorageInv, Apart, Claims
-----------------------------------------------------------------------------
(* A step that writes nothing and ends, or does not touch, the Save of p    *)
(* before it wrote anything.                                                *)
LEMMA QuietStep ==
  ASSUME TypeInv, StorageInv, NEW p \in Proc,
         UNCHANGED store, UNCHANGED history,
         \A q \in Proc \ {p} : call'[q] = call[q],
         ~Saving(p)', ~Writing(p), ~Writing(p)'
  PROVE  StorageInv'
<1>. SUFFICES ASSUME ~suspect PROVE StorageInv'
  BY DEF StorageInv, history
<1>. USE DEF store, history
<1>1. Separate'
  BY DEF StorageInv, Separate, Saving
<1>2. OldKnown'
  BY DEF StorageInv, OldKnown, Writing
<1>3. NotTaken'
  BY DEF StorageInv, NotTaken, Checked, Saving
<1>4. SettledExact'
  <2>. SUFFICES ASSUME NEW id \in UserID, id # interrupted.id, Settled(id)'
                PROVE  Exact(id)'
    BY DEF SettledExact
  <2>1. CASE Settled(id)
    BY <2>1 DEF StorageInv, SettledExact, Exact
  <2>2. CASE ~Settled(id)
    <3>1. Saving(p) /\ call[p].user.id = id
      BY <2>2 DEF Settled, Saving
    <3>2. ExactFor(p)
      BY <3>1 DEF StorageInv, SavingExact
    <3>3. \A k \in Kind : ~Entered(p, k) /\ ~Cleared(p, k)
      BY DEF Entered, Cleared, Writing
    <3>4. Exact(id)
      BY <3>1, <3>2, <3>3 DEF ExactFor, Exact, Holds
    <3> QED
      BY <3>4 DEF Exact
  <2> QED
    BY <2>1, <2>2
<1>5. SavingExact'
  BY DEF StorageInv, SavingExact, ExactFor, Holds, Entered, Cleared, Saving
<1>6. TornOK'
  BY DEF StorageInv, TornOK, TornKeys, Repairing, Entered, Cleared, Saving
<1>7. Apart' /\ Faithful'
  BY DEF StorageInv, Apart, Faithful, Claims, Saving
<1> QED
  BY <1>1, <1>2, <1>3, <1>4, <1>5, <1>6, <1>7 DEF StorageInv

(* A Save moves on without having written: past a check, or with oldUser.   *)
LEMMA AdvanceStep ==
  ASSUME TypeInv, StorageInv, NEW p \in Proc,
         UNCHANGED store, UNCHANGED history,
         \A q \in Proc \ {p} : call'[q] = call[q],
         Saving(p), Saving(p)', call'[p].user = call[p].user,
         \A k \in Kind : ~Cleared(p, k) /\ ~Entered(p, k) /\ ~Cleared(p, k)' /\ ~Entered(p, k)',
         Writing(p)' => call'[p].old = table[call[p].user.id],
         \A k \in Kind : Checked(p, k)' /\ ~Checked(p, k) => ~TakenByOtherUser(call[p].user, k)
  PROVE  StorageInv'
<1>. SUFFICES ASSUME ~suspect PROVE StorageInv'
  BY DEF StorageInv, history
<1>. USE DEF store, history
<1>1. Separate'
  BY DEF StorageInv, Separate, Saving
<1>2. OldKnown'
  BY DEF StorageInv, OldKnown, Writing
<1>3. NotTaken'
  <2>. SUFFICES ASSUME NEW q \in Proc, NEW k \in Kind, Checked(q, k)', call'[q].user[k] # Empty
                PROVE  index[k][call'[q].user[k]] \in {Empty, call'[q].user.id}
    BY DEF NotTaken
  <2>1. CASE q # p
    BY <2>1 DEF StorageInv, NotTaken, Checked, Saving
  <2>2. CASE q = p /\ Checked(p, k)
    BY <2>2 DEF StorageInv, NotTaken
  <2>3. CASE q = p /\ ~Checked(p, k)
    BY <2>3 DEF TakenByOtherUser
  <2> QED
    BY <2>1, <2>2, <2>3
<1>4. SettledExact'
  <2>1. \A id \in UserID : Settled(id)' => Settled(id)
    BY DEF Settled, Saving
  <2> QED
    BY <2>1 DEF StorageInv, SettledExact, Exact
<1>5. SavingExact'
  <2>. SUFFICES ASSUME NEW q \in Proc, Saving(q)', call'[q].user.id # interrupted.id
                PROVE  ExactFor(q)'
    BY DEF SavingExact
  <2>1. CASE q # p
    BY <2>1 DEF StorageInv, SavingExact, ExactFor, Holds, Entered, Cleared, Saving
  <2>2. CASE q = p
    <3>1. ExactFor(p)
      BY <2>2 DEF StorageInv, SavingExact
    <3> QED
      BY <2>2, <3>1 DEF ExactFor, Holds
  <2> QED
    BY <2>1, <2>2
<1>6. TornOK'
  <2>. SUFFICES ASSUME interrupted # NoUser
                PROVE  TornKeys' /\ \A q \in Proc : Saving(q)' /\ call'[q].user = interrupted
                                                      => Repairing(q)'
    BY DEF TornOK
  <2>1. TornKeys'
    BY DEF StorageInv, TornOK, TornKeys
  <2>2. ASSUME NEW q \in Proc, Saving(q)', call'[q].user = interrupted PROVE Repairing(q)'
    <3>1. CASE q # p
      BY <2>2, <3>1 DEF StorageInv, TornOK, Repairing, Entered, Cleared, Saving
    <3>2. CASE q = p
      BY <2>2, <3>2 DEF StorageInv, TornOK, Repairing
    <3> QED
      BY <3>1, <3>2
  <2> QED
    BY <2>1, <2>2
<1>7. Apart' /\ Faithful'
  <2>1. \A q \in Proc : Saving(q)' => Saving(q) /\ call'[q].user = call[q].user
    BY DEF Saving
  <2> QED
    BY <2>1 DEF StorageInv, Apart, Faithful, Claims
<1> QED
  BY <1>1, <1>2, <1>3, <1>4, <1>5, <1>6, <1>7 DEF StorageInv

(* A Save begins: alone with its user and its keys, or suspect is set.      *)
LEMMA BeginStep ==
  ASSUME TypeInv, StorageInv, NEW p \in Proc, NEW user \in User, Save(p, user), Valid(user)
  PROVE  StorageInv'
<1>1. /\ call' = [call EXCEPT ![p] = [Idle EXCEPT !.pc = "check", !.kind = "email", !.user = user]]
      /\ suspect' = (suspect \/ Overlaps(user) \/ MeetsTorn(user) \/ Encoded(user) # user)
      /\ UNCHANGED <<table, index, interrupted>>
      /\ Ready(p)
  BY DEF Save, store
<1>. SUFFICES ASSUME ~suspect, ~Overlaps(user), ~MeetsTorn(user), Encoded(user) = user
              PROVE  StorageInv'
  BY <1>1 DEF StorageInv
<1>2. /\ \A q \in Proc \ {p} : call'[q] = call[q]
      /\ call'[p].user = user /\ call'[p].pc = "check" /\ call'[p].kind = "email"
      /\ ~Saving(p) /\ Saving(p)' /\ ~Writing(p)'
      /\ \A k \in Kind : ~Checked(p, k)' /\ ~Cleared(p, k)' /\ ~Entered(p, k)'
  BY <1>1, Types
     DEF Idle, Ready, Saving, SavePhase, Writing, Checked, Cleared, Entered, Before
<1>3. Separate'
  <2>1. \A q \in Proc : Saving(q) => ~Claims(user, call[q].user) /\ ~Claims(call[q].user, user)
    BY DEF Overlaps, Claims
  <2> QED
    BY <1>2, <2>1 DEF StorageInv, Separate, Saving
<1>4. OldKnown'
  BY <1>1, <1>2 DEF StorageInv, OldKnown, Writing
<1>5. NotTaken'
  BY <1>1, <1>2 DEF StorageInv, NotTaken, Checked, Saving
<1>6. SettledExact'
  <2>1. \A id \in UserID : Settled(id)' => Settled(id)
    BY <1>2 DEF Settled, Saving
  <2> QED
    BY <1>1, <2>1 DEF StorageInv, SettledExact, Exact
<1>7. SavingExact'
  <2>. SUFFICES ASSUME NEW q \in Proc, Saving(q)', call'[q].user.id # interrupted.id
                PROVE  ExactFor(q)'
    BY <1>1 DEF SavingExact
  <2>1. CASE q # p
    BY <1>1, <1>2, <2>1 DEF StorageInv, SavingExact, ExactFor, Holds, Entered, Cleared, Saving
  <2>2. CASE q = p
    <3>1. Settled(user.id) /\ user.id \in UserID
      BY DEF Overlaps, Claims, Settled, User
    <3>2. Exact(user.id)
      BY <1>2, <2>2, <3>1 DEF StorageInv, SettledExact
    <3> QED
      BY <1>1, <1>2, <2>2, <3>2 DEF Exact, ExactFor, Holds
  <2> QED
    BY <2>1, <2>2
<1>8. TornOK'
  <2>. SUFFICES ASSUME interrupted # NoUser
                PROVE  TornKeys' /\ \A q \in Proc : Saving(q)' /\ call'[q].user = interrupted
                                                      => Repairing(q)'
    BY <1>1 DEF TornOK
  <2>1. TornKeys'
    BY <1>1 DEF StorageInv, TornOK, TornKeys
  <2>2. ASSUME NEW q \in Proc, Saving(q)', call'[q].user = interrupted PROVE Repairing(q)'
    <3>1. CASE q # p
      BY <1>1, <1>2, <2>2, <3>1 DEF StorageInv, TornOK, Repairing, Entered, Cleared, Saving
    <3>2. CASE q = p
      BY <1>1, <1>2, <2>2, <3>2 DEF Repairing
    <3> QED
      BY <3>1, <3>2
  <2> QED
    BY <2>1, <2>2
<1>9. Apart'
  <2>. SUFFICES ASSUME interrupted # NoUser, NEW q \in Proc, Saving(q)',
                       call'[q].user # interrupted
                PROVE  /\ ~Claims(call'[q].user, interrupted)
                       /\ ~Claims(call'[q].user, table[interrupted.id])
    BY <1>1 DEF Apart, Claims
  <2>1. CASE q = p
    BY <1>2, <2>1 DEF MeetsTorn
  <2>2. CASE q # p
    BY <1>2, <2>2 DEF StorageInv, Apart, Saving
  <2> QED
    BY <2>1, <2>2
<1>10. Faithful'
  BY <1>2 DEF StorageInv, Faithful, Saving
<1> QED
  BY <1>3, <1>4, <1>5, <1>6, <1>7, <1>8, <1>9, <1>10 DEF StorageInv
-----------------------------------------------------------------------------
(* Goto moves one call, and keeps what the call holds.                      *)
LEMMA GotoEffect ==
  ASSUME TypeInv, NEW p \in Proc, NEW pc, NEW kind, Goto(p, pc, kind)
  PROVE  /\ \A q \in Proc \ {p} : call'[q] = call[q]
         /\ call'[p].pc = pc /\ call'[p].kind = kind
         /\ call'[p].user = call[p].user /\ call'[p].old = call[p].old
<1>1. call \in [Proc -> Call] /\ call[p] \in Call
  BY DEF TypeInv, TypeOK
<1>2. call' = [call EXCEPT ![p] = [call[p] EXCEPT !.pc = pc, !.kind = kind]]
  BY <1>1 DEF Goto
<1> QED
  BY <1>1, <1>2 DEF Call

(* The key that a Save takes out of an index is its own, if anybody's.      *)
LEMMA OldKeyOwned ==
  ASSUME TypeInv, StorageInv, ~suspect, NEW p \in Proc, NEW k \in Kind,
         Saving(p), ~Cleared(p, k), ~Entered(p, k),
         table[call[p].user.id][k] # Empty
  PROVE  index[k][table[call[p].user.id][k]] \in {Empty, call[p].user.id}
<1>1. CASE call[p].user.id # interrupted.id
  BY <1>1, Types DEF StorageInv, SavingExact, ExactFor, Holds
<1>2. CASE call[p].user.id = interrupted.id
  <2>1. interrupted # NoUser
    BY <1>2, Types, NotEmpty DEF NoUser
  <2> QED
    BY <1>2, <2>1 DEF StorageInv, TornOK, TornKeys
<1> QED
  BY <1>1, <1>2

LEMMA RemoveStep ==
  ASSUME TypeInv, StorageInv, NEW p \in Proc, RemoveOld(p)
  PROVE  StorageInv'
<1>. SUFFICES ASSUME ~suspect PROVE StorageInv'
  BY DEF StorageInv, RemoveOld, history
<1>. DEFINE c   == call[p]
            id  == call[p].user.id
            k0  == call[p].kind
            old == table[id][k0]
<1>1. /\ Saving(p) /\ Writing(p) /\ c.pc = "remove" /\ k0 \in Kind /\ id \in UserID
      /\ c.old[k0] = old /\ old \in Key \cup {Empty}
      /\ UNCHANGED <<table, suspect, interrupted>>
  BY Types DEF RemoveOld, Saving, Writing, SavePhase, StorageInv, OldKnown, history
<1>2. \A k \in Kind, key \in Key :
        index'[k][key] = IF k = k0 /\ key = old THEN Empty ELSE index[k][key]
  BY <1>1, Types, NotEmpty, DriverAssumption
     DEF RemoveOld, Remove, LocalRemove, RedisRemove, EtcdRemove, Index
<1>3. /\ \A q \in Proc \ {p} : call'[q] = call[q]
      /\ call'[p].user = c.user /\ call'[p].old = c.old
      /\ Saving(p)' /\ Writing(p)'
      /\ \A k \in Kind : /\ Cleared(p, k)' <=> Cleared(p, k) \/ k = k0
                         /\ ~Entered(p, k) /\ ~Entered(p, k)'
                         /\ Checked(p, k)
  <2>1. \/ k0 = "email" /\ Goto(p, "remove", "login")
        \/ k0 = "login" /\ Goto(p, "remove", "token")
        \/ k0 = "token" /\ Goto(p, "put", "email")
    BY <1>1 DEF RemoveOld, AfterRemove, Kind
  <2> QED
    BY <1>1, <2>1, GotoEffect
       DEF Saving, Writing, SavePhase, Cleared, Entered, Checked, Before, Kind
<1>4. ~Cleared(p, k0)
  BY <1>1 DEF Cleared, Before, Kind
<1>5. old # Empty => index[k0][old] \in {Empty, id}
  BY <1>1, <1>3, <1>4, OldKeyOwned
<1>6. \A k \in Kind, key \in Key : index'[k][key] \in {Empty, index[k][key]}
  BY <1>2
<1>7. \A other \in UserID \ {id}, k \in Kind, key \in Key :
        index'[k][key] = other <=> index[k][key] = other
  BY <1>1, <1>2, <1>5, NotEmpty
<1>8. \A q \in Proc \ {p} : Saving(q) => call[q].user.id \in UserID \ {id}
  BY <1>1, Types DEF StorageInv, Separate, Claims
<1>a. Separate'
  BY <1>1, <1>3 DEF StorageInv, Separate, Saving
<1>b. OldKnown'
  BY <1>1, <1>3 DEF StorageInv, OldKnown, Writing
<1>c. NotTaken'
  <2>. SUFFICES ASSUME NEW q \in Proc, NEW k \in Kind, Checked(q, k)', call'[q].user[k] # Empty
                PROVE  index'[k][call'[q].user[k]] \in {Empty, call'[q].user.id}
    BY DEF NotTaken
  <2>1. Checked(q, k) /\ call'[q].user = call[q].user
    BY <1>3 DEF Checked, Saving
  <2>2. call[q].user[k] \in Key
    BY <2>1, Types DEF Checked
  <2> QED
    BY <1>6, <2>1, <2>2 DEF StorageInv, NotTaken
<1>d. SettledExact'
  <2>. SUFFICES ASSUME NEW other \in UserID, other # interrupted.id, Settled(other)'
                PROVE  Exact(other)'
    BY <1>1 DEF SettledExact
  <2>1. Settled(other) /\ other # id
    BY <1>1, <1>3 DEF Settled, Saving
  <2>2. Exact(other)
    BY <2>1 DEF StorageInv, SettledExact
  <2> QED
    BY <1>1, <1>7, <2>1, <2>2 DEF Exact
<1>e. SavingExact'
  <2>. SUFFICES ASSUME NEW q \in Proc, Saving(q)', call'[q].user.id # interrupted.id
                PROVE  ExactFor(q)'
    BY <1>1 DEF SavingExact
  <2>1. CASE q # p
    <3>1. ExactFor(q) /\ call'[q] = call[q] /\ call[q].user.id \in UserID \ {id}
      BY <1>3, <1>8, <2>1 DEF StorageInv, SavingExact, Saving
    <3>2. \A k \in Kind, key \in Key : Holds(q, k, key)' <=> Holds(q, k, key)
      BY <1>1, <3>1 DEF Holds, Entered, Cleared
    <3> QED
      BY <1>7, <3>1, <3>2 DEF ExactFor
  <2>2. CASE q = p
    <3>1. ExactFor(p)
      BY <1>1, <1>3, <2>2 DEF StorageInv, SavingExact
    <3>2. \A k \in Kind, key \in Key :
            index'[k][key] = id <=> ~Cleared(p, k)' /\ table[id][k] = key
      BY <1>1, <1>2, <1>3, <1>4, <3>1, NotEmpty DEF ExactFor, Holds
    <3> QED
      BY <1>1, <1>3, <2>2, <3>2 DEF ExactFor, Holds
  <2> QED
    BY <2>1, <2>2
<1>f. TornOK'
  <2>. SUFFICES ASSUME interrupted # NoUser
                PROVE  TornKeys' /\ \A q \in Proc : Saving(q)' /\ call'[q].user = interrupted
                                                      => Repairing(q)'
    BY <1>1 DEF TornOK
  <2>0. TornKeys /\ \A q \in Proc : Saving(q) /\ call[q].user = interrupted => Repairing(q)
    BY SMTT(60) DEF StorageInv, TornOK
  <2>1. CASE c.user = interrupted
    <3>1. interrupted = c.user /\ Repairing(p) /\ TornKeys
      BY <1>1, <2>0, <2>1
    <3>2. TornKeys'
      <4>. SUFFICES ASSUME NEW k \in Kind
                    PROVE  /\ \A key \in Key : index'[k][key] = id => key \in {table[id][k], c.user[k]}
                           /\ \A key \in {table[id][k], c.user[k]} :
                                key # Empty => index'[k][key] \in {Empty, id}
        BY <1>1, <3>1 DEF TornKeys
      <4>1. \A key \in {table[id][k], c.user[k]} : key # Empty => key \in Key
        BY <1>1, Types
      <4> QED
        BY <1>1, <1>6, <3>1, <4>1, NotEmpty, SMTT(60) DEF TornKeys
    <3>3. ASSUME NEW q \in Proc, Saving(q)', call'[q].user = interrupted PROVE q = p
      BY <1>3, <1>8, <3>1, <3>3 DEF Saving
    <3>4. Repairing(p)'
      <4>. SUFFICES ASSUME NEW k \in Kind, Cleared(p, k)', NEW key \in Key, index'[k][key] = id
                    PROVE  key = c.user[k]
        BY <1>1, <1>3, <3>1 DEF Repairing
      <4>1. index[k][key] = id
        BY <1>1, <1>6, NotEmpty
      <4>2. CASE Cleared(p, k)
        BY <3>1, <4>1, <4>2, SMTT(60) DEF Repairing
      <4>3. CASE k = k0
        BY <1>1, <1>2, <3>1, <4>1, <4>3, NotEmpty DEF TornKeys
      <4> QED
        BY <1>3, <4>2, <4>3
    <3> QED
      BY <3>2, <3>3, <3>4
  <2>2. CASE c.user # interrupted
    <3>. DEFINE torn == interrupted.id
    <3>1. torn \in UserID \ {id} /\ UNCHANGED <<table, interrupted>>
      BY <1>1, <2>2, OtherSave, Types
    <3>2. \A k \in Kind : \A key \in {table[torn][k], interrupted[k]} : key # Empty => key \in Key
      BY <3>1, Types
    <3>3. \A k \in Kind : c.user[k] # Empty => c.user[k] \notin {table[torn][k], interrupted[k]}
      BY <1>1, <2>2, OtherSave
    <3>4. \A k \in Kind, key \in Key : index'[k][key] = torn <=> index[k][key] = torn
      BY <3>1, <1>7
    <3>5. TornKeys'
      <4>1. \A k \in Kind, key \in Key : index'[k][key] = torn => key \in {table[torn][k], interrupted[k]}
        BY <2>0, <3>4 DEF TornKeys
      <4>2. ASSUME NEW k \in Kind, NEW key \in {table[torn][k], interrupted[k]}, key # Empty
            PROVE  index'[k][key] \in {Empty, torn}
        <5>1. key \in Key /\ index[k][key] \in {Empty, torn} /\ key # c.user[k]
          BY <2>0, <3>2, <3>3, <4>2 DEF TornKeys
        <5> QED
          BY <5>1, <1>6
      <4> QED
        BY <3>1, <4>1, <4>2 DEF TornKeys
    <3>6. ASSUME NEW q \in Proc, Saving(q)', call'[q].user = interrupted
          PROVE  Repairing(q)'
      <4>1. q # p /\ call'[q] = call[q] /\ Saving(q)
        BY <2>2, <3>6, <1>3 DEF Saving
      <4>2. Repairing(q) /\ \A k \in Kind : interrupted[k] # Empty => interrupted[k] \in Key
        BY <2>0, <3>2, <3>6, <4>1
      <4> QED
        BY <3>1, <3>4, <4>1, <4>2 DEF Repairing, Cleared, Entered
    <3> QED
      BY <3>5, <3>6
  <2> QED
    BY <2>1, <2>2
<1>g. Apart' /\ Faithful'
  <2>1. \A q \in Proc : Saving(q)' => Saving(q) /\ call'[q].user = call[q].user
    BY <1>1, <1>3 DEF Saving
  <2> QED
    BY <1>1, <2>1 DEF StorageInv, Apart, Faithful, Claims
<1> QED
  BY <1>a, <1>b, <1>c, <1>d, <1>e, <1>f, <1>g DEF StorageInv

LEMMA PutStep ==
  ASSUME TypeInv, StorageInv, NEW p \in Proc, PutNew(p)
  PROVE  StorageInv'
<1>. SUFFICES ASSUME ~suspect PROVE StorageInv'
  BY DEF StorageInv, PutNew, history
<1>. DEFINE c   == call[p]
            id  == call[p].user.id
            k0  == call[p].kind
            new == call[p].user[k0]
<1>1. /\ Saving(p) /\ Writing(p) /\ c.pc = "put" /\ k0 \in Kind /\ id \in UserID
      /\ new \in Key \cup {Empty}
      /\ UNCHANGED <<table, suspect, interrupted>>
  BY Types DEF PutNew, Saving, Writing, SavePhase, history
<1>2. new # Empty => index[k0][new] \in {Empty, id}
  BY <1>1 DEF StorageInv, NotTaken, Checked
<1>3. \A k \in Kind, key \in Key :
        index'[k][key] = IF k = k0 /\ key = new THEN id ELSE index[k][key]
  BY <1>1, <1>2, Types, NotEmpty, DriverAssumption
     DEF PutNew, Put, LocalPut, RedisPut, EtcdPut, Index
<1>4. /\ \A q \in Proc \ {p} : call'[q] = call[q]
      /\ call'[p].user = c.user /\ call'[p].old = c.old
      /\ Saving(p)' /\ Writing(p)'
      /\ \A k \in Kind : /\ Entered(p, k)' <=> Entered(p, k) \/ k = k0
                         /\ Cleared(p, k) /\ Cleared(p, k)'
                         /\ Checked(p, k)
  <2>1. \/ k0 = "email" /\ Goto(p, "put", "login")
        \/ k0 = "login" /\ Goto(p, "put", "token")
        \/ k0 = "token" /\ Goto(p, "set", "email")
    BY <1>1 DEF PutNew, AfterPut, Kind
  <2> QED
    BY <1>1, <2>1, GotoEffect
       DEF Saving, Writing, SavePhase, Cleared, Entered, Checked, Before, Kind
<1>5. ~Entered(p, k0)
  BY <1>1 DEF Entered, Before, Kind
<1>6. \A other \in UserID \ {id}, k \in Kind, key \in Key :
        index'[k][key] = other <=> index[k][key] = other
  BY <1>1, <1>2, <1>3, NotEmpty
<1>7. \A q \in Proc \ {p} : Saving(q) =>
        /\ call[q].user.id \in UserID \ {id}
        /\ new # Empty => call[q].user[k0] # new
  BY <1>1, Types DEF StorageInv, Separate, Claims
<1>a. Separate'
  BY <1>1, <1>4 DEF StorageInv, Separate, Saving
<1>b. OldKnown'
  BY <1>1, <1>4 DEF StorageInv, OldKnown, Writing
<1>c. NotTaken'
  <2>. SUFFICES ASSUME NEW q \in Proc, NEW k \in Kind, Checked(q, k)', call'[q].user[k] # Empty
                PROVE  index'[k][call'[q].user[k]] \in {Empty, call'[q].user.id}
    BY DEF NotTaken
  <2>1. Checked(q, k) /\ call'[q].user = call[q].user /\ Saving(q)
    BY <1>4 DEF Checked, Saving
  <2>2. call[q].user[k] \in Key /\ index[k][call[q].user[k]] \in {Empty, call[q].user.id}
    BY <2>1, Types DEF StorageInv, NotTaken
  <2>3. CASE q = p
    BY <1>3, <2>1, <2>2, <2>3
  <2>4. CASE q # p
    BY <1>3, <1>7, <2>1, <2>2, <2>4
  <2> QED
    BY <2>3, <2>4
<1>d. SettledExact'
  <2>. SUFFICES ASSUME NEW other \in UserID, other # interrupted.id, Settled(other)'
                PROVE  Exact(other)'
    BY <1>1 DEF SettledExact
  <2>1. Settled(other) /\ other # id
    BY <1>1, <1>4 DEF Settled, Saving
  <2>2. Exact(other)
    BY <2>1 DEF StorageInv, SettledExact
  <2> QED
    BY <1>1, <1>6, <2>1, <2>2 DEF Exact
<1>e. SavingExact'
  <2>. SUFFICES ASSUME NEW q \in Proc, Saving(q)', call'[q].user.id # interrupted.id
                PROVE  ExactFor(q)'
    BY <1>1 DEF SavingExact
  <2>1. CASE q # p
    <3>1. ExactFor(q) /\ call'[q] = call[q] /\ call[q].user.id \in UserID \ {id}
      BY <1>4, <1>7, <2>1 DEF StorageInv, SavingExact, Saving
    <3>2. \A k \in Kind, key \in Key : Holds(q, k, key)' <=> Holds(q, k, key)
      BY <1>1, <3>1 DEF Holds, Entered, Cleared
    <3> QED
      BY <1>6, <3>1, <3>2 DEF ExactFor
  <2>2. CASE q = p
    <3>1. ExactFor(p)
      BY <1>1, <1>4, <2>2 DEF StorageInv, SavingExact
    <3>2. \A k \in Kind, key \in Key :
            index'[k][key] = id <=> Entered(p, k)' /\ c.user[k] = key
      BY <1>1, <1>3, <1>4, <1>5, <3>1, NotEmpty DEF ExactFor, Holds
    <3> QED
      BY <1>1, <1>4, <2>2, <3>2 DEF ExactFor, Holds
  <2> QED
    BY <2>1, <2>2
<1>f. TornOK'
  <2>. SUFFICES ASSUME interrupted # NoUser
                PROVE  TornKeys' /\ \A q \in Proc : Saving(q)' /\ call'[q].user = interrupted
                                                      => Repairing(q)'
    BY <1>1 DEF TornOK
  <2>0. TornKeys /\ \A q \in Proc : Saving(q) /\ call[q].user = interrupted => Repairing(q)
    BY SMTT(60) DEF StorageInv, TornOK
  <2>1. CASE c.user = interrupted
    <3>1. interrupted = c.user /\ Repairing(p) /\ TornKeys
      BY <1>1, <2>0, <2>1
    <3>2. TornKeys'
      <4>. SUFFICES ASSUME NEW k \in Kind
                    PROVE  /\ \A key \in Key : index'[k][key] = id => key \in {table[id][k], c.user[k]}
                           /\ \A key \in {table[id][k], c.user[k]} :
                                key # Empty => index'[k][key] \in {Empty, id}
        BY <1>1, <3>1 DEF TornKeys
      <4>1. \A key \in {table[id][k], c.user[k]} : key # Empty => key \in Key
        BY <1>1, Types
      <4> QED
        BY <1>1, <1>3, <3>1, <4>1, NotEmpty DEF TornKeys
    <3>3. ASSUME NEW q \in Proc, Saving(q)', call'[q].user = interrupted PROVE q = p
      BY <1>4, <1>7, <3>1, <3>3 DEF Saving
    <3>4. Repairing(p)'
      <4>1. ASSUME NEW k \in Kind, NEW key \in Key, index'[k][key] = id PROVE key = c.user[k]
        BY <1>1, <1>3, <1>4, <3>1, <4>1 DEF Repairing
      <4>2. ASSUME NEW k \in Kind, Entered(p, k)', c.user[k] # Empty PROVE index'[k][c.user[k]] = id
        <5>1. c.user[k] \in Key
          BY <1>1, <4>2, Types
        <5> QED
          BY <1>3, <1>4, <3>1, <4>2, <5>1 DEF Repairing
      <4> QED
        BY <1>1, <1>4, <3>1, <4>1, <4>2 DEF Repairing
    <3> QED
      BY <3>2, <3>3, <3>4
  <2>2. CASE c.user # interrupted
    <3>. DEFINE torn == interrupted.id
    <3>1. torn \in UserID \ {id} /\ UNCHANGED <<table, interrupted>>
      BY <1>1, <2>2, OtherSave, Types
    <3>2. \A k \in Kind : \A key \in {table[torn][k], interrupted[k]} : key # Empty => key \in Key
      BY <3>1, Types
    <3>3. \A k \in Kind : c.user[k] # Empty => c.user[k] \notin {table[torn][k], interrupted[k]}
      BY <1>1, <2>2, OtherSave
    <3>4. \A k \in Kind, key \in Key : index'[k][key] = torn <=> index[k][key] = torn
      BY <3>1, <1>6
    <3>5. TornKeys'
      <4>1. \A k \in Kind, key \in Key : index'[k][key] = torn => key \in {table[torn][k], interrupted[k]}
        BY <2>0, <3>4 DEF TornKeys
      <4>2. ASSUME NEW k \in Kind, NEW key \in {table[torn][k], interrupted[k]}, key # Empty
            PROVE  index'[k][key] \in {Empty, torn}
        <5>1. key \in Key /\ index[k][key] \in {Empty, torn} /\ key # c.user[k]
          BY <2>0, <3>2, <3>3, <4>2 DEF TornKeys
        <5> QED
          BY <5>1, <1>3
      <4> QED
        BY <3>1, <4>1, <4>2 DEF TornKeys
    <3>6. ASSUME NEW q \in Proc, Saving(q)', call'[q].user = interrupted
          PROVE  Repairing(q)'
      <4>1. q # p /\ call'[q] = call[q] /\ Saving(q)
        BY <2>2, <3>6, <1>4 DEF Saving
      <4>2. Repairing(q) /\ \A k \in Kind : interrupted[k] # Empty => interrupted[k] \in Key
        BY <2>0, <3>2, <3>6, <4>1
      <4> QED
        BY <3>1, <3>4, <4>1, <4>2 DEF Repairing, Cleared, Entered
    <3> QED
      BY <3>5, <3>6
  <2> QED
    BY <2>1, <2>2
<1>g. Apart' /\ Faithful'
  <2>1. \A q \in Proc : Saving(q)' => Saving(q) /\ call'[q].user = call[q].user
    BY <1>1, <1>4 DEF Saving
  <2> QED
    BY <1>1, <2>1 DEF StorageInv, Apart, Faithful, Claims
<1> QED
  BY <1>a, <1>b, <1>c, <1>d, <1>e, <1>f, <1>g DEF StorageInv

LEMMA SetStep ==
  ASSUME TypeInv, StorageInv, NEW p \in Proc, SetUser(p)
  PROVE  StorageInv'
<1>. SUFFICES ASSUME ~suspect PROVE StorageInv'
  BY DEF StorageInv, SetUser
<1>. DEFINE user == call[p].user
            id   == call[p].user.id
<1>1. /\ Saving(p) /\ call[p].pc = "set" /\ user \in User /\ id \in UserID
      /\ table' = [table EXCEPT ![id] = user]
      /\ UNCHANGED <<index, suspect>>
      /\ interrupted' = IF user = interrupted THEN NoUser ELSE interrupted
  BY Types DEF SetUser, SetRecord, Saving, SavePhase, StorageInv, Faithful
<1>2. /\ \A q \in Proc \ {p} : call'[q] = call[q]
      /\ ~Saving(p)' /\ ~Writing(p)'
      /\ \A k \in Kind : Cleared(p, k) /\ Entered(p, k)
  BY <1>1, Types DEF SetUser, Return, Idle, Saving, Writing, SavePhase, Cleared, Entered
<1>3. \A q \in Proc \ {p} : Saving(q) => call[q].user.id # id
  BY <1>1 DEF StorageInv, Separate, Claims
<1>4. table'[id] = user /\ \A other \in UserID \ {id} : table'[other] = table[other]
  BY <1>1 DEF TypeInv, TypeOK
<1>5. user = interrupted \/ id # interrupted.id
  <2>1. CASE interrupted = NoUser
    BY <1>1, <2>1, NotEmpty DEF NoUser
  <2>2. CASE interrupted # NoUser
    BY <1>1, <2>2, OtherSave
  <2> QED
    BY <2>1, <2>2
<1>6. \A k \in Kind, key \in Key : index[k][key] = id <=> user[k] = key
  <2>1. CASE id # interrupted.id
    BY <1>1, <1>2, <2>1 DEF StorageInv, SavingExact, ExactFor, Holds
  <2>2. CASE id = interrupted.id
    <3>1. interrupted # NoUser /\ user = interrupted
      BY <1>1, <1>5, <2>2, NotEmpty DEF NoUser
    <3> QED
      BY <1>1, <1>2, <3>1, NotEmpty DEF StorageInv, TornOK, Repairing
  <2> QED
    BY <2>1, <2>2
<1>7. \A other \in UserID \ {id} : other # interrupted'.id => other # interrupted.id
  BY <1>1
<1>a. Separate'
  BY <1>2 DEF StorageInv, Separate, Saving
<1>b. OldKnown'
  <2>. SUFFICES ASSUME NEW q \in Proc, Writing(q)'
                PROVE  call'[q].old = table'[call'[q].user.id]
    BY DEF OldKnown
  <2>1. q # p /\ call'[q] = call[q] /\ Writing(q) /\ Saving(q)
    BY <1>2 DEF Writing, Saving, SavePhase
  <2>2. call[q].user.id \in UserID \ {id}
    BY <1>3, <2>1, Types
  <2> QED
    BY <1>4, <2>1, <2>2 DEF StorageInv, OldKnown
<1>c. NotTaken'
  BY <1>1, <1>2 DEF StorageInv, NotTaken, Checked, Saving
<1>d. SettledExact'
  <2>. SUFFICES ASSUME NEW other \in UserID, other # interrupted'.id, Settled(other)'
                PROVE  Exact(other)'
    BY DEF SettledExact
  <2>1. CASE other = id
    BY <1>1, <1>4, <1>6, <2>1 DEF Exact
  <2>2. CASE other # id
    <3>1. Settled(other) /\ other # interrupted.id
      BY <1>1, <1>2, <1>7, <2>2 DEF Settled, Saving
    <3> QED
      BY <1>1, <1>4, <2>2, <3>1 DEF StorageInv, SettledExact, Exact
  <2> QED
    BY <2>1, <2>2
<1>e. SavingExact'
  <2>. SUFFICES ASSUME NEW q \in Proc, Saving(q)', call'[q].user.id # interrupted'.id
                PROVE  ExactFor(q)'
    BY DEF SavingExact
  <2>1. q # p /\ call'[q] = call[q] /\ Saving(q)
    BY <1>2 DEF Saving
  <2>2. call[q].user.id \in UserID \ {id} /\ call[q].user.id # interrupted.id
    BY <1>3, <1>7, <2>1, Types
  <2>3. ExactFor(q)
    BY <2>1, <2>2 DEF StorageInv, SavingExact
  <2> QED
    BY <1>1, <1>4, <2>1, <2>2, <2>3 DEF ExactFor, Holds, Entered, Cleared
<1>f. TornOK' /\ Apart'
  <2>. SUFFICES ASSUME interrupted' # NoUser PROVE TornOK' /\ Apart'
    BY DEF TornOK, Apart
  <2>1. /\ interrupted' = interrupted /\ interrupted # NoUser
        /\ interrupted.id \in UserID \ {id}
    BY <1>1, <1>5, Types
  <2>2. UNCHANGED index /\ table'[interrupted.id] = table[interrupted.id]
    BY <1>1, <1>4, <2>1
  <2>3. \A q \in Proc : Saving(q)' => q # p /\ Saving(q) /\ call'[q] = call[q]
    BY <1>2 DEF Saving
  <2>4. TornKeys'
    BY <2>1, <2>2, SMTT(60) DEF StorageInv, TornOK, TornKeys
  <2>5. ASSUME NEW q \in Proc, Saving(q)', call'[q].user = interrupted PROVE Repairing(q)'
    BY <2>1, <2>2, <2>3, <2>5 DEF StorageInv, TornOK, Repairing, Cleared, Entered
  <2>6. Apart'
    BY <2>1, <2>2, <2>3, SMTT(60) DEF StorageInv, Apart, Claims
  <2> QED
    BY <2>1, <2>4, <2>5, <2>6 DEF TornOK
<1>g. Faithful'
  BY <1>2 DEF StorageInv, Faithful, Saving
<1> QED
  BY <1>a, <1>b, <1>c, <1>d, <1>e, <1>f, <1>g DEF StorageInv
-----------------------------------------------------------------------------
(* The process dies.  A persistent store is left with the record of at most *)
(* one Save that had begun to write, or suspect is set.                     *)
LEMMA CrashStep ==
  ASSUME TypeInv, StorageInv, Crash
  PROVE  StorageInv'
<1>. DEFINE cut  == {call[p].user : p \in {q \in Proc : Writing(q)}}
            torn == cut \cup ({interrupted} \ {NoUser})
<1>. SUFFICES ASSUME ~suspect' PROVE StorageInv'
  BY DEF StorageInv
<1>1. \A p \in Proc : /\ ~Saving(p)' /\ ~Writing(p)' /\ \A k \in Kind : ~Checked(p, k)'
                      /\ \A k \in Kind : ~Cleared(p, k)' /\ ~Entered(p, k)'
  BY DEF Crash, Idle, Saving, Writing, SavePhase, Checked, Cleared, Entered
<1>a. Separate' /\ OldKnown' /\ NotTaken' /\ SavingExact' /\ Apart' /\ Faithful'
  BY <1>1 DEF Separate, OldKnown, NotTaken, SavingExact, Apart, Faithful
<1>2. CASE ~DriverPersists
  <2>1. /\ table' = EmptyTable /\ interrupted' = NoUser
        /\ \A k \in Kind, key \in Key : index'[k][key] = Empty
    BY <1>2 DEF Crash
  <2>2. \A id \in UserID : Exact(id)'
    BY <2>1, NoUserKeys, NotEmpty DEF Exact, EmptyTable
  <2> QED
    BY <1>a, <2>1, <2>2 DEF StorageInv, SettledExact, TornOK
<1>3. CASE DriverPersists
  <2>1. /\ ~suspect /\ UNCHANGED <<table, index>>
        /\ interrupted' = IF torn = {} THEN NoUser ELSE CHOOSE u \in torn : TRUE
        /\ \A u, w \in torn : u = w
        /\ \A u \in cut : ~LostOldKey(u)
    BY <1>3 DEF Crash, store
  <2>2. ASSUME NEW p \in Proc, Writing(p) PROVE interrupted' = call[p].user
    BY <2>1, <2>2
  <2>3. (\A p \in Proc : ~Writing(p)) => interrupted' = interrupted
    BY <2>1
  <2>4. \A p \in Proc : Writing(p) => Saving(p)
    BY DEF Writing, Saving, SavePhase
  <2>5. interrupted # NoUser => interrupted' = interrupted
    BY <2>1
  <2>6. SettledExact'
    <3>. SUFFICES ASSUME NEW id \in UserID, id # interrupted'.id PROVE Exact(id)'
      BY DEF SettledExact
    <3>1. id # interrupted.id
      BY <2>5, NotEmpty DEF NoUser
    <3>2. CASE Settled(id)
      BY <2>1, <3>1, <3>2 DEF StorageInv, SettledExact, Exact
    <3>3. CASE ~Settled(id)
      <4>1. PICK p \in Proc : Saving(p) /\ call[p].user.id = id
        BY <3>3 DEF Settled
      <4>2. ~Writing(p)
        BY <2>2, <4>1
      <4>3. ExactFor(p)
        BY <2>1, <3>1, <4>1 DEF StorageInv, SavingExact
      <4>4. Exact(id)
        BY <4>1, <4>2, <4>3 DEF Exact, ExactFor, Holds, Cleared, Entered, Writing
      <4> QED
        BY <2>1, <4>4 DEF Exact
    <3> QED
      BY <3>2, <3>3
  <2>7. TornKeys' \/ interrupted' = NoUser
    <3>1. CASE interrupted # NoUser
      <4>1. UNCHANGED <<table, index, interrupted>> /\ TornKeys
        BY SMTT(60), <2>1, <2>5, <3>1 DEF StorageInv, TornOK
      <4> QED
        BY <4>1 DEF TornKeys
    <3>2. CASE interrupted = NoUser /\ \A p \in Proc : ~Writing(p)
      BY <2>3, <3>2
    <3>3. ASSUME NEW p \in Proc, interrupted = NoUser, Writing(p) PROVE TornKeys'
      <4>. DEFINE u == call[p].user
      <4>1. interrupted' = u /\ u \in User /\ u.id \in UserID /\ Saving(p)
        BY <2>2, <2>4, <3>3, Types
      <4>2. ExactFor(p)
        BY <2>1, <3>3, <4>1, NotEmpty DEF StorageInv, SavingExact, NoUser
      <4>3. ASSUME NEW k \in Kind, NEW key \in Key, index[k][key] = u.id
            PROVE  key \in {table[u.id][k], u[k]}
        BY <4>2, <4>3 DEF ExactFor, Holds
      <4>4. ASSUME NEW k \in Kind, table[u.id][k] # Empty
            PROVE  index[k][table[u.id][k]] \in {Empty, u.id}
        BY <2>1, <3>3, <4>4 DEF LostOldKey
      <4>5. ASSUME NEW k \in Kind, u[k] # Empty PROVE index[k][u[k]] \in {Empty, u.id}
        BY <2>1, <3>3, <4>1, <4>5 DEF StorageInv, NotTaken, Checked, Writing
      <4> QED
        BY <2>1, <4>1, <4>3, <4>4, <4>5 DEF TornKeys
    <3>4. CASE interrupted = NoUser /\ \E p \in Proc : Writing(p)
      BY <3>3, <3>4
    <3> QED
      BY <3>1, <3>2, <3>4
  <2>8. TornOK'
    BY <1>1, <2>7 DEF TornOK
  <2> QED
    BY <1>a, <2>6, <2>8 DEF StorageInv
<1> QED
  BY <1>2, <1>3
-----------------------------------------------------------------------------
(* The indexes that belong to a table in which no key is shared are exact.  *)
LEMMA OwnerOfExact ==
  ASSUME NEW tbl \in [UserID -> User \cup {NoUser}], NoSharedKeys(tbl),
         NEW id \in UserID, NEW k \in Kind, NEW key \in Key
  PROVE  OwnerOf(tbl, k, key) = id <=> tbl[id][k] = key
<1>1. key # Empty
  BY NotEmpty
<1>2. CASE \E i \in UserID : tbl[i][k] = key
  <2>1. OwnerOf(tbl, k, key) \in UserID /\ tbl[OwnerOf(tbl, k, key)][k] = key
    BY <1>2 DEF OwnerOf
  <2>2. tbl[id][k] = key => id = OwnerOf(tbl, k, key)
    BY <1>1, <2>1 DEF NoSharedKeys
  <2> QED
    BY <2>1, <2>2
<1>3. CASE ~\E i \in UserID : tbl[i][k] = key
  BY <1>3, NotEmpty DEF OwnerOf
<1> QED
  BY <1>2, <1>3

LEMMA InitInv ==
  ASSUME Init
  PROVE  StorageInv
<1>1. table \in [UserID -> User \cup {NoUser}] /\ NoSharedKeys(table)
  <2>1. CASE DriverPersists
    BY <2>1, EarlierAssumption DEF Init
  <2>2. CASE ~DriverPersists
    BY <2>2, NoUserKeys DEF Init, EmptyTable, NoSharedKeys
  <2> QED
    BY <2>1, <2>2
<1>2. \A id \in UserID : Exact(id)
  BY <1>1, OwnerOfExact DEF Init, Exact
<1>3. \A p \in Proc : ~Saving(p) /\ ~Writing(p)
  BY DEF Init, Idle, Saving, Writing, SavePhase
<1>4. interrupted = NoUser
  BY DEF Init
<1> QED
  BY <1>2, <1>3, <1>4
     DEF StorageInv, Separate, OldKnown, NotTaken, Checked, SettledExact, SavingExact, TornOK,
         Apart, Faithful

(* A call that returns, or a find that moves on, outside the writing of a    *)
(* Save.                                                                    *)
LEMMA ReturnEffect ==
  ASSUME TypeInv, NEW p \in Proc, NEW err, NEW user, Return(p, err, user)
  PROVE  /\ \A q \in Proc \ {p} : call'[q] = call[q]
         /\ ~Saving(p)' /\ ~Writing(p)'
BY DEF Return, Idle, Saving, Writing, SavePhase, TypeInv, TypeOK

(* The actions that read: one lemma for each kind of call.                  *)
LEMMA CheckStep ==
  ASSUME TypeInv, StorageInv, NEW p \in Proc, CheckTaken(p)
  PROVE  StorageInv'
<1>. DEFINE user == call[p].user
            k0   == call[p].kind
<1>1. /\ call[p].pc = "check" /\ Saving(p) /\ ~Writing(p) /\ k0 \in Kind
      /\ UNCHANGED <<store, history>>
  BY Types DEF CheckTaken, Saving, Writing, SavePhase
<1>2. CASE TakenByOtherUser(user, k0)
  <2>1. Return(p, TakenError(k0), NoUser)
    BY <1>2 DEF CheckTaken
  <2> QED
    BY <1>1, <2>1, ReturnEffect, QuietStep
<1>3. CASE ~TakenByOtherUser(user, k0)
  <2>1. \/ k0 = "email" /\ Goto(p, "check", "login")
        \/ k0 = "login" /\ Goto(p, "check", "token")
        \/ k0 = "token" /\ Goto(p, "old", "email")
    BY <1>1, <1>3 DEF CheckTaken, Kind
  <2>2. /\ \A q \in Proc \ {p} : call'[q] = call[q]
        /\ call'[p].user = user
        /\ Saving(p)' /\ ~Writing(p)'
        /\ \A k \in Kind : ~Cleared(p, k) /\ ~Entered(p, k) /\ ~Cleared(p, k)' /\ ~Entered(p, k)'
        /\ \A k \in Kind : Checked(p, k)' /\ ~Checked(p, k) => k = k0
    BY <1>1, <2>1, GotoEffect
       DEF Saving, Writing, SavePhase, Cleared, Entered, Checked, Before, Kind
  <2> QED
    BY <1>1, <1>3, <2>2, AdvanceStep
<1> QED
  BY <1>2, <1>3

LEMMA OldStep ==
  ASSUME TypeInv, StorageInv, NEW p \in Proc, LookupOld(p)
  PROVE  StorageInv'
<1>1. /\ call[p].pc = "old" /\ Saving(p) /\ ~Writing(p)
      /\ UNCHANGED <<store, history>>
  BY DEF LookupOld, Saving, Writing, SavePhase
<1>2. /\ \A q \in Proc \ {p} : call'[q] = call[q]
      /\ call'[p].pc = "remove" /\ call'[p].kind = "email"
      /\ call'[p].user = call[p].user /\ call'[p].old = table[call[p].user.id]
  <2>1. call \in [Proc -> Call] /\ call[p] \in Call
    BY DEF TypeInv, TypeOK
  <2> QED
    BY <2>1 DEF LookupOld, Call
<1>3. /\ Saving(p)'
      /\ \A k \in Kind : /\ ~Cleared(p, k) /\ ~Entered(p, k) /\ ~Cleared(p, k)' /\ ~Entered(p, k)'
                         /\ Checked(p, k)
  BY <1>1, <1>2 DEF Saving, SavePhase, Cleared, Entered, Checked, Before, Kind
<1> QED
  BY <1>1, <1>2, <1>3, AdvanceStep

LEMMA FindStep ==
  ASSUME TypeInv, StorageInv, NEW p \in Proc,
         \/ \E id \in UserID : Get(p, id)
         \/ \E k \in Kind, key \in Key : FindBy(p, k, key)
         \/ Lookup(p) \/ Fetch(p) \/ TakeAnswer(p)
  PROVE  StorageInv'
<1>1. /\ UNCHANGED <<store, history>> /\ ~Writing(p)
      /\ \A q \in Proc \ {p} : call'[q] = call[q]
  BY DEF Get, FindBy, Lookup, Fetch, TakeAnswer, Return, Ready, Writing, TypeInv, TypeOK
<1>2. ~Saving(p)' /\ ~Writing(p)'
  <2>1. call'[p].pc \in {"idle", "lookup", "fetch", "done"}
    <3>1. call \in [Proc -> Call] /\ call[p] \in Call
      BY DEF TypeInv, TypeOK
    <3>2. CASE Lookup(p)
      <4>1. \/ Return(p, "UserNotFound", NoUser)
            \/ \E id : call' = [call EXCEPT ![p].pc = "fetch", ![p].id = id]
        BY <3>2 DEF Lookup
      <4>2. ASSUME NEW id, call' = [call EXCEPT ![p].pc = "fetch", ![p].id = id]
            PROVE  call'[p].pc = "fetch"
        BY <3>1, <4>2 DEF Call
      <4> QED
        BY <3>1, <4>1, <4>2 DEF Return, Idle
    <3>3. CASE \E id \in UserID : Get(p, id)
      BY <3>1, <3>3 DEF Get, Idle
    <3>4. CASE \E k \in Kind, key \in Key : FindBy(p, k, key)
      BY <3>1, <3>4 DEF FindBy, Idle
    <3>5. CASE TakeAnswer(p)
      BY <3>1, <3>5 DEF TakeAnswer, Idle
    <3>6. CASE Fetch(p)
      <4>1. PICK err, user : Return(p, err, user)
        BY <3>6 DEF Fetch
      <4> QED
        BY <3>1, <4>1 DEF Return, Idle
    <3> QED
      BY <3>2, <3>3, <3>4, <3>5, <3>6
  <2> QED
    BY <2>1 DEF Saving, Writing, SavePhase
<1> QED
  BY <1>1, <1>2, QuietStep

LEMMA FailStep ==
  ASSUME TypeInv, StorageInv, NEW p \in Proc, Fail(p)
  PROVE  StorageInv'
<1>1. CASE ReadFails(p)
  <2>1. UNCHANGED <<store, history>> /\ ~Writing(p) /\ Return(p, "internal", NoUser)
    BY <1>1 DEF ReadFails, Writing
  <2> QED
    BY <2>1, ReturnEffect, QuietStep
<1>2. CASE WriteFails(p)
  BY <1>2 DEF WriteFails, StorageInv
<1> QED
  BY <1>1, <1>2 DEF Fail
-----------------------------------------------------------------------------
LEMMA InvStep ==
  ASSUME TypeInv, StorageInv, [Next]_vars
  PROVE  StorageInv'
<1>1. ASSUME NEW p \in Proc, Invoke(p) PROVE StorageInv'
  <2>1. ASSUME NEW user \in UserArgument, Save(p, user) PROVE StorageInv'
    <3>1. CASE Valid(user)
      BY <2>1, <3>1, ValidArgument, BeginStep
    <3>2. CASE ~Valid(user)
      <4>1. /\ UNCHANGED <<store, history>> /\ ~Writing(p)
            /\ Return(p, "InvalidUserObject", NoUser)
        BY <2>1, <3>2 DEF Save, Ready, Writing, history
      <4> QED
        BY <4>1, ReturnEffect, QuietStep
    <3> QED
      BY <3>1, <3>2
  <2>2. CASE TakeAnswer(p) \/ \E id \in UserID : Get(p, id)
    BY <2>2, FindStep
  <2>3. CASE \E k \in Kind, key \in Key : FindBy(p, k, key)
    BY <2>3, FindStep
  <2> QED
    BY <1>1, <2>1, <2>2, <2>3 DEF Invoke, Kind, Key
<1>2. ASSUME NEW p \in Proc, Step(p) PROVE StorageInv'
  BY <1>2, CheckStep, OldStep, RemoveStep, PutStep, SetStep, FindStep DEF Step
<1>3. ASSUME NEW p \in Proc, Fail(p) PROVE StorageInv'
  BY <1>3, FailStep
<1>4. CASE UNCHANGED vars
  BY <1>4
     DEF vars, StorageInv, Separate, OldKnown, NotTaken, SettledExact, SavingExact, TornOK,
         Apart, Faithful, Settled, Exact, ExactFor, Holds, Entered, Cleared, Checked, Saving,
         Writing, TornKeys, Repairing, Claims
<1> QED
  BY <1>1, <1>2, <1>3, <1>4, CrashStep DEF Next
-----------------------------------------------------------------------------
(* StorageInv holds in every state: each driver call of a Save leaves the    *)
(* indexes where Holds says, and a crash leaves at most one torn user.      *)
THEOREM StorageInvariant == Spec => []StorageInv
<1>1. Init => TypeInv /\ StorageInv
  BY InitType, InitInv
<1>2. TypeInv /\ StorageInv /\ [Next]_vars => TypeInv' /\ StorageInv'
  BY NextType, InvStep
<1> QED
  BY <1>1, <1>2, PTL DEF Spec

LEMMA SettledIsExact ==
  ASSUME TypeInv, StorageInv, ~suspect, NEW id \in UserID, id # interrupted.id, Settled(id)
  PROVE  Exact(id)
BY DEF StorageInv, SettledExact

(* LookupsExact in every state: of a user that is not being saved, the       *)
(* indexes of keyvalue.go hold exactly the keys of the stored record.      *)
THEOREM LookupsAreExact == Spec => []LookupsExact
<1>1. TypeInv /\ StorageInv => LookupsExact
  BY SettledIsExact DEF LookupsExact, Exact
<1>2. Spec => []TypeInv
  BY InitType, NextType, PTL DEF Spec
<1> QED
  BY <1>1, <1>2, StorageInvariant, PTL

(* KeysUnique in every state: the unique index validation of Save works for *)
(* callers that do not overlap on a user or a key.                          *)
THEOREM KeysAreUnique == Spec => []KeysUnique
<1>1. TypeInv /\ StorageInv => KeysUnique
  <2>. SUFFICES ASSUME TypeInv, StorageInv, ~suspect, NEW i \in UserID, NEW j \in UserID,
                       NEW k \in Kind, i # j, Settled(i), Settled(j), table[i][k] # Empty,
                       table[i][k] = table[j][k]
                PROVE  FALSE
    BY DEF KeysUnique
  <2>. DEFINE key == table[i][k]
  <2>1. key \in Key
    BY Types
  <2>2. ASSUME NEW id \in {i, j}, id # interrupted.id PROVE index[k][key] = id
    BY <2>1, <2>2, SettledIsExact DEF Exact
  <2>3. ASSUME NEW id \in {i, j}, id = interrupted.id PROVE index[k][key] \in {Empty, id}
    BY <2>3, NotEmpty, SMTT(60) DEF StorageInv, TornOK, TornKeys, NoUser
  <2> QED
    BY <2>2, <2>3, NotEmpty
<1>2. Spec => []TypeInv
  BY InitType, NextType, PTL DEF Spec
<1> QED
  BY <1>1, <1>2, StorageInvariant, PTL
-----------------------------------------------------------------------------
(* An index entry that a Save changes was free or its own user's.            *)
LEMMA ChangedEntryOwned ==
  ASSUME TypeInv, StorageInv, ~suspect, NEW p \in Proc, Saving(p),
         RemoveOld(p) \/ PutNew(p),
         NEW k \in Kind, NEW key \in Key, index'[k][key] # index[k][key]
  PROVE  index[k][key] \in {Empty, call[p].user.id}
<1>. call[p].kind \in Kind /\ index \in [Kind -> Index]
  BY Types, SMTT(60)
<1>1. CASE RemoveOld(p)
  <2>. DEFINE old == table[call[p].user.id][call[p].kind]
  <2>1. call[p].pc = "remove" /\ call[p].old[call[p].kind] = old
    BY <1>1, Types DEF RemoveOld, StorageInv, OldKnown, Writing
  <2>2. ~Cleared(p, call[p].kind) /\ ~Entered(p, call[p].kind)
    BY <2>1 DEF Cleared, Entered, Before, Kind
  <2>3. old # Empty /\ index' = [index EXCEPT ![call[p].kind] = Remove(@, old)]
    BY <1>1, <2>1 DEF RemoveOld
  <2>4. \A idx \in Index : Remove(idx, old) = [idx EXCEPT ![old] = Empty]
    BY DriverAssumption, SMTT(60) DEF Remove, LocalRemove, RedisRemove, EtcdRemove
  <2>5. index' = [index EXCEPT ![call[p].kind] = [@ EXCEPT ![old] = Empty]]
    BY <2>3, <2>4, ZenonT(60)
  <2>6. k = call[p].kind /\ key = old
    BY <2>5 DEF Index
  <2> QED
    BY <2>2, <2>3, <2>6, OldKeyOwned, ZenonT(60)
<1>2. CASE PutNew(p)
  <2>1. call[p].pc = "put" /\ Checked(p, call[p].kind)
    BY <1>2 DEF PutNew, Checked, Saving
  <2>2. k = call[p].kind /\ key = call[p].user[k] /\ key # Empty
    BY <1>2, Types, DriverAssumption DEF PutNew, Put, LocalPut, RedisPut, EtcdPut, Index
  <2> QED
    BY <2>1, <2>2 DEF StorageInv, NotTaken
<1> QED
  BY <1>1, <1>2

(* Without a crash, an index changes in a RemoveOld or a PutNew only.        *)
LEMMA IndexChanges ==
  ASSUME TypeInv, [Next]_vars, crashes' = crashes, NEW p \in Proc, call'[p] # call[p],
         index' # index
  PROVE  RemoveOld(p) \/ PutNew(p)
<1>1. ~Crash
  BY DEF TypeInv, TypeOK, Crash
<1>2. Invoke(p) \/ Step(p) \/ Fail(p)
  BY <1>1, OthersStay DEF Next, vars
<1>3. ~Invoke(p) /\ ~Fail(p)
  BY DEF Invoke, Save, Get, FindBy, TakeAnswer, Fail, ReadFails, WriteFails, store
<1>4. ~CheckTaken(p) /\ ~LookupOld(p) /\ ~SetUser(p) /\ ~Lookup(p) /\ ~Fetch(p)
  BY DEF CheckTaken, LookupOld, SetUser, Lookup, Fetch, store
<1> QED
  BY <1>2, <1>3, <1>4 DEF Step

(* While the store is not suspect, the index entries of other users are safe *)
(* from a Save, whose checks were made calls ago and whose old keys were    *)
(* never checked, also after a crash that cut another user's Save short.    *)
(* (In a suspect store they are not: Saves that overlap with one key, as in *)
(* UniqueKeys, or a key which a crash has freed and another user takes.)    *)
THEOREM OthersKeysStay == Spec => SavesLeaveOthersKeys
<1>1. TypeInv /\ StorageInv /\ [Next]_vars =>
        [\A p \in Proc :
           ~suspect /\ crashes' = crashes /\ Saving(p) /\ call'[p] # call[p]
             => \A k \in Kind, key \in Key :
                  index'[k][key] # index[k][key]
                    => index[k][key] \in {Empty, call[p].user.id}]_vars
  BY IndexChanges, ChangedEntryOwned
<1>2. Spec => []TypeInv
  BY InitType, NextType, PTL DEF Spec
<1> QED
  BY <1>1, <1>2, StorageInvariant, PTL DEF Spec, SavesLeaveOthersKeys
-----------------------------------------------------------------------------
(* A storage whose calls do not overlap is a UserStore.  In a calm stretch   *)
(* one goroutine moves, with a call that has the store to itself.           *)
LEMMA CalmCases ==
  ASSUME TypeInv, Calm, Calm', [Next]_vars
  PROVE  UNCHANGED vars \/ \E p \in Proc : Invoke(p) \/ Step(p)
<1>1. ~Crash
  BY DEF Crash, Calm
<1>2. \A p \in Proc : ~Fail(p)
  BY DEF Fail, ReadFails, WriteFails, Calm
<1> QED
  BY <1>1, <1>2 DEF Next

(* The indexes are exact for all users but the one that p may be saving.    *)
LEMMA AloneExact ==
  ASSUME TypeInv, StorageInv, CalmInv, Calm, NEW p \in Proc, ~Ready(p), NEW id \in UserID,
         Saving(p) => id # call[p].user.id
  PROVE  Exact(id)
<1>1. Settled(id)
  BY DEF Settled, Saving, SavePhase, Ready, Calm
<1> QED
  BY <1>1, SettledIsExact, NotEmpty DEF CalmInv, NoUser

LEMMA CalmStep ==
  ASSUME TypeInv, StorageInv, CalmInv, Calm, Calm', [Next]_vars
  PROVE  CalmInv'
<1>. call \in [Proc -> Call] /\ \A p \in Proc : call[p] \in Call
  BY DEF TypeInv, TypeOK
<1>0. CASE UNCHANGED vars
  BY <1>0 DEF vars, CalmInv, FindsOK, FindOK
<1>1. ASSUME NEW p \in Proc, Invoke(p) PROVE CalmInv'
  <2>1. /\ UNCHANGED index /\ UNCHANGED interrupted
        /\ \A q \in Proc \ {p} : call'[q] = call[q]
    BY <1>1 DEF Invoke, Save, Return, Get, FindBy, TakeAnswer, store, history
  <2>2. ~suspect'
    <3>1. ASSUME NEW user \in UserArgument, Save(p, user) PROVE ~suspect'
      <4>1. CASE Valid(user)
        <5>1. Saving(p)' /\ ~Saving(p)
          BY <3>1, <4>1 DEF Save, Idle, Saving, SavePhase, Ready
        <5>2. ASSUME NEW q \in Proc, Saving(q) PROVE FALSE
          <6>1. q # p /\ Saving(q)'
            BY <2>1, <5>1, <5>2 DEF Saving
          <6> QED
            BY <5>1, <6>1 DEF Calm, Saving, SavePhase, Ready
        <5>3. ~Overlaps(user)
          BY <5>2 DEF Overlaps
        <5>4. call'[p].user = user
          <6>. DEFINE c == [Idle EXCEPT !.pc = "check", !.kind = "email", !.user = user]
          <6>1. call' = [call EXCEPT ![p] = c]
            BY <3>1, <4>1 DEF Save
          <6> QED
            BY <6>1 DEF Idle
        <5>5. Encoded(user) = user
          BY <5>1, <5>4 DEF Calm, Faithful
        <5> QED
          BY <3>1, <4>1, <5>3, <5>5 DEF Save, CalmInv, MeetsTorn
      <4>2. CASE ~Valid(user)
        BY <3>1, <4>2 DEF Save, CalmInv
      <4> QED
        BY <4>1, <4>2
    <3>2. CASE UNCHANGED suspect
      BY <3>2 DEF CalmInv
    <3> QED
      BY <1>1, <3>1, <3>2 DEF Invoke, Get, FindBy, TakeAnswer, history
  <2>3. FindOK(p)'
    <3>1. ASSUME NEW user \in UserArgument, Save(p, user) PROVE FindOK(p)'
      BY <3>1 DEF Save, Return, Idle, FindOK
    <3>2. ASSUME NEW id \in UserID, Get(p, id) PROVE FindOK(p)'
      BY <3>2 DEF Get, Idle, FindOK
    <3>3. ASSUME NEW k \in Kind, NEW key \in Key, FindBy(p, k, key) PROVE FindOK(p)'
      BY <3>3 DEF FindBy, Idle, FindOK
    <3>4. CASE TakeAnswer(p)
      BY <3>4 DEF TakeAnswer, Idle, FindOK
    <3> QED
      BY <1>1, <3>1, <3>2, <3>3, <3>4 DEF Invoke, Kind, Key
  <2>4. FindsOK'
    <3>1. \A q \in Proc \ {p} : FindOK(q)'
      BY <2>1 DEF CalmInv, FindsOK, FindOK
    <3> QED
      BY <2>3, <3>1 DEF FindsOK
  <2> QED
    BY <2>1, <2>2, <2>4 DEF CalmInv
<1>2. ASSUME NEW p \in Proc, Step(p) PROVE CalmInv'
  <2>1. /\ UNCHANGED suspect /\ interrupted' \in {interrupted, NoUser}
        /\ \A q \in Proc \ {p} : call'[q] = call[q]
        /\ ~Ready(p)
    BY Zenon, <1>2, OthersStay
       DEF Step, CheckTaken, LookupOld, RemoveOld, PutNew, SetUser, Lookup, Fetch, Ready, history
  <2>2. \A q \in Proc \ {p} : FindOK(q)'
    BY <2>1 DEF Calm, Ready, FindOK
  <2>3. FindOK(p)'
    <3>1. CASE Saving(p)
      BY <1>2, <3>1, SaveMoves DEF FindOK, Saving, SavePhase
    <3>2. CASE Lookup(p)
      <4>1. CASE index[call[p].kind][call[p].key] = Empty
        BY <3>2, <4>1, ReturnMoves DEF Lookup, FindOK
      <4>2. CASE index[call[p].kind][call[p].key] # Empty
        BY <3>2, <4>2 DEF Lookup, Call, CalmInv, FindsOK, FindOK, store
      <4> QED
        BY <4>1, <4>2
    <3>3. CASE Fetch(p)
      BY <3>3, ReturnMoves DEF Fetch, FindOK
    <3>4. CASE ~Saving(p)
      BY <1>2, <3>2, <3>3, <3>4
         DEF Step, CheckTaken, LookupOld, RemoveOld, PutNew, SetUser, Saving, SavePhase
    <3> QED
      BY <3>1, <3>4
  <2>4. FindsOK'
    BY <2>2, <2>3 DEF FindsOK
  <2> QED
    BY Zenon, <2>1, <2>4 DEF CalmInv
<1> QED
  BY <1>0, <1>1, <1>2, CalmCases

(* The three ways in which a step of p looks to its caller: a call starts or *)
(* its answer is taken, a call is answered, or nothing is to be seen.       *)
LEMMA AskStep ==
  ASSUME NEW p \in Proc, Ready(p), UNCHANGED table,
         \A q \in Proc \ {p} : call'[q] = call[q],
         Asked(p)' \in Store!Find \cup Store!Save \cup {Store!Nothing},
         Answered(p)' = Store!NoAnswer
  PROVE  Store!Ask(p)
<1>1. \A q \in Proc \ {p} : Asked(q)' = Asked(q) /\ Answered(q)' = Answered(q)
  BY DEF Asked, Answered, Ready, Saving
<1>2. Asked(p) = Store!Nothing
  BY DEF Asked, Ready, Saving, SavePhase, Store!Nothing
<1> QED
  BY <1>1, <1>2 DEF Store!Ask

LEMMA AnswerStep ==
  ASSUME TypeInv, NEW p \in Proc, NEW err, NEW user, Return(p, err, user)
  PROVE  Store!Answer(p, err, user)
<1>1. \A q \in Proc \ {p} : Asked(q)' = Asked(q) /\ Answered(q)' = Answered(q)
  BY ReturnEffect DEF Asked, Answered, Ready, Saving
<1>2. Asked(p)' = Store!Nothing
  BY ReturnMoves DEF Asked, Ready, Saving, SavePhase, Store!Nothing
<1>3. Answered(p)' = [err |-> err, user |-> user]
  BY ReturnMoves DEF Answered
<1> QED
  BY <1>1, <1>2, <1>3 DEF Store!Answer

LEMMA SilentStep ==
  ASSUME NEW p \in Proc, UNCHANGED table,
         \A q \in Proc \ {p} : call'[q] = call[q],
         Asked(p)' = Asked(p), Answered(p)' = Answered(p)
  PROVE  UNCHANGED Store!vars
<1>1. \A q \in Proc : Asked(q)' = Asked(q) /\ Answered(q)' = Answered(q)
  BY DEF Asked, Answered, Ready, Saving
<1> QED
  BY <1>1 DEF Store!vars

BusyAsks ==
  \A p \in Proc :
    /\ Saving(p) => /\ Asked(p) = [op |-> "save", kind |-> "id", key |-> Empty,
                                   user |-> call[p].user]
                    /\ Answered(p) = Store!NoAnswer
    /\ call[p].pc \in {"lookup", "fetch"} =>
         /\ Asked(p) = [op |-> "find", kind |-> call[p].kind, key |-> call[p].key,
                        user |-> NoUser]
         /\ Answered(p) = Store!NoAnswer

LEMMA BusyCallers == BusyAsks
BY DEF BusyAsks, Asked, Answered, Ready, Saving, SavePhase, Store!NoAnswer

LEMMA BusyCallersNext == BusyAsks'
BY BusyCallers, PTL

LEMMA InvokeRefines ==
  ASSUME TypeInv, NEW p \in Proc, Invoke(p)
  PROVE  Store!Next
<1>. call \in [Proc -> Call] /\ call[p] \in Call
  BY DEF TypeInv, TypeOK
<1>1. ASSUME NEW user \in UserArgument, Save(p, user) PROVE Store!Next
  <2>1. CASE Valid(user)
    <3>1. /\ call'[p].pc = "check" /\ call'[p].user = user /\ user \in User
          /\ Ready(p) /\ UNCHANGED table /\ \A q \in Proc \ {p} : call'[q] = call[q]
      BY <1>1, <2>1, ValidArgument DEF Save, Idle, store
    <3>2. Asked(p)' = [op |-> "save", kind |-> "id", key |-> Empty, user |-> user]
      BY <3>1 DEF Asked, Ready, Saving, SavePhase
    <3>3. Answered(p)' = Store!NoAnswer
      BY <3>1 DEF Answered, Store!NoAnswer
    <3>4. Store!Ask(p)
      BY <3>1, <3>2, <3>3, AskStep DEF Store!Save
    <3> QED
      BY <3>4 DEF Store!Next
  <2>2. CASE ~Valid(user)
    <3>1. Return(p, "InvalidUserObject", NoUser) /\ UNCHANGED table /\ Ready(p)
      BY <1>1, <2>2 DEF Save, store
    <3>2. Asked(p) = Store!Nothing
      BY <3>1 DEF Asked, Ready, Saving, SavePhase, Store!Nothing
    <3>3. Store!RefuseInvalid(p)
      BY <3>1, <3>2, AnswerStep DEF Store!RefuseInvalid
    <3> QED
      BY <3>3 DEF Store!Next
  <2> QED
    BY <2>1, <2>2
<1>2. ASSUME NEW c, call' = [call EXCEPT ![p] = c], Ready(p), UNCHANGED table,
             c.pc \in {"lookup", "fetch"}, c.kind \in Kind \cup {"id"}, c.key \in Key \cup UserID
      PROVE  Store!Next
  <2>1. call'[p] = c /\ \A q \in Proc \ {p} : call'[q] = call[q]
    BY <1>2
  <2>2. Asked(p)' = [op |-> "find", kind |-> c.kind, key |-> c.key, user |-> NoUser]
    BY <1>2, <2>1 DEF Asked, Ready, Saving, SavePhase
  <2>3. Answered(p)' = Store!NoAnswer
    BY <1>2, <2>1 DEF Answered, Store!NoAnswer
  <2>4. Asked(p)' \in Store!Find
    BY <1>2, <2>2 DEF Store!Find, Store!Kind, Kind
  <2>5. Store!Ask(p)
    BY <1>2, <2>1, <2>3, <2>4, AskStep
  <2> QED
    BY <2>5 DEF Store!Next
<1>3. ASSUME NEW id \in UserID, Get(p, id) PROVE Store!Next
  BY <1>2, <1>3 DEF Get, Idle, store
<1>4. ASSUME NEW k \in Kind, NEW key \in Key, FindBy(p, k, key) PROVE Store!Next
  BY <1>2, <1>4 DEF FindBy, Idle, store
<1>5. CASE TakeAnswer(p)
  <2>1. call'[p] = Idle /\ \A q \in Proc \ {p} : call'[q] = call[q]
    BY <1>5 DEF TakeAnswer
  <2>2. Asked(p)' = Store!Nothing /\ Answered(p)' = Store!NoAnswer
    BY <2>1 DEF Idle, Asked, Answered, Ready, Saving, SavePhase, Store!Nothing, Store!NoAnswer
  <2>3. Store!Ask(p)
    BY <1>5, <2>1, <2>2, AskStep DEF TakeAnswer, Ready, store
  <2> QED
    BY <2>3 DEF Store!Next
<1> QED
  BY <1>1, <1>3, <1>4, <1>5 DEF Invoke, Kind, Key

(* With exact indexes, the check of an index finds the conflict that there   *)
(* is, and a Save past its checks has none.                                 *)
LEMMA ConflictsFound ==
  ASSUME TypeInv, StorageInv, CalmInv, Calm, NEW p \in Proc, Saving(p), NEW k \in Kind
  PROVE  k \in Store!Conflicts(call[p].user) <=> TakenByOtherUser(call[p].user, k)
<1>. DEFINE user == call[p].user
<1>1. user.id \in UserID /\ user[k] \in Key \cup {Empty} /\ ~Ready(p)
  BY Types DEF Ready, Saving, SavePhase
<1>2. \A id \in UserID \ {user.id} : Exact(id)
  BY <1>1, AloneExact
<1>3. user[k] # Empty => index[k][user[k]] \in UserID \cup {Empty}
  BY <1>1, Types DEF Index
<1>4. user[k] # Empty =>
        (index[k][user[k]] \notin {Empty, user.id}
           <=> \E id \in UserID \ {user.id} : table[id][k] = user[k])
  BY <1>1, <1>2, <1>3, NotEmpty DEF Exact
<1>5. k \in Store!Conflicts(user)
        <=> \E id \in UserID : id # user.id /\ user[k] # Empty /\ table[id][k] = user[k]
  BY DEF Store!Conflicts, Store!Kind, Kind
<1> QED
  BY <1>4, <1>5 DEF TakenByOtherUser

LEMMA NoConflicts ==
  ASSUME TypeInv, StorageInv, CalmInv, Calm, NEW p \in Proc, Writing(p)
  PROVE  Store!Conflicts(call[p].user) = {}
<1>1. Saving(p) /\ \A k \in Kind : Checked(p, k)
  BY DEF Saving, Writing, SavePhase, Checked
<1>2. \A k \in Kind : ~TakenByOtherUser(call[p].user, k)
  BY <1>1 DEF StorageInv, CalmInv, NotTaken, TakenByOtherUser
<1> QED
  BY <1>1, <1>2, ConflictsFound DEF Store!Conflicts, Store!Kind, Kind

(* A step within a Save changes nothing that a caller can see.              *)
LEMMA WithinSave ==
  ASSUME TypeInv, NEW p \in Proc, Saving(p), Saving(p)', call'[p].user = call[p].user,
         UNCHANGED table, \A q \in Proc \ {p} : call'[q] = call[q]
  PROVE  UNCHANGED Store!vars
<1>1. Asked(p)' = Asked(p) /\ Answered(p)' = Answered(p)
  BY BusyCallers, BusyCallersNext DEF BusyAsks, Store!NoAnswer
<1> QED
  BY <1>1, SilentStep

LEMMA SaveRefines ==
  ASSUME TypeInv, StorageInv, CalmInv, Calm, NEW p \in Proc, Saving(p), Step(p)
  PROVE  Store!Saved(p) \/ Store!Taken(p) \/ UNCHANGED Store!vars
<1>. DEFINE user == call[p].user
            k0   == call[p].kind
<1>0. /\ k0 \in Kind /\ user \in User /\ user.id \in UserID
      /\ Asked(p).op = "save" /\ Asked(p).user = user
      /\ \A q \in Proc \ {p} : call'[q] = call[q]
  BY Types, BusyCallers, OthersStay DEF BusyAsks
<1>1. CASE CheckTaken(p)
  <2>1. CASE TakenByOtherUser(user, k0)
    <3>1. Return(p, TakenError(k0), NoUser) /\ UNCHANGED table /\ call[p].pc = "check"
      BY <1>1, <2>1 DEF CheckTaken, store
    <3>2. k0 \in Store!Conflicts(user)
      BY <1>0, <2>1, ConflictsFound
    <3>3. "email" \in Store!Conflicts(user) <=> k0 = "email"
      <4>1. CASE k0 = "email"
        BY <3>2, <4>1
      <4>2. CASE k0 # "email"
        <5>1. "email" \in Kind /\ Checked(p, "email")
          BY <3>1, <4>2 DEF Checked, Before, Kind
        <5>2. ~TakenByOtherUser(user, "email")
          BY <5>1 DEF StorageInv, CalmInv, NotTaken, TakenByOtherUser
        <5> QED
          BY <4>2, <5>1, <5>2, ConflictsFound
      <4> QED
        BY <4>1, <4>2
    <3>4. Store!Answer(p, TakenError(k0), NoUser)
      BY <3>1, AnswerStep
    <3>5. Store!Taken(p)
      BY <1>0, <3>1, <3>2, <3>3, <3>4 DEF Store!Taken, TakenError
    <3> QED
      BY <3>5
  <2>2. CASE ~TakenByOtherUser(user, k0)
    <3>1. \E pc \in SavePhase : \E k : Goto(p, pc, k)
      BY <1>0, <1>1, <2>2 DEF CheckTaken, SavePhase, Kind
    <3>2. UNCHANGED table
      BY <1>1 DEF CheckTaken, store
    <3> QED
      BY <1>0, <3>1, <3>2, GotoMoves, WithinSave
  <2> QED
    BY <2>1, <2>2
<1>2. CASE LookupOld(p)
  <2>1. call'[p].pc = "remove" /\ call'[p].user = user /\ UNCHANGED table
    BY <1>2 DEF LookupOld, TypeInv, TypeOK, Call, store
  <2> QED
    BY <1>0, <2>1, WithinSave DEF Saving, SavePhase
<1>3. CASE RemoveOld(p)
  <2>1. \E pc \in SavePhase : \E k : Goto(p, pc, k)
    BY <1>0, <1>3 DEF RemoveOld, AfterRemove, SavePhase, Kind
  <2> QED
    BY <1>0, <1>3, <2>1, GotoMoves, WithinSave DEF RemoveOld
<1>4. CASE PutNew(p)
  <2>1. \E pc \in SavePhase : \E k : Goto(p, pc, k)
    BY <1>0, <1>4 DEF PutNew, AfterPut, SavePhase, Kind
  <2> QED
    BY <1>0, <1>4, <2>1, GotoMoves, WithinSave DEF PutNew
<1>5. CASE SetUser(p)
  <2>0. Writing(p) /\ Saving(p) /\ Encoded(user) = user
    BY <1>5 DEF SetUser, Writing, Saving, SavePhase, Calm, Faithful
  <2>1. Return(p, "nil", NoUser) /\ table' = [table EXCEPT ![user.id] = user] /\ Writing(p)
    BY <1>5, <2>0 DEF SetUser, SetRecord
  <2>2. Store!Answer(p, "nil", NoUser)
    BY <2>1, AnswerStep
  <2>3. Store!Saved(p)
    BY Zenon, <1>0, <2>1, <2>2, NoConflicts DEF Store!Saved
  <2> QED
    BY <2>3
<1>6. ~Lookup(p) /\ ~Fetch(p)
  BY DEF Lookup, Fetch, Saving, SavePhase
<1> QED
  BY <1>1, <1>2, <1>3, <1>4, <1>5, <1>6 DEF Step

(* A find answers the record that has the key, if there is one.             *)
LEMMA FindRefines ==
  ASSUME TypeInv, StorageInv, CalmInv, Calm, NEW p \in Proc, ~Saving(p), Step(p)
  PROVE  Store!Found(p) \/ Store!NotFound(p) \/ UNCHANGED Store!vars
<1>. DEFINE k   == call[p].kind
            key == call[p].key
<1>1. /\ Lookup(p) \/ Fetch(p)
      /\ \A q \in Proc \ {p} : call'[q] = call[q]
  BY Zenon, OthersStay
     DEF Step, CheckTaken, LookupOld, RemoveOld, PutNew, SetUser, Saving, SavePhase
<1>2. /\ call[p].pc \in {"lookup", "fetch"} /\ ~Ready(p) /\ FindOK(p) /\ UNCHANGED table
      /\ call \in [Proc -> Call] /\ call[p] \in Call
  BY <1>1 DEF Lookup, Fetch, Ready, CalmInv, FindsOK, store, TypeInv, TypeOK
<1>3. Asked(p) = [op |-> "find", kind |-> k, key |-> key, user |-> NoUser]
  BY <1>2, BusyCallers DEF BusyAsks
<1>4. \A id \in UserID : Exact(id)
  BY <1>2, AloneExact
<1>5. CASE Lookup(p)
  <2>0. k \in Kind /\ key \in Key
    BY <1>2, <1>5 DEF Lookup, FindOK
  <2>1. CASE index[k][key] = Empty
    <3>1. Return(p, "UserNotFound", NoUser)
      BY <1>5, <2>1 DEF Lookup
    <3>2. Store!Answer(p, "UserNotFound", NoUser)
      BY <3>1, AnswerStep
    <3>3. \A id \in UserID : table[id][k] # key
      BY <1>4, <2>0, <2>1, NotEmpty DEF Exact
    <3>4. Store!NotFound(p)
      BY <1>2, <1>3, <3>2, <3>3 DEF Store!NotFound
    <3> QED
      BY <3>4
  <2>2. CASE index[k][key] # Empty
    <3>1. /\ call'[p].pc = "fetch" /\ call'[p].kind = k /\ call'[p].key = key
      BY <1>2, <1>5, <2>2 DEF Lookup, Call
    <3>2. Asked(p)' = Asked(p) /\ Answered(p)' = Answered(p)
      BY <1>2, <1>3, <3>1, BusyCallers, BusyCallersNext DEF BusyAsks, Store!NoAnswer
    <3> QED
      BY <1>1, <1>2, <3>2, SilentStep
  <2> QED
    BY <2>1, <2>2
<1>6. CASE Fetch(p)
  <2>. DEFINE id == call[p].id
  <2>0. id \in UserID /\ table[id] \in User \cup {NoUser}
    BY <1>6, Types DEF Fetch, TypeInv, CallOK, Fits
  <2>1. CASE table[id] = NoUser
    <3>1. Return(p, "UserNotFound", NoUser)
      BY <1>6, <2>1 DEF Fetch
    <3>2. Store!Answer(p, "UserNotFound", NoUser)
      BY <3>1, AnswerStep
    <3>3. k = "id" /\ key = id
      <4>1. ASSUME k \in Kind, key \in Key, index[k][key] = id PROVE FALSE
        <5>1. table[id][k] = key
          BY <1>4, <2>0, <4>1 DEF Exact
        <5> QED
          BY <2>1, <4>1, <5>1, NoUserKeys, NotEmpty
      <4> QED
        BY <1>2, <1>6, <4>1 DEF Fetch, FindOK
    <3>4. \A i \in UserID : table[i] = NoUser \/ table[i].id = i
      BY <2>0, Types, NotEmpty DEF TypeInv, TypeOK, WellFormed, User
    <3>5. Store!NotFound(p)
      BY <1>2, <1>3, <2>1, <3>2, <3>3, <3>4 DEF Store!NotFound
    <3> QED
      BY <3>5
  <2>2. CASE table[id] # NoUser
    <3>1. Return(p, "nil", table[id])
      BY <1>6, <2>2 DEF Fetch
    <3>2. Store!Answer(p, "nil", table[id])
      BY <3>1, AnswerStep
    <3>3. table[id][k] = key
      <4>1. CASE k = "id" /\ key = id
        BY <2>0, <2>2, <4>1, NotEmpty DEF TypeInv, TypeOK, WellFormed, User
      <4>2. CASE k \in Kind /\ key \in Key /\ index[k][key] = id
        BY <1>4, <2>0, <4>2 DEF Exact
      <4> QED
        BY <1>2, <1>6, <4>1, <4>2 DEF Fetch, FindOK
    <3>4. Store!Found(p)
      BY <1>2, <1>3, <2>0, <2>2, <3>2, <3>3 DEF Store!Found
    <3> QED
      BY <3>4
  <2> QED
    BY <2>1, <2>2
<1> QED
  BY <1>1, <1>5, <1>6

LEMMA CalmRefines ==
  ASSUME TypeInv, StorageInv, CalmInv, Calm, Calm', [Next]_vars
  PROVE  [Store!Next]_(Store!vars)
<1>1. CASE UNCHANGED vars
  BY <1>1 DEF vars, Store!vars, Asked, Answered, Ready, Saving
<1>2. ASSUME NEW p \in Proc, Invoke(p) PROVE Store!Next
  BY <1>2, InvokeRefines
<1>3. ASSUME NEW p \in Proc, Step(p) PROVE Store!Next \/ UNCHANGED Store!vars
  BY <1>3, SaveRefines, FindRefines DEF Store!Next
<1> QED
  BY <1>1, <1>2, <1>3, CalmCases

(* While no call overlaps another, no driver call fails and the process      *)
(* lives, keyvalue.go implements the UserStorage of backends.go: its ten    *)
(* driver calls look like one step on a map of users.                       *)
THEOREM StorageActsAsUserStore == Spec /\ []Calm => ActsAsUserStore
<1>1. Init => TypeInv /\ StorageInv /\ CalmInv /\ Store!Init
  <2>1. Init => CalmInv
    BY DEF Init, Idle, CalmInv, FindsOK, FindOK
  <2>2. Init => Store!Init
    BY DEF Init, Idle, Store!Init, Store!Nothing, Store!NoAnswer, Asked, Answered,
                Ready, Saving, SavePhase
  <2> QED
    BY <2>1, <2>2, InitType, InitInv
<1>2. TypeInv /\ StorageInv /\ [Next]_vars => TypeInv' /\ StorageInv'
  BY NextType, InvStep
<1>3. TypeInv /\ StorageInv /\ CalmInv /\ Calm /\ Calm' /\ [Next]_vars
        => CalmInv' /\ [Store!Next]_(Store!vars)
  BY CalmStep, CalmRefines
<1> QED
  BY <1>1, <1>2, <1>3, PTL DEF Spec, ActsAsUserStore, Store!Spec
-----------------------------------------------------------------------------
(* The same for those who use the storage, in terms of its calls.            *)
LEMMA FindExact ==
  ASSUME TypeInv, StorageInv, CalmInv, Calm, NEW p \in Proc, ~Saving(p), Step(p)
  PROVE  /\ UNCHANGED table
         /\ \/ /\ call'[p].pc = "fetch" /\ call'[p].kind = call[p].kind
               /\ call'[p].key = call[p].key
            \/ /\ call'[p].pc = "done" /\ call'[p].err = "nil" /\ call'[p].user # NoUser
               /\ call'[p].user = table[call'[p].user.id]
               /\ call'[p].user[call[p].kind] = call[p].key
            \/ /\ call'[p].pc = "done" /\ call'[p].err = "UserNotFound"
               /\ \A id \in UserID : table[id] = NoUser \/ table[id][call[p].kind] # call[p].key
<1>. DEFINE k   == call[p].kind
            key == call[p].key
<1>1. UNCHANGED table /\ call[p].pc \in {"lookup", "fetch"}
  BY FindMoves DEF store
<1>2. /\ Asked(p) = [op |-> "find", kind |-> k, key |-> key, user |-> NoUser]
      /\ Answered(p) = Store!NoAnswer
  BY <1>1, BusyCallers DEF BusyAsks
<1>3. \A q \in Proc : Answered(q)' = [err |-> call'[q].err, user |-> call'[q].user]
                       \/ (call'[q].pc # "done" /\ Answered(q)' = Store!NoAnswer)
  BY DEF Answered, Store!NoAnswer
<1>4. CASE Store!Found(p)
  <2>1. PICK id \in UserID : /\ table[id] # NoUser /\ table[id][k] = key
                             /\ Store!Answer(p, "nil", table[id])
    BY <1>2, <1>4 DEF Store!Found
  <2>2. Answered(p)' = [err |-> "nil", user |-> table[id]]
    BY <2>1 DEF Store!Answer
  <2>3. call'[p].pc = "done" /\ call'[p].err = "nil" /\ call'[p].user = table[id]
    BY <2>2 DEF Answered
  <2>4. table[id].id = id
    BY <2>1, Types, NotEmpty DEF TypeInv, TypeOK, WellFormed, User
  <2> QED
    BY <1>1, <2>1, <2>3, <2>4
<1>5. CASE Store!NotFound(p)
  <2>1. /\ \A id \in UserID : table[id] = NoUser \/ table[id][k] # key
        /\ Store!Answer(p, "UserNotFound", NoUser)
    BY <1>2, <1>5 DEF Store!NotFound
  <2>2. Answered(p)' = [err |-> "UserNotFound", user |-> NoUser]
    BY <2>1 DEF Store!Answer
  <2>3. call'[p].pc = "done" /\ call'[p].err = "UserNotFound"
    BY <2>2 DEF Answered
  <2> QED
    BY <1>1, <2>1, <2>3
<1>6. CASE UNCHANGED Store!vars
  <2>1. Answered(p)' = Store!NoAnswer /\ Asked(p)' = Asked(p)
    BY <1>2, <1>6 DEF Store!vars
  <2>2. call'[p].pc # "done" \/ call'[p].err = "none"
    BY <2>1 DEF Answered, Store!NoAnswer
  <2>3. call'[p].pc = "fetch"
    BY <2>2, FindMoves
  <2>4. Asked(p)' = [op |-> "find", kind |-> call'[p].kind, key |-> call'[p].key, user |-> NoUser]
    BY <2>3, BusyCallersNext DEF BusyAsks
  <2> QED
    BY <1>1, <1>2, <2>1, <2>3, <2>4
<1> QED
  BY <1>4, <1>5, <1>6, FindRefines

LEMMA SaveExact ==
  ASSUME TypeInv, StorageInv, CalmInv, Calm, NEW p \in Proc, Saving(p), Step(p)
  PROVE  LET user == call[p].user
         IN  \/ Saving(p)' /\ call'[p].user = user /\ UNCHANGED table
             \/ /\ call'[p].pc = "done" /\ call'[p].err = "nil" /\ Store!Conflicts(user) = {}
                /\ table' = [table EXCEPT ![user.id] = user]
             \/ /\ call'[p].pc = "done" /\ UNCHANGED table /\ Store!Conflicts(user) # {}
                /\ call'[p].err = IF "email" \in Store!Conflicts(user)
                                  THEN "EmailAlreadyTaken" ELSE "LoginNameAlreadyTaken"
<1>. DEFINE user == call[p].user
<1>1. Asked(p).op = "save" /\ Asked(p).user = user /\ Answered(p) = Store!NoAnswer
  BY BusyCallers DEF BusyAsks
<1>2. CASE Store!Saved(p)
  <2>1. /\ Store!Conflicts(user) = {} /\ table' = [table EXCEPT ![user.id] = user]
        /\ Store!Answer(p, "nil", NoUser)
    BY <1>1, <1>2 DEF Store!Saved
  <2>2. Answered(p)' = [err |-> "nil", user |-> NoUser]
    BY <2>1 DEF Store!Answer
  <2>3. call'[p].pc = "done" /\ call'[p].err = "nil"
    BY <2>2 DEF Answered
  <2> QED
    BY <2>1, <2>3
<1>3. CASE Store!Taken(p)
  <2>. DEFINE err == IF "email" \in Store!Conflicts(user) THEN "EmailAlreadyTaken"
                                                         ELSE "LoginNameAlreadyTaken"
  <2>1. /\ Store!Conflicts(user) # {} /\ UNCHANGED table
        /\ Store!Answer(p, err, NoUser)
    BY <1>1, <1>3 DEF Store!Taken
  <2>2. Answered(p)' = [err |-> err, user |-> NoUser]
    BY <2>1 DEF Store!Answer
  <2>3. call'[p].pc = "done" /\ call'[p].err = err
    BY <2>2 DEF Answered
  <2> QED
    BY <2>1, <2>3
<1>4. CASE UNCHANGED Store!vars
  <2>1. Answered(p)' = Store!NoAnswer /\ UNCHANGED table
    BY <1>1, <1>4 DEF Store!vars
  <2>2. call'[p].pc # "done" \/ call'[p].err = "none"
    BY <2>1 DEF Answered, Store!NoAnswer
  <2>3. call'[p].err # "none"
    <3>1. call'[p] \in Call
      BY NextType DEF TypeInv, TypeOK, Next
    <3> QED
      BY <3>1 DEF Call, Error
  <2> QED
    BY <2>1, <2>2, <2>3, SaveMoves
<1> QED
  BY <1>2, <1>3, <1>4, SaveRefines

(* No user has a key of another.                                            *)
LEMMA NoKeysShared ==
  ASSUME TypeInv, StorageInv, CalmInv, \A q \in Proc : ~Saving(q), NEW id \in UserID
  PROVE  table[id] # NoUser => Store!Conflicts(table[id]) = {}
<1>1. \A i \in UserID : Exact(i)
  BY SettledIsExact, NotEmpty DEF Settled, CalmInv, NoUser
<1>2. ASSUME NEW i \in UserID, NEW k \in Kind, i # id, table[id][k] # Empty,
             table[i][k] = table[id][k]
      PROVE  FALSE
  <2>1. table[id][k] \in Key
    BY <1>2, RecordKeys, NoUserKeys, Types
  <2> QED
    BY <1>1, <1>2, <2>1 DEF Exact
<1>3. table[id] # NoUser => table[id].id = id
  BY Types, NotEmpty DEF TypeInv, TypeOK, WellFormed, User
<1> QED
  BY <1>2, <1>3 DEF Store!Conflicts, Store!Kind, Kind

(* A user's own key does not conflict while its Save has not taken it out.   *)
LEMMA OwnKeyFree ==
  ASSUME TypeInv, StorageInv, CalmInv, Calm, NEW p \in Proc, Saving(p), NEW k \in Kind,
         call[p].user[k] = table[call[p].user.id][k]
  PROVE  k \notin Store!Conflicts(call[p].user)
<1>. DEFINE user == call[p].user
<1>1. user.id \in UserID /\ user[k] \in Key \cup {Empty}
  BY Types
<1>2. CASE Writing(p)
  BY <1>2, NoConflicts
<1>3. CASE ~Writing(p)
  <2>1. ~Cleared(p, k) /\ ~Entered(p, k)
    BY <1>3 DEF Cleared, Entered, Writing
  <2>2. ExactFor(p)
    BY <1>1, NotEmpty DEF StorageInv, CalmInv, SavingExact, NoUser
  <2>3. user[k] # Empty => index[k][user[k]] = user.id
    BY <1>1, <2>1, <2>2 DEF ExactFor, Holds
  <2> QED
    BY <2>3, ConflictsFound DEF TakenByOtherUser
<1> QED
  BY <1>2, <1>3

(* Under Calm a record that is written shares no key with another.          *)
LEMMA SharesNothing ==
  ASSUME TypeInv, StorageInv, CalmInv, Calm, Calm', [Next]_vars, NoSharedKeys(table)
  PROVE  NoSharedKeys(table')
<1>1. CASE UNCHANGED vars \/ \E p \in Proc : Invoke(p)
  <2>1. UNCHANGED table
    BY <1>1 DEF vars, store, Invoke, Get, FindBy, Save, TakeAnswer
  <2> QED
    BY <2>1
<1>2. ASSUME NEW p \in Proc, Step(p) PROVE NoSharedKeys(table')
  <2>1. CASE UNCHANGED table
    BY <2>1
  <2>2. CASE table' # table
    <3>. DEFINE user == call[p].user
    <3>1. Saving(p)
      BY <1>2, <2>2, FindExact
    <3>2. Store!Conflicts(user) = {} /\ table' = [table EXCEPT ![user.id] = user]
      BY <1>2, <2>2, <3>1, SaveExact
    <3>3. \A i \in UserID, k \in Kind :
            i # user.id /\ user[k] # Empty => table[i][k] # user[k]
      BY <3>2 DEF Store!Conflicts, Store!Kind, Kind
    <3>4. \A i \in UserID : table'[i] = IF i = user.id THEN user ELSE table[i]
      BY <3>2 DEF TypeInv, TypeOK
    <3>. HIDE DEF user
    <3> QED
      BY <3>3, <3>4 DEF NoSharedKeys
  <2> QED
    BY <2>1, <2>2
<1> QED
  BY <1>1, <1>2, CalmCases

(* EmailsUnique, the README's promise, while calls of keyvalue.go do not     *)
(* overlap, no driver call fails and the process lives.  (The run UniqueKeys *)
(* shows how two calls that overlap break it.)                              *)
THEOREM CalmEmailsUnique == Spec /\ []Calm => []EmailsUnique
<1>. DEFINE Inv == TypeInv /\ StorageInv /\ CalmInv /\ NoSharedKeys(table)
<1>1. Init => Inv
  <2>1. Init => CalmInv
    BY DEF Init, Idle, CalmInv, FindsOK, FindOK
  <2>2. Init => NoSharedKeys(table)
    <3>1. EmptyTable \in {EmptyTable} /\ NoSharedKeys(EmptyTable)
      BY DEF NoSharedKeys, EmptyTable, NoUser, Kind
    <3> QED
      BY <3>1, EarlierAssumption DEF Init
  <2> QED
    BY <2>1, <2>2, InitType, InitInv
<1>2. Inv /\ Calm /\ Calm' /\ [Next]_vars => Inv'
  <2>1. NoSharedKeys(table') <=> NoSharedKeys(table)'
    BY DEF NoSharedKeys
  <2> QED
    BY <2>1, NextType, InvStep, CalmStep, SharesNothing
<1>3. Inv => EmailsUnique
  BY DEF NoSharedKeys, EmailsUnique, Kind
<1>. HIDE DEF Inv
<1> QED
  BY <1>1, <1>2, <1>3, PTL DEF Spec
=============================================================================
