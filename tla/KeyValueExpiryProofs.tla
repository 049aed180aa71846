------------------------ MODULE KeyValueExpiryProofs -------------------------
(***************************************************************************)
(* EntriesLeadToUsers holds in every state of KeyValueExpiry, for every set *)
(* of goroutines, users and keys, whenever etcd drops which entry.  ExpiryInv *)
(* is inductive: of what StorageInv says, only this much survives entries   *)
(* that vanish under a Save.                                                *)
(***************************************************************************)
EXTENDS KeyValueExpiry, KeyValueStorageInvProofs

Explained(id, k, key) == LedTo(id, k, key) \/ EnteredBySave(id, k, key) \/ LeftByCrash(id, k, key)

AllExplained ==
  \A id \in UserID, k \in Kind, key \in Key : index[k][key] = id => Explained(id, k, key)

LEMMA InvParts == ExpiryInv <=> (~suspect => OneSave /\ OldKnownOrGone /\ AllExplained)
BY DEF ExpiryInv, AllExplained, Explained

LEMMA InvPartsNext ==
  ExpiryInv' <=> (~suspect' => OneSave' /\ OldKnownOrGone' /\ AllExplained')
BY InvParts, PTL

(* No index entry is the record of a user.                                  *)
LEMMA EntriesDiffer ==
  ASSUME NEW k \in Kind, NEW key, NEW id
  PROVE  Entry(k, key) # Record(id)
BY DEF Kind, Entry, Record

LEMMA EntriesEqual ==
  ASSUME NEW k, NEW key, NEW j, NEW other
  PROVE  Entry(k, key) = Entry(j, other) <=> k = j /\ key = other
BY DEF Entry

(* What is left of the order when an entry goes, or is written again.       *)
LEMMA WithoutKeeps ==
  ASSUME NEW a, NEW b, NEW entry, a # entry, b # entry
  PROVE  <<a, b>> \in Without(entry) <=> <<a, b>> \in older
BY DEF Without

LEMMA YoungestKeeps ==
  ASSUME NEW a, NEW b, NEW entry, a # entry, b # entry, <<a, b>> \in older
  PROVE  <<a, b>> \in Youngest(entry)
BY DEF Youngest, Without

LEMMA YoungestEnds ==
  ASSUME NEW a \in Live, NEW entry, a # entry
  PROVE  <<a, entry>> \in Youngest(entry)
BY DEF Youngest

LEMMA IndexLives ==
  ASSUME TypeInv, NEW k \in Kind, NEW key \in Key, index[k][key] \in UserID
  PROVE  Entry(k, key) \in Live
<1>. DEFINE y == <<k, key>>
<1>1. y \in {x \in Kind \X Key : index[x[1]][x[2]] # Empty} /\ y[1] = k /\ y[2] = key
  BY NotEmpty
<1> QED
  BY <1>1 DEF Live

(* interrupted is a record whenever something was left of one.              *)
LEMMA LeftRecord ==
  ASSUME TypeInv, NEW id \in UserID, NEW k, NEW key, LeftByCrash(id, k, key)
  PROVE  interrupted # NoUser
BY NotEmpty DEF LeftByCrash, NoUser
-----------------------------------------------------------------------------
(* A step that writes nothing, clears no index and loses no Save that has    *)
(* entered a key.                                                           *)
LEMMA StillStep ==
  ASSUME TypeInv, ExpiryInv, NEW p \in Proc,
         UNCHANGED store, UNCHANGED history, UNCHANGED older,
         \A q \in Proc \ {p} : call'[q] = call[q],
         Saving(p)' => Saving(p) /\ call'[p].user = call[p].user,
         Writing(p)' => call'[p].old = table[call[p].user.id],
         \A k \in Kind : ~Entered(p, k) /\ ~Cleared(p, k)'
  PROVE  ExpiryInv'
<1>. SUFFICES ASSUME ~suspect PROVE ExpiryInv'
  BY DEF ExpiryInv, history
<1>. USE DEF store, history
<1>. OneSave /\ OldKnownOrGone /\ AllExplained
  BY InvParts
<1>0. \A q \in Proc : Writing(q) => Saving(q)
  BY DEF Writing, Saving, SavePhase
<1>0a. Writing(p)' => Saving(p)'
  BY DEF Writing, Saving, SavePhase
<1>1. OneSave'
  BY DEF OneSave, Faithful, Saving
<1>2. OldKnownOrGone'
  BY <1>0a DEF OldKnownOrGone, Writing
<1>3. AllExplained'
  <2>. SUFFICES ASSUME NEW id \in UserID, NEW k \in Kind, NEW key \in Key, index[k][key] = id
                PROVE  Explained(id, k, key)'
    BY DEF AllExplained
  <2>1. CASE LedTo(id, k, key)
    <3>1. LedTo(id, k, key)'
      BY <2>1 DEF LedTo, Saving, Cleared
    <3> QED
      BY <3>1 DEF Explained
  <2>2. CASE EnteredBySave(id, k, key)
    <3>1. PICK q \in Proc : /\ Saving(q) /\ call[q].user.id = id
                            /\ Entered(q, k) /\ call[q].user[k] = key
      BY <2>2 DEF EnteredBySave
    <3>2. call'[q] = call[q]
      BY <3>1
    <3>3. EnteredBySave(id, k, key)'
      BY <3>1, <3>2 DEF EnteredBySave, Saving, Entered
    <3> QED
      BY <3>3 DEF Explained
  <2>3. CASE LeftByCrash(id, k, key)
    <3>1. LeftByCrash(id, k, key)'
      BY <2>3 DEF LeftByCrash
    <3> QED
      BY <3>1 DEF Explained
  <2> QED
    BY <2>1, <2>2, <2>3 DEF AllExplained, Explained
<1> QED
  BY <1>1, <1>2, <1>3, InvPartsNext

(* A Save begins: alone with its user, or suspect is set.                   *)
LEMMA BeginExpiry ==
  ASSUME TypeInv, ExpiryInv, NEW p \in Proc, NEW user \in User, Save(p, user), Valid(user),
         UNCHANGED older
  PROVE  ExpiryInv'
<1>1. /\ call' = [call EXCEPT ![p] = [Idle EXCEPT !.pc = "check", !.kind = "email", !.user = user]]
      /\ suspect' = (suspect \/ Overlaps(user) \/ MeetsTorn(user) \/ Encoded(user) # user)
      /\ UNCHANGED <<table, index, interrupted>>
      /\ Ready(p)
  BY DEF Save, store
<1>. SUFFICES ASSUME ~suspect, ~Overlaps(user), ~MeetsTorn(user), Encoded(user) = user
              PROVE  ExpiryInv'
  BY <1>1, InvPartsNext
<1>. OneSave /\ OldKnownOrGone /\ AllExplained
  BY InvParts
<1>2. /\ \A q \in Proc \ {p} : call'[q] = call[q]
      /\ call'[p].user = user
      /\ ~Saving(p) /\ ~Writing(p)'
      /\ \A k \in Kind : ~Cleared(p, k)' /\ ~Entered(p, k)
  BY <1>1, Types
     DEF Idle, Ready, Saving, SavePhase, Writing, Cleared, Entered, Before
<1>3. \A q \in Proc : Saving(q) => call[q].user.id # user.id
  BY DEF Overlaps, Claims
<1>4. OneSave'
  <2>1. user.id = interrupted.id => user = interrupted
    BY NotEmpty DEF MeetsTorn, Claims, NoUser, User
  <2> QED
    BY <1>1, <1>2, <1>3, <2>1 DEF OneSave, Faithful, Saving
<1>5. OldKnownOrGone'
  BY <1>1, <1>2 DEF OldKnownOrGone, Writing
<1>6. AllExplained'
  <2>. SUFFICES ASSUME NEW id \in UserID, NEW k \in Kind, NEW key \in Key, index[k][key] = id
                PROVE  Explained(id, k, key)'
    BY <1>1 DEF AllExplained
  <2>1. CASE LedTo(id, k, key)
    <3>1. LedTo(id, k, key)'
      BY <1>1, <1>2, <2>1 DEF LedTo, Saving, Cleared
    <3> QED
      BY <3>1 DEF Explained
  <2>2. CASE EnteredBySave(id, k, key)
    <3>1. PICK q \in Proc : /\ Saving(q) /\ call[q].user.id = id
                            /\ Entered(q, k) /\ call[q].user[k] = key
      BY <2>2 DEF EnteredBySave
    <3>2. call'[q] = call[q]
      BY <1>2, <3>1
    <3>3. EnteredBySave(id, k, key)'
      BY <3>1, <3>2 DEF EnteredBySave, Saving, Entered
    <3> QED
      BY <3>3 DEF Explained
  <2>3. CASE LeftByCrash(id, k, key)
    <3>1. LeftByCrash(id, k, key)'
      BY <1>1, <2>3 DEF LeftByCrash
    <3> QED
      BY <3>1 DEF Explained
  <2> QED
    BY <2>1, <2>2, <2>3 DEF AllExplained, Explained
<1> QED
  BY <1>4, <1>5, <1>6, InvPartsNext
-----------------------------------------------------------------------------
(* Delete: the entry that goes is that of the old record, so that no other   *)
(* entry of this kind can be led to that record.                            *)
LEMMA RemoveExpiry ==
  ASSUME TypeInv, ExpiryInv, NEW p \in Proc, RemoveEntry(p)
  PROVE  ExpiryInv'
<1>. DEFINE c   == call[p]
            id  == call[p].user.id
            k0  == call[p].kind
            old == call[p].old[k0]
<1>1. /\ Saving(p) /\ Writing(p) /\ c.pc = "remove" /\ k0 \in Kind /\ id \in UserID
      /\ old \in Key \cup {Empty}
      /\ UNCHANGED <<table, suspect, interrupted>>
      /\ older' = Without(Entry(k0, old))
  BY Types, RecordKeys
     DEF RemoveEntry, RemoveOld, Saving, Writing, SavePhase, history, TypeInv, TypeOK, Call
<1>. SUFFICES ASSUME ~suspect PROVE ExpiryInv'
  BY <1>1, InvPartsNext
<1>. OneSave /\ OldKnownOrGone /\ AllExplained
  BY InvParts
<1>2. \A k \in Kind, key \in Key :
        index'[k][key] = IF k = k0 /\ key = old THEN Empty ELSE index[k][key]
  BY <1>1, Types, NotEmpty, DriverAssumption, SMTT(60)
     DEF RemoveEntry, RemoveOld, Remove, LocalRemove, RedisRemove, EtcdRemove, Index
<1>3. /\ \A q \in Proc \ {p} : call'[q] = call[q]
      /\ call'[p].user = c.user /\ call'[p].old = c.old
      /\ Saving(p)' /\ Writing(p)'
      /\ \A k \in Kind : /\ Cleared(p, k)' => Cleared(p, k) \/ k = k0
                         /\ ~Entered(p, k)
  <2>1. \/ k0 = "email" /\ Goto(p, "remove", "login")
        \/ k0 = "login" /\ Goto(p, "remove", "token")
        \/ k0 = "token" /\ Goto(p, "put", "email")
    BY <1>1 DEF RemoveEntry, RemoveOld, AfterRemove, Kind
  <2> QED
    BY <1>1, <2>1, GotoEffect
       DEF Saving, Writing, SavePhase, Cleared, Entered, Before, Kind
<1>4. OneSave'
  BY <1>1, <1>3 DEF OneSave, Faithful, Saving
<1>5. OldKnownOrGone'
  BY <1>1, <1>3 DEF OldKnownOrGone, Writing
<1>6. AllExplained'
  <2>. SUFFICES ASSUME NEW i \in UserID, NEW k \in Kind, NEW key \in Key, index'[k][key] = i
                PROVE  Explained(i, k, key)'
    BY DEF AllExplained
  <2>0. index[k][key] = i /\ ~(k = k0 /\ key = old)
    BY <1>2, NotEmpty
  <2>1. CASE LedTo(i, k, key)
    <3>1. table'[i][k] = key
      BY <1>1, <2>1 DEF LedTo
    <3>2. <<Entry(k, key), Record(i)>> \in older'
      BY <1>1, <2>0, <2>1, EntriesDiffer, EntriesEqual, WithoutKeeps DEF LedTo
    <3>3. ASSUME NEW q \in Proc, Saving(q)', call'[q].user.id = i PROVE ~Cleared(q, k)'
      <4>1. CASE q # p
        BY <1>3, <2>1, <3>3, <4>1 DEF LedTo, Saving, Cleared
      <4>2. CASE q = p
        <5>1. i = id /\ ~Cleared(p, k)
          BY <1>1, <1>3, <2>1, <3>3, <4>2 DEF LedTo
        <5>2. k # k0
          <6>1. table[id] # NoUser
            BY <2>1, <5>1, NoUserKeys, NotEmpty DEF LedTo
          <6>2. c.old = table[id]
            BY <1>1, <6>1 DEF OldKnownOrGone
          <6> QED
            BY <2>0, <2>1, <5>1, <6>2 DEF LedTo
        <5> QED
          BY <1>3, <4>2, <5>1, <5>2
      <4> QED
        BY <4>1, <4>2
    <3>4. LedTo(i, k, key)'
      BY <3>1, <3>2, <3>3 DEF LedTo, Entry, Record
    <3> QED
      BY <3>4 DEF Explained
  <2>2. CASE EnteredBySave(i, k, key)
    <3>1. PICK q \in Proc : /\ Saving(q) /\ call[q].user.id = i
                            /\ Entered(q, k) /\ call[q].user[k] = key
      BY <2>2 DEF EnteredBySave
    <3>2. call'[q] = call[q]
      BY <1>3, <3>1
    <3>3. EnteredBySave(i, k, key)'
      BY <3>1, <3>2 DEF EnteredBySave, Saving, Entered
    <3> QED
      BY <3>3 DEF Explained
  <2>3. CASE LeftByCrash(i, k, key)
    <3>1. LeftByCrash(i, k, key)'
      BY <1>1, <2>3 DEF LeftByCrash
    <3> QED
      BY <3>1 DEF Explained
  <2> QED
    BY <2>0, <2>1, <2>2, <2>3 DEF AllExplained, Explained
<1> QED
  BY <1>1, <1>4, <1>5, <1>6, InvPartsNext

(* Create: an entry that is there is left alone, with its place in the order; *)
(* one that is made has been entered by the Save.                           *)
LEMMA CreateExpiry ==
  ASSUME TypeInv, ExpiryInv, NEW p \in Proc, CreateEntry(p)
  PROVE  ExpiryInv'
<1>. DEFINE c   == call[p]
            id  == call[p].user.id
            k0  == call[p].kind
            new == call[p].user[k0]
<1>1. /\ Saving(p) /\ Writing(p) /\ c.pc = "put" /\ k0 \in Kind /\ id \in UserID
      /\ new \in Key \cup {Empty}
      /\ UNCHANGED <<table, suspect, interrupted>>
  BY Types DEF CreateEntry, PutNew, Saving, Writing, SavePhase, history
<1>. SUFFICES ASSUME ~suspect PROVE ExpiryInv'
  BY <1>1, InvPartsNext
<1>. OneSave /\ OldKnownOrGone /\ AllExplained
  BY InvParts
<1>2. \A k \in Kind, key \in Key :
        \/ index'[k][key] = index[k][key]
        \/ k = k0 /\ key = new /\ index'[k][key] = id
  BY <1>1, Types, NotEmpty, EtcdAssumption, SMTT(60) DEF CreateEntry, PutNew, Put, EtcdPut, Index
<1>3. /\ \A q \in Proc \ {p} : call'[q] = call[q]
      /\ call'[p].user = c.user /\ call'[p].old = c.old
      /\ Saving(p)' /\ Writing(p)'
      /\ \A k \in Kind : /\ Entered(p, k)' <=> Entered(p, k) \/ k = k0
                         /\ Cleared(p, k)
  <2>1. \/ k0 = "email" /\ Goto(p, "put", "login")
        \/ k0 = "login" /\ Goto(p, "put", "token")
        \/ k0 = "token" /\ Goto(p, "set", "email")
    BY <1>1 DEF CreateEntry, PutNew, AfterPut, Kind
  <2> QED
    BY <1>1, <2>1, GotoEffect
       DEF Saving, Writing, SavePhase, Cleared, Entered, Before, Kind
<1>4. OneSave'
  BY <1>1, <1>3 DEF OneSave, Faithful, Saving
<1>5. OldKnownOrGone'
  BY <1>1, <1>3 DEF OldKnownOrGone, Writing
<1>6. AllExplained'
  <2>. SUFFICES ASSUME NEW i \in UserID, NEW k \in Kind, NEW key \in Key, index'[k][key] = i
                PROVE  Explained(i, k, key)'
    BY DEF AllExplained
  <2>0. CASE i = id /\ k = k0 /\ key = new
    <3>1. EnteredBySave(i, k, key)'
      BY <1>3, <2>0 DEF EnteredBySave
    <3> QED
      BY <3>1 DEF Explained
  <2>1. ASSUME index[k][key] = i, ~(i = id /\ k = k0 /\ key = new), LedTo(i, k, key)
        PROVE  Explained(i, k, key)'
    <3>1. table'[i][k] = key /\ i # id
      BY <1>1, <1>3, <2>1 DEF LedTo
    <3>2. <<Entry(k, key), Record(i)>> \in older'
      <4>1. CASE index' = index
        BY <2>1, <4>1 DEF CreateEntry, LedTo
      <4>2. CASE index' # index
        <5>1. older' = Youngest(Entry(k0, new))
          BY <4>2 DEF CreateEntry
        <5>2. ~(k = k0 /\ key = new)
          <6>1. new # Empty /\ index' = [index EXCEPT ![k0] = EtcdPut(index[k0], new, id)]
            BY <4>2, EtcdAssumption DEF CreateEntry, PutNew, Put
          <6>2. index \in [Kind -> Index] /\ index[k0] \in Index
            BY <1>1, Types
          <6>3. index[k0][new] # Empty => EtcdPut(index[k0], new, id) = index[k0]
            BY DEF EtcdPut
          <6>4. index[k0][new] # Empty => index' = index
            BY <6>1, <6>2, <6>3
          <6> QED
            BY <2>1, <4>2, <6>4, NotEmpty
        <5> QED
          BY <2>1, <5>1, <5>2, EntriesDiffer, EntriesEqual, YoungestKeeps, <1>1 DEF LedTo
      <4> QED
        BY <4>1, <4>2
    <3>3. ASSUME NEW q \in Proc, Saving(q)', call'[q].user.id = i PROVE ~Cleared(q, k)'
      <4>1. q # p
        BY <1>3, <3>1, <3>3
      <4> QED
        BY <1>3, <2>1, <3>3, <4>1 DEF LedTo, Saving, Cleared
    <3>4. LedTo(i, k, key)'
      BY <3>1, <3>2, <3>3 DEF LedTo, Entry, Record
    <3> QED
      BY <3>4 DEF Explained
  <2>2. CASE EnteredBySave(i, k, key)
    <3>1. PICK q \in Proc : /\ Saving(q) /\ call[q].user.id = i
                            /\ Entered(q, k) /\ call[q].user[k] = key
      BY <2>2 DEF EnteredBySave
    <3>2. Saving(q)' /\ call'[q].user = call[q].user /\ Entered(q, k)'
      BY <1>3, <3>1 DEF Saving, Entered
    <3>3. EnteredBySave(i, k, key)'
      BY <3>1, <3>2 DEF EnteredBySave
    <3> QED
      BY <3>3 DEF Explained
  <2>3. CASE LeftByCrash(i, k, key)
    <3>1. LeftByCrash(i, k, key)'
      BY <1>1, <2>3 DEF LeftByCrash
    <3> QED
      BY <3>1 DEF Explained
  <2> QED
    BY <1>2, <2>0, <2>1, <2>2, <2>3 DEF AllExplained, Explained
<1> QED
  BY <1>1, <1>4, <1>5, <1>6, InvPartsNext

(* Set: the record is written after every entry that leads to it, and those   *)
(* are the entries of its keys.                                             *)
LEMMA SetExpiry ==
  ASSUME TypeInv, ExpiryInv, NEW p \in Proc, SetEntry(p)
  PROVE  ExpiryInv'
<1>. DEFINE user == call[p].user
            id   == call[p].user.id
<1>1. /\ Saving(p) /\ call[p].pc = "set" /\ user \in User /\ id \in UserID
      /\ table' = [table EXCEPT ![id] = Encoded(user)]
      /\ UNCHANGED <<index, suspect>>
      /\ interrupted' = IF user = interrupted THEN NoUser ELSE interrupted
      /\ older' = Youngest(Record(id))
  BY Types DEF SetEntry, Renewed, SetUser, SetRecord, Saving, SavePhase
<1>. SUFFICES ASSUME ~suspect PROVE ExpiryInv'
  BY <1>1, InvPartsNext
<1>. OneSave /\ OldKnownOrGone /\ AllExplained
  BY InvParts
<1>2. /\ \A q \in Proc \ {p} : call'[q] = call[q]
      /\ ~Saving(p)' /\ ~Writing(p)'
      /\ \A k \in Kind : Cleared(p, k)
  BY <1>1, Types
     DEF SetEntry, SetUser, Return, Idle, Saving, Writing, SavePhase, Cleared
<1>3. \A q \in Proc \ {p} : Saving(q) => call[q].user.id # id
  BY <1>1 DEF OneSave, Faithful
<1>4. table'[id] = user /\ \A other \in UserID \ {id} : table'[other] = table[other]
  BY <1>1 DEF OneSave, Faithful, TypeInv, TypeOK
<1>5. id = interrupted.id => user = interrupted
  BY <1>1 DEF OneSave
<1>6. OneSave'
  <2>1. \A q \in Proc : Saving(q)' => q # p /\ Saving(q) /\ call'[q] = call[q]
    BY <1>2 DEF Saving
  <2>2. interrupted' = interrupted \/ interrupted' = NoUser
    BY <1>1
  <2>3. \A q \in Proc : Saving(q) => call[q].user.id # NoUser.id
    BY Types, NotEmpty DEF NoUser
  <2> QED
    BY <2>1, <2>2, <2>3 DEF OneSave, Faithful
<1>7. OldKnownOrGone'
  <2>. SUFFICES ASSUME NEW q \in Proc, Writing(q)'
                PROVE  table'[call'[q].user.id] = NoUser \/ call'[q].old = table'[call'[q].user.id]
    BY DEF OldKnownOrGone
  <2>1. q # p /\ call'[q] = call[q] /\ Writing(q) /\ Saving(q)
    BY <1>2 DEF Writing, Saving, SavePhase
  <2>2. call[q].user.id \in UserID \ {id}
    BY <1>3, <2>1, Types
  <2> QED
    BY <1>4, <2>1, <2>2 DEF OldKnownOrGone
<1>8. AllExplained'
  <2>. SUFFICES ASSUME NEW i \in UserID, NEW k \in Kind, NEW key \in Key, index[k][key] = i
                PROVE  Explained(i, k, key)'
    BY <1>1 DEF AllExplained
  <2>0. \A q \in Proc : Saving(q)' => q # p /\ call'[q] = call[q] /\ Saving(q)
    BY <1>2 DEF Saving
  <2>1. CASE i = id
    <3>1. user[k] = key
      <4>1. ~LedTo(i, k, key)
        BY <1>1, <1>2, <2>1 DEF LedTo
      <4>2. CASE EnteredBySave(i, k, key)
        BY <1>3, <2>1, <4>2 DEF EnteredBySave
      <4>3. CASE LeftByCrash(i, k, key)
        BY <1>5, <2>1, <4>3 DEF LeftByCrash
      <4> QED
        BY <4>1, <4>2, <4>3 DEF AllExplained, Explained
    <3>2. <<Entry(k, key), Record(i)>> \in older'
      BY <1>1, <2>1, IndexLives, EntriesDiffer, YoungestEnds
    <3>3. LedTo(i, k, key)'
      BY <1>1, <1>3, <1>4, <2>0, <2>1, <3>1, <3>2 DEF LedTo, Entry, Record
    <3> QED
      BY <3>3 DEF Explained
  <2>2. CASE i # id /\ LedTo(i, k, key)
    <3>1. Entry(k, key) # Record(id) /\ Record(i) # Record(id)
      BY <2>2, EntriesDiffer DEF Record, Entry
    <3>2. <<Entry(k, key), Record(i)>> \in older'
      BY <1>1, <2>2, <3>1, YoungestKeeps DEF LedTo
    <3>3. LedTo(i, k, key)'
      BY <1>4, <2>0, <2>2, <3>2 DEF LedTo, Entry, Record, Cleared
    <3> QED
      BY <3>3 DEF Explained
  <2>3. CASE i # id /\ EnteredBySave(i, k, key)
    <3>1. PICK q \in Proc : /\ Saving(q) /\ call[q].user.id = i
                            /\ Entered(q, k) /\ call[q].user[k] = key
      BY <2>3 DEF EnteredBySave
    <3>2. call'[q] = call[q]
      BY <1>2, <2>3, <3>1
    <3>3. EnteredBySave(i, k, key)'
      BY <3>1, <3>2 DEF EnteredBySave, Saving, Entered
    <3> QED
      BY <3>3 DEF Explained
  <2>4. CASE i # id /\ LeftByCrash(i, k, key)
    <3>1. LeftByCrash(i, k, key)'
      BY <1>1, <2>4 DEF LeftByCrash
    <3> QED
      BY <3>1 DEF Explained
  <2> QED
    BY <2>1, <2>2, <2>3, <2>4 DEF AllExplained, Explained
<1> QED
  BY <1>1, <1>6, <1>7, <1>8, InvPartsNext
-----------------------------------------------------------------------------
(* etcd drops a record: no entry was led to it, for such an entry is older.  *)
LEMMA RecordGoes ==
  ASSUME TypeInv, ExpiryInv, NEW id \in UserID, ExpireRecord(id)
  PROVE  ExpiryInv'
<1>1. /\ table' = [table EXCEPT ![id] = NoUser] /\ older' = Without(Record(id))
      /\ UNCHANGED <<index, call, suspect, interrupted>>
      /\ \A other \in Live : <<other, Record(id)>> \notin older
  BY DEF ExpireRecord, Oldest, history
<1>. SUFFICES ASSUME ~suspect PROVE ExpiryInv'
  BY <1>1, InvPartsNext
<1>. OneSave /\ OldKnownOrGone /\ AllExplained
  BY InvParts
<1>2. table'[id] = NoUser /\ \A other \in UserID \ {id} : table'[other] = table[other]
  BY <1>1 DEF TypeInv, TypeOK
<1>3. OneSave'
  BY <1>1 DEF OneSave, Faithful, Saving
<1>4. OldKnownOrGone'
  <2>. SUFFICES ASSUME NEW p \in Proc, Writing(p)
                PROVE  table'[call[p].user.id] = NoUser \/ call[p].old = table'[call[p].user.id]
    BY <1>1 DEF OldKnownOrGone, Writing
  <2>1. call[p].user.id \in UserID
    BY Types DEF Writing, Saving, SavePhase
  <2> QED
    BY <1>2, <2>1 DEF OldKnownOrGone
<1>5. AllExplained'
  <2>. SUFFICES ASSUME NEW i \in UserID, NEW k \in Kind, NEW key \in Key, index[k][key] = i
                PROVE  Explained(i, k, key)'
    BY <1>1 DEF AllExplained
  <2>1. CASE LedTo(i, k, key)
    <3>1. i # id
      BY <1>1, <2>1, IndexLives DEF LedTo
    <3>2. Entry(k, key) # Record(id) /\ Record(i) # Record(id)
      BY <3>1, EntriesDiffer DEF Record, Entry
    <3>3. <<Entry(k, key), Record(i)>> \in older'
      BY <1>1, <2>1, <3>2, WithoutKeeps DEF LedTo
    <3>4. LedTo(i, k, key)'
      BY <1>1, <1>2, <2>1, <3>1, <3>3 DEF LedTo, Entry, Record, Saving, Cleared
    <3> QED
      BY <3>4 DEF Explained
  <2>2. CASE EnteredBySave(i, k, key)
    <3>1. EnteredBySave(i, k, key)'
      BY <1>1, <2>2 DEF EnteredBySave, Saving, Entered
    <3> QED
      BY <3>1 DEF Explained
  <2>3. CASE LeftByCrash(i, k, key)
    <3>1. LeftByCrash(i, k, key)'
      BY <1>1, <2>3 DEF LeftByCrash
    <3> QED
      BY <3>1 DEF Explained
  <2> QED
    BY <2>1, <2>2, <2>3 DEF AllExplained, Explained
<1> QED
  BY <1>1, <1>3, <1>4, <1>5, InvPartsNext

(* etcd drops an entry of an index, which then leads nobody anywhere.       *)
LEMMA KeyGoes ==
  ASSUME TypeInv, ExpiryInv, NEW k0 \in Kind, NEW gone \in Key, ExpireKey(k0, gone)
  PROVE  ExpiryInv'
<1>1. /\ index' = [index EXCEPT ![k0][gone] = Empty] /\ older' = Without(Entry(k0, gone))
      /\ UNCHANGED <<table, call, suspect, interrupted>>
  BY DEF ExpireKey, history
<1>. SUFFICES ASSUME ~suspect PROVE ExpiryInv'
  BY <1>1, InvPartsNext
<1>. OneSave /\ OldKnownOrGone /\ AllExplained
  BY InvParts
<1>2. \A k \in Kind, key \in Key :
        index'[k][key] = IF k = k0 /\ key = gone THEN Empty ELSE index[k][key]
  BY <1>1, Types DEF Index
<1>3. OneSave' /\ OldKnownOrGone'
  BY <1>1 DEF OneSave, Faithful, OldKnownOrGone, Saving, Writing
<1>4. AllExplained'
  <2>. SUFFICES ASSUME NEW i \in UserID, NEW k \in Kind, NEW key \in Key, index'[k][key] = i
                PROVE  Explained(i, k, key)'
    BY DEF AllExplained
  <2>0. index[k][key] = i /\ ~(k = k0 /\ key = gone)
    BY <1>2, NotEmpty
  <2>1. CASE LedTo(i, k, key)
    <3>1. <<Entry(k, key), Record(i)>> \in older'
      BY <1>1, <2>0, <2>1, EntriesDiffer, EntriesEqual, WithoutKeeps DEF LedTo
    <3>2. LedTo(i, k, key)'
      BY <1>1, <2>1, <3>1 DEF LedTo, Entry, Record, Saving, Cleared
    <3> QED
      BY <3>2 DEF Explained
  <2>2. CASE EnteredBySave(i, k, key)
    <3>1. EnteredBySave(i, k, key)'
      BY <1>1, <2>2 DEF EnteredBySave, Saving, Entered
    <3> QED
      BY <3>1 DEF Explained
  <2>3. CASE LeftByCrash(i, k, key)
    <3>1. LeftByCrash(i, k, key)'
      BY <1>1, <2>3 DEF LeftByCrash
    <3> QED
      BY <3>1 DEF Explained
  <2> QED
    BY <2>0, <2>1, <2>2, <2>3 DEF AllExplained, Explained
<1> QED
  BY <1>1, <1>3, <1>4, InvPartsNext

(* The process dies, and etcd keeps the keys that a Save had entered.       *)
LEMMA CrashExpiry ==
  ASSUME TypeInv, ExpiryInv, Crash, UNCHANGED older
  PROVE  ExpiryInv'
<1>. DEFINE cut  == {call[p].user : p \in {q \in Proc : Writing(q)}}
            torn == cut \cup ({interrupted} \ {NoUser})
<1>. SUFFICES ASSUME ~suspect' PROVE ExpiryInv'
  BY InvPartsNext
<1>1. /\ ~suspect /\ UNCHANGED <<table, index>>
      /\ interrupted' = IF torn = {} THEN NoUser ELSE CHOOSE u \in torn : TRUE
      /\ \A u, w \in torn : u = w
  BY EtcdAssumption DEF Crash, store, DriverPersists
<1>. OneSave /\ OldKnownOrGone /\ AllExplained
  BY <1>1, InvParts
<1>2. \A p \in Proc : ~Saving(p)' /\ ~Writing(p)'
  BY DEF Crash, Idle, Saving, Writing, SavePhase
<1>3. ASSUME NEW p \in Proc, Writing(p) PROVE interrupted' = call[p].user
  BY <1>1, <1>3
<1>4. interrupted # NoUser => interrupted' = interrupted
  BY <1>1
<1>5. OneSave' /\ OldKnownOrGone'
  BY <1>2 DEF OneSave, Faithful, OldKnownOrGone
<1>6. AllExplained'
  <2>. SUFFICES ASSUME NEW i \in UserID, NEW k \in Kind, NEW key \in Key, index[k][key] = i
                PROVE  Explained(i, k, key)'
    BY <1>1 DEF AllExplained
  <2>1. CASE LedTo(i, k, key)
    <3>1. LedTo(i, k, key)'
      BY <1>1, <1>2, <2>1 DEF LedTo
    <3> QED
      BY <3>1 DEF Explained
  <2>2. CASE EnteredBySave(i, k, key)
    <3>1. LeftByCrash(i, k, key)'
      BY <1>3, <2>2 DEF EnteredBySave, Entered, Writing, LeftByCrash
    <3> QED
      BY <3>1 DEF Explained
  <2>3. CASE LeftByCrash(i, k, key)
    <3>1. LeftByCrash(i, k, key)'
      BY <1>4, <2>3, LeftRecord DEF LeftByCrash
    <3> QED
      BY <3>1 DEF Explained
  <2> QED
    BY <2>1, <2>2, <2>3 DEF AllExplained, Explained
<1> QED
  BY <1>5, <1>6, InvPartsNext
-----------------------------------------------------------------------------
(* A call that answers before it wrote anything, or that moves a find on.    *)
LEMMA AnswerExpiry ==
  ASSUME TypeInv, ExpiryInv, NEW p \in Proc, ~Writing(p),
         UNCHANGED store, UNCHANGED history, UNCHANGED older,
         \A q \in Proc \ {p} : call'[q] = call[q],
         call'[p].pc \in {"idle", "lookup", "fetch", "done"}
  PROVE  ExpiryInv'
<1>1. /\ ~Saving(p)' /\ ~Writing(p)'
      /\ \A k \in Kind : ~Entered(p, k) /\ ~Cleared(p, k)'
  BY DEF Saving, Writing, SavePhase, Entered, Cleared
<1> QED
  BY <1>1, StillStep

LEMMA ReadExpiry ==
  ASSUME TypeInv, ExpiryInv, NEW p \in Proc, UNCHANGED older,
         CheckTaken(p) \/ LookupOld(p) \/ Lookup(p) \/ Fetch(p) \/ Fail(p)
  PROVE  ExpiryInv'
<1>. call \in [Proc -> Call] /\ call[p] \in Call
  BY DEF TypeInv, TypeOK
<1>a. ASSUME NEW err, NEW user, Return(p, err, user), ~Writing(p), UNCHANGED <<store, history>>
      PROVE  ExpiryInv'
  BY <1>a, ReturnMoves, ReturnEffect, AnswerExpiry
<1>1. CASE CheckTaken(p)
  <2>1. call[p].pc = "check" /\ Saving(p) /\ ~Writing(p) /\ UNCHANGED <<store, history>>
    BY <1>1 DEF CheckTaken, Saving, Writing, SavePhase
  <2>2. call[p].kind \in Kind
    BY <2>1, Types
  <2>3. CASE TakenByOtherUser(call[p].user, call[p].kind)
    BY <1>1, <1>a, <2>1, <2>3 DEF CheckTaken
  <2>4. CASE ~TakenByOtherUser(call[p].user, call[p].kind)
    <3>1. \/ Goto(p, "check", "login")
          \/ Goto(p, "check", "token")
          \/ Goto(p, "old", "email")
      BY <1>1, <2>2, <2>4 DEF CheckTaken, Kind
    <3>2. /\ \A q \in Proc \ {p} : call'[q] = call[q]
          /\ call'[p].user = call[p].user
          /\ ~Writing(p)'
          /\ \A k \in Kind : ~Entered(p, k) /\ ~Cleared(p, k)'
      BY <2>1, <3>1, GotoEffect DEF Writing, Entered, Cleared
    <3> QED
      BY <2>1, <3>2, StillStep
  <2> QED
    BY <2>3, <2>4
<1>2. CASE LookupOld(p)
  <2>1. call[p].pc = "old" /\ Saving(p) /\ UNCHANGED <<store, history>>
    BY <1>2 DEF LookupOld, Saving, SavePhase
  <2>2. /\ \A q \in Proc \ {p} : call'[q] = call[q]
        /\ call'[p].pc = "remove" /\ call'[p].kind = "email"
        /\ call'[p].user = call[p].user /\ call'[p].old = table[call[p].user.id]
    BY <1>2 DEF LookupOld, Call
  <2>3. \A k \in Kind : ~Entered(p, k) /\ ~Cleared(p, k)'
    BY <2>1, <2>2 DEF Entered, Cleared, Before
  <2> QED
    BY <2>1, <2>2, <2>3, StillStep
<1>3. CASE Lookup(p) \/ Fetch(p)
  <2>1. ~Saving(p) /\ ~Writing(p) /\ UNCHANGED history
    BY <1>3 DEF Lookup, Fetch, Saving, Writing, SavePhase
  <2>2. UNCHANGED store /\ call'[p].pc \in {"fetch", "done"}
    BY <1>3, <2>1, FindMoves DEF Step
  <2>3. \A q \in Proc \ {p} : call'[q] = call[q]
    BY <1>3 DEF Lookup, Fetch, Return
  <2> QED
    BY <2>1, <2>2, <2>3, AnswerExpiry
<1>4. CASE ReadFails(p)
  <2>1. Return(p, "internal", NoUser) /\ ~Writing(p) /\ UNCHANGED <<store, history>>
    BY <1>4 DEF ReadFails, Writing
  <2> QED
    BY <2>1, <1>a
<1>5. CASE WriteFails(p)
  BY <1>5 DEF WriteFails, ExpiryInv
<1> QED
  BY <1>1, <1>2, <1>3, <1>4, <1>5 DEF Fail

LEMMA InvokeExpiry ==
  ASSUME TypeInv, ExpiryInv, NEW p \in Proc, UNCHANGED older, Invoke(p)
  PROVE  ExpiryInv'
<1>. call \in [Proc -> Call] /\ call[p] \in Call
  BY DEF TypeInv, TypeOK
<1>1. ASSUME NEW user \in UserArgument, Save(p, user) PROVE ExpiryInv'
  <2>1. CASE Valid(user)
    BY <1>1, <2>1, ValidArgument, BeginExpiry
  <2>2. CASE ~Valid(user)
    <3>1. /\ UNCHANGED <<store, history>> /\ ~Writing(p)
          /\ Return(p, "InvalidUserObject", NoUser)
      BY <1>1, <2>2 DEF Save, Ready, Writing, history
    <3> QED
      BY <3>1, ReturnMoves, ReturnEffect, AnswerExpiry
  <2> QED
    BY <2>1, <2>2
<1>2. ASSUME NEW id \in UserID, Get(p, id) PROVE ExpiryInv'
  BY <1>2, AnswerExpiry DEF Get, Ready, Writing, Idle
<1>3. ASSUME NEW k \in Kind, NEW key \in Key, FindBy(p, k, key) PROVE ExpiryInv'
  BY <1>3, AnswerExpiry DEF FindBy, Ready, Writing, Idle
<1>4. CASE TakeAnswer(p)
  BY <1>4, AnswerExpiry DEF TakeAnswer, Writing, Idle
<1> QED
  BY <1>1, <1>2, <1>3, <1>4 DEF Invoke, Kind, Key
-----------------------------------------------------------------------------
(* What expires takes no value out of its type.                             *)
LEMMA ExpiryType ==
  ASSUME TypeInv, [ExpiryNext]_expiryVars
  PROVE  TypeInv'
<1>1. ASSUME NEW p \in Proc, RemoveEntry(p) \/ CreateEntry(p) \/ SetEntry(p) PROVE TypeInv'
  BY <1>1, NextType DEF RemoveEntry, CreateEntry, SetEntry, Step, Next
<1>2. CASE OtherStep
  BY <1>2, NextType DEF OtherStep, Step, Next
<1>3. ASSUME NEW id \in UserID, ExpireRecord(id) PROVE TypeInv'
  BY <1>3 DEF ExpireRecord, history, TypeInv, TypeOK, CallOK, Fits, WellFormed, NoUser
<1>4. ASSUME NEW k \in Kind, NEW key \in Key, ExpireKey(k, key) PROVE TypeInv'
  BY <1>4 DEF ExpireKey, history, TypeInv, TypeOK, CallOK, Fits, WellFormed
<1>5. CASE UNCHANGED expiryVars
  BY <1>5, NextType DEF expiryVars
<1> QED
  BY <1>1, <1>2, <1>3, <1>4, <1>5 DEF ExpiryNext, Expire

LEMMA ExpiryStep ==
  ASSUME TypeInv, ExpiryInv, [ExpiryNext]_expiryVars
  PROVE  ExpiryInv'
<1>1. ASSUME NEW p \in Proc, RemoveEntry(p) \/ CreateEntry(p) \/ SetEntry(p) PROVE ExpiryInv'
  BY <1>1, RemoveExpiry, CreateExpiry, SetExpiry
<1>2. CASE OtherStep
  BY <1>2, InvokeExpiry, ReadExpiry, CrashExpiry DEF OtherStep
<1>3. CASE Expire
  BY <1>3, RecordGoes, KeyGoes DEF Expire
<1>4. CASE UNCHANGED expiryVars
  BY <1>4
     DEF expiryVars, vars, ExpiryInv, OneSave, Faithful, OldKnownOrGone, LedTo, EnteredBySave,
         LeftByCrash, Saving, Writing, Cleared, Entered, Entry, Record
<1> QED
  BY <1>1, <1>2, <1>3, <1>4 DEF ExpiryNext

LEMMA ExpiryInitInv ==
  ASSUME ExpiryInit
  PROVE  TypeInv /\ ExpiryInv
<1>1. TypeInv
  BY InitType DEF ExpiryInit
<1>2. \A k \in Kind, key \in Key : index[k][key] = Empty
  BY NoUserKeys, NotEmpty DEF ExpiryInit, Init, EmptyTable, OwnerOf
<1>3. \A p \in Proc : ~Saving(p) /\ ~Writing(p)
  BY DEF ExpiryInit, Init, Idle, Saving, Writing, SavePhase
<1>4. OneSave /\ OldKnownOrGone
  BY <1>3 DEF OneSave, Faithful, OldKnownOrGone
<1>5. AllExplained
  BY <1>2, NotEmpty DEF AllExplained
<1> QED
  BY <1>1, <1>4, <1>5, InvParts

(* EntriesLeadToUsers in every state: with a time to live on every entry,    *)
(* whichever expire and whenever, no FindBy* of keyvalue.go is sent to a    *)
(* user that is gone or that has given the key up.                          *)
THEOREM EntriesLead == ExpirySpec => []EntriesLeadToUsers
<1>1. ExpiryInit => TypeInv /\ ExpiryInv
  BY ExpiryInitInv
<1>2. TypeInv /\ ExpiryInv /\ [ExpiryNext]_expiryVars => TypeInv' /\ ExpiryInv'
  BY ExpiryType, ExpiryStep
<1>3. TypeInv /\ ExpiryInv => EntriesLeadToUsers
  <2>. SUFFICES ASSUME TypeInv, ExpiryInv, ~suspect,
                       NEW id \in UserID, NEW k \in Kind, NEW key \in Key,
                       id # interrupted.id, Settled(id), index[k][key] = id
                PROVE  table[id][k] = key
    BY DEF EntriesLeadToUsers
  <2>1. Explained(id, k, key)
    BY InvParts DEF AllExplained
  <2>2. ~EnteredBySave(id, k, key)
    BY DEF EnteredBySave, Settled
  <2>3. ~LeftByCrash(id, k, key)
    BY DEF LeftByCrash
  <2> QED
    BY <2>1, <2>2, <2>3 DEF Explained, LedTo
<1> QED
  BY <1>1, <1>2, <1>3, PTL DEF ExpirySpec
=============================================================================
