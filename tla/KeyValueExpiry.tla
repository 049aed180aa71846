--------------------------- MODULE KeyValueExpiry ----------------------------
(***************************************************************************)
(* The storage on etcd with --storage-etcd-ttl: every Set and every Create  *)
(* gives its entry the same time to live, and etcd drops the entries whose  *)
(* time is over by itself.  One ttl for all means that they go in the order *)
(* in which they were last written, so that order is all there is of time.  *)
(*                                                                         *)
(* The storage is that of KeyValueStorage, step by step.  keyValueStorage   *)
(* knows nothing of the ttl: whatever it read can be gone when it goes on.  *)
(***************************************************************************)
EXTENDS KeyValueStorageProps

ASSUME EtcdAssumption == Driver = "etcd"

VARIABLE older   \* the pairs of entries of which the first was written before the second

expiryVars == <<vars, older>>

(* An entry of an index, or the record of a user.                           *)
Entry(kind, key) == <<kind, key>>
Record(id)       == Entry("user", id)

(* The entries that etcd has.                                               *)
Live ==
  {Entry(x[1], x[2]) : x \in {y \in Kind \X Key : index[y[1]][y[2]] # Empty}}
    \cup {Record(id) : id \in {i \in UserID : table[i] # NoUser}}

(* An entry that goes leaves the order; one that is written is the youngest. *)
Without(entry) == {pair \in older : entry \notin {pair[1], pair[2]}}

Youngest(entry) == Without(entry) \cup ((Live \ {entry}) \X {entry})

(* Delete ends the life of an entry.                                        *)
RemoveEntry(p) ==
  LET k == call[p].kind
  IN  RemoveOld(p) /\ older' = Without(Entry(k, call[p].old[k]))

(* Create starts one.  It refuses an entry that is there, whose life is     *)
(* then not renewed.                                                        *)
CreateEntry(p) ==
  LET k == call[p].kind
  IN  /\ PutNew(p)
      /\ older' = IF index' = index THEN older ELSE Youngest(Entry(k, call[p].user[k]))

(* A mutant: the record keeps the time to live of its first Set.            *)
FirstLife(id) == IF Record(id) \in Live THEN older ELSE Youngest(Record(id))

(* Set starts the life of a record over again.                              *)
Renewed(id) == Youngest(Record(id))

SetEntry(p) == SetUser(p) /\ older' = Renewed(call[p].user.id)

(* etcd drops the entry that was written longest ago.                       *)
Oldest(entry) == entry \in Live /\ \A other \in Live : <<other, entry>> \notin older

ExpireRecord(id) ==
  /\ Oldest(Record(id))
  /\ table' = [table EXCEPT ![id] = NoUser]
  /\ older' = Without(Record(id))
  /\ UNCHANGED <<index, call, faults, crashes, history>>

ExpireKey(k, key) ==
  /\ Oldest(Entry(k, key))
  /\ index' = [index EXCEPT ![k][key] = Empty]
  /\ older' = Without(Entry(k, key))
  /\ UNCHANGED <<table, call, faults, crashes, history>>

Expire == (\E id \in UserID : ExpireRecord(id)) \/ (\E k \in Kind, key \in Key : ExpireKey(k, key))

(* The calls that write nothing, and the death of the process.              *)
OtherStep ==
  /\ \/ \E p \in Proc : Invoke(p) \/ CheckTaken(p) \/ LookupOld(p) \/ Lookup(p) \/ Fetch(p)
                          \/ Fail(p)
     \/ Crash
  /\ UNCHANGED older

ExpiryInit == Init /\ table = EmptyTable /\ older = {}

ExpiryNext ==
  \/ \E p \in Proc : RemoveEntry(p) \/ CreateEntry(p) \/ SetEntry(p)
  \/ OtherStep
  \/ Expire

ExpirySpec == ExpiryInit /\ [][ExpiryNext]_expiryVars
-----------------------------------------------------------------------------
(* An index entry never outlives the record it leads to: at any time, also  *)
(* when entries have expired under a Save, or between its death and its     *)
(* repetition, no FindBy* is sent to a user that is gone or that has given  *)
(* the key up; only the user whose Save a crash cut short is out of step    *)
(* until that is repeated.  This rests on Save writing the record last and  *)
(* removing the old keys first.  (Lookups can miss a user whose entries     *)
(* have expired before the record, and the key of such a user is free for   *)
(* another.)                                                                *)
EntriesLeadToUsers ==
  ~suspect =>
    \A id \in UserID \ {interrupted.id}, k \in Kind, key \in Key :
      Settled(id) /\ index[k][key] = id => table[id][k] = key
-----------------------------------------------------------------------------
(* Why this is so.  An entry leads to the record it was written for, which  *)
(* was written after it; or it is one that a Save has entered, or that a    *)
(* Save which a crash cut short has left.                                   *)
LedTo(id, k, key) ==
  /\ table[id][k] = key
  /\ <<Entry(k, key), Record(id)>> \in older
  /\ \A p \in Proc : Saving(p) /\ call[p].user.id = id => ~Cleared(p, k)

EnteredBySave(id, k, key) ==
  \E p \in Proc : /\ Saving(p) /\ call[p].user.id = id
                  /\ Entered(p, k) /\ call[p].user[k] = key

LeftByCrash(id, k, key) == interrupted.id = id /\ interrupted[k] = key

OneSave ==
  /\ \A p, q \in Proc : p # q /\ Saving(p) /\ Saving(q) => call[p].user.id # call[q].user.id
  /\ \A p \in Proc : Saving(p) /\ call[p].user.id = interrupted.id => call[p].user = interrupted
  /\ Faithful

(* The record that a Save read may have expired since.                      *)
OldKnownOrGone ==
  \A p \in Proc : Writing(p) =>
    table[call[p].user.id] = NoUser \/ call[p].old = table[call[p].user.id]

ExpiryInv ==
  ~suspect =>
    /\ OneSave /\ OldKnownOrGone
    /\ \A id \in UserID, k \in Kind, key \in Key :
         index[k][key] = id => \/ LedTo(id, k, key) \/ EnteredBySave(id, k, key)
                               \/ LeftByCrash(id, k, key)
=============================================================================
