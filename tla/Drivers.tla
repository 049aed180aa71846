------------------------------- MODULE Drivers -------------------------------
(***************************************************************************)
(* The key/value drivers under keyValueStorage: the in-memory maps, redis  *)
(* and etcd.  An index is a function from keys to user ids in which Empty  *)
(* (the empty string) marks a key that is not there; the user table is a   *)
(* function from user ids to records in which the zero record marks a user *)
(* that is not there.  Every operator below is ONE call of a driver and is *)
(* atomic: local.go holds the mutex of the map for the whole call, redis   *)
(* and etcd execute one command.                                           *)
(***************************************************************************)
CONSTANTS Empty,   \* the empty string
          Driver   \* which driver --storage selects

ASSUME DriverAssumption == Driver \in {"memory", "redis", "etcd"}

(* The maps of the memory driver cannot fail; a redis or etcd call can.    *)
DriverCanFail == Driver # "memory"

(* Only the maps of the memory driver die with the process.                *)
DriverPersists == Driver # "memory"

-----------------------------------------------------------------------------
(* A driver that forgets to remove (a mutant for the runs, used by nothing).  *)
KeyStays(idx, key) == idx

LocalPut(idx, key, id) == [idx EXCEPT ![key] = id]

LocalRemove(idx, key) == [idx EXCEPT ![key] = Empty]

(* SET overwrites whatever the key held.                                   *)
RedisPut(idx, key, id) == [idx EXCEPT ![key] = id]

(* DEL of a missing key answers 0, which is not an error.                  *)
RedisRemove(idx, key) == [idx EXCEPT ![key] = Empty]

(* An etcd index is written with Create, which refuses an existing key; the *)
(* refusal is an error that Save does not look at.                         *)
EtcdPut(idx, key, id) == IF idx[key] = Empty THEN [idx EXCEPT ![key] = id] ELSE idx

(* Delete of a missing key is an error that Save does not look at either.  *)
EtcdRemove(idx, key) == [idx EXCEPT ![key] = Empty]

Put(idx, key, id) ==
  CASE Driver = "memory" -> LocalPut(idx, key, id)
    [] Driver = "redis"  -> RedisPut(idx, key, id)
    [] Driver = "etcd"   -> EtcdPut(idx, key, id)

Remove(idx, key) ==
  CASE Driver = "memory" -> LocalRemove(idx, key)
    [] Driver = "redis"  -> RedisRemove(idx, key)
    [] Driver = "etcd"   -> EtcdRemove(idx, key)

(* Driver.Set replaces the JSON document of a user, on every driver.       *)
SetRecord(tbl, id, user) == [tbl EXCEPT ![id] = user]
=============================================================================
