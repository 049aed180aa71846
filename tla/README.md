# userd in TLA+

userd is a small HTTP server that manages user accounts: profiles, logins,
email verification and password resets, kept in memory, in redis or in etcd. This
directory models its core and checks it with TLC, and proves the safety of it with
TLAPS: of the storage, on which everything else rests, of the service and
the API over it, of the collector of events and of their way to it.

    tlc -config Storage.cfg MCKeyValueStorage     # one run
    tlapm UserServiceInvProofs.tla                # one module of proofs

Paths below are relative to the repository; line numbers are those of the
commit that is modelled.

## 1. The system

    client -> HTTP API -> UserService -> UserStorage -> keyValueStorage -> drivers
                              |                          (1 table, 3 indexes)
                              +-> logEvent -> EventStream (log, cores, redis, none)
                                        \--> EventCollector -> /v1/feed

| component | state | operations |
|---|---|---|
| client package (`client/`) | none | one call per API operation; turns a status into a result or an error |
| HTTP API (`middlewares/v1/web.go`) | none | one handler per operation; maps errors to statuses |
| user service (`service/service.go`) | none of its own: works on copies of user records | `CreateUser`, `GetUser`, `ChangeLoginCredentials`, `ChangeProfileName`, `ChangeEmail`, `Authenticate`, `SetEmailVerified`, `CheckAndSetEmailVerified`, `NewResetLoginCredentialsToken`, `ResetCredentialsWithToken` |
| password hasher (`hasher/bcrypt.go`) | the configured cost | `Hash`, `Verify`, `NeedsRehash` |
| id factories (`idfactory/`) | a counter (`sequence.go`), nothing (`uuid.go`) | `NewUserID`, `NewResetPasswordToken` |
| key/value storage (`storage/keyvalue.go`) | the table of users; indexes by email, login name and reset token | `Save`, `Get`, `FindByEmail`, `FindByLoginName`, `FindByResetPasswordToken` |
| drivers (`local.go`, `keyvalue_redis.go`, `keyvalue_etcd.go`) | maps with a mutex; the redis or etcd server | index `Put`, `Lookup`, `Remove`; table `Set`, `Lookup` |
| event streams (`eventstream/`) and `logEvent` | goroutines in flight, a connection | `Publish`, of the broadcaster and of each stream |
| event collector (`service/collector.go`) | a slice of the latest events | `publish`, `Get`, `WriteJSONStreamOnce` |
| redis pool (`redis.go`) | connections, at most `--redis-max-active` | `Get`, `Close` |
| flags and start (`main.go`, `http/cli/`), logging, welcome page | none | |

How they interact: net/http runs a goroutine per request. It calls the service,
which calls the storage, which makes between one and ten driver calls. The mutex of a
memory map, a redis command or an etcd request makes ONE driver call atomic;
nothing makes two of them atomic. `logEvent` starts goroutines that hand the
event to the stream and to the collector. The collector has a lock, but hands out
its slice to readers who use it after the unlock.

What is hard, and what makes a part correct:

* *Storage.* `Save` is a check of three indexes, a read of the old record, three
  removals, three insertions and a write of the record. It interleaves with other calls,
  may be cut short by a crash, and drops the errors of its writes. It is correct
  when the indexes have exactly the keys of the records, when keys are unique,
  when a refused `Save` has written nothing, and when a repeated `Save` repairs
  what a crash tore.
* *Service.* Read-modify-write without a lock: records are stale when they are
  saved. It is correct when a request acts as one step on the directory of
  users, tokens lead to their own user and are used once, and each request is answered.
* *API and client.* Correct when a client is told of a success exactly when there was one.
* *Collector.* Slices share arrays with `append` and with unlocked readers. It is correct when it
  keeps the latest events and when readers see the items that were there when they asked.
* *Event delivery.* A chain of goroutines that nobody waits for, over a pool that
  the storage uses too, and streams that end the whole process when they cannot publish. It is correct
  when each event goes once to each stream while the process lives, and never twice.
* *Id factories.* `Sequence++` races with itself and starts at 0 with every process, while the
  store keeps its users. It is correct when a creation never meets an existing user.
* *etcd with a ttl.* The entries of one user expire at different times, also under a
  Save. It is correct when no index entry leads to a user that is gone.

The complete list of hazards, each at its line, is `hazards` in `PROJECT.json`.

## 2. Modules

| module | models | extends / instantiates |
|---|---|---|
| `Drivers` | one operator per driver call | |
| `KeyValueStorage` | `keyvalue.go`, one action per driver call | `Drivers` |
| `KeyValueStorageProps` | its properties, its inductive invariant | `KeyValueStorage`, instance of `UserStore` |
| `UserStore` | abstract: what `backends.go` promises the service | |
| `UserAccounts` | data of the service: records, hashes, requests, events | |
| `KeyValueExpiry` | the storage on etcd with `--storage-etcd-ttl` | `KeyValueStorageProps` |
| `IdFactory` | `idfactory/`: uuids, and the unlocked sequence | |
| `UserService` | `service.go` over the storage and the id factory | `UserAccounts`, instances of `KeyValueStorage` and `IdFactory` |
| `UserServiceProps` | its properties | `UserService`, instances of `KeyValueStorageProps` and `UserDirectory` |
| `UserDirectory` | abstract: every request one step on a directory | `UserAccounts` |
| `HttpApi` | statuses, bodies, and what the client makes of them | `UserService` |
| `EventCollector`, `EventCollectorProps` | `collector.go` | |
| `EventDelivery` | `logEvent`, `eventstream/`, the redis pool, over the collector | `EventCollectorProps` |
| `MCKeyValueStorage`, `MCKeyValueExpiry`, `MCUserService` | instances for TLC | |
| `KeyValueStorageProofs`, `KeyValueStorageInvProofs` | theorems about `KeyValueStorageProps` | |
| `KeyValueExpiryProofs` | theorem about `KeyValueExpiry` | `KeyValueStorageInvProofs` |
| `UserServiceProofs` | types of `UserService`, and that the storage in it is `KeyValueStorage` | `UserServiceProps`, instance of `KeyValueStorageInvProofs` |
| `UserServiceInvProofs` | theorems about tokens, creations, stale copies and the refinement of `UserDirectory` | `UserServiceProofs` |
| `HttpApiProofs` | theorems about `HttpApi` | `UserServiceProofs` |
| `EventCollectorProofs`, `EventDeliveryProofs` | theorems about `EventCollectorProps` and `EventDelivery` | |

Definitions named as *mutants* in the modules are used by no specification. Each
is a plausible bug in the definition next to it, and serves to see that a
property notices it: `mutants` in `PROJECT.json` says which.

### Drivers and KeyValueStorage

`table` is the JSON document of each user, `NoUser` where there is none;
`index[k]` maps the keys of index `k` to user ids, `Empty` (the empty string)
where there is no entry. A record keeps its three keys as fields named like
the indexes, and everything else in an opaque `data`, which the storage copies
and never looks at. `call[p]` is the storage call of goroutine `p`: how far it
is (`pc`, and `kind` for the index it is at), its argument, `oldUser` and
the answer.

| code | action |
|---|---|
| `Save`, argument checks (`keyvalue.go:51-62`) | `Save` |
| `checkTakenByOtherUser`, per index | `CheckTaken` |
| `oldUser := noLockLookup` | `LookupOld` |
| `Remove` of an old key, per index | `RemoveOld` |
| `Put` of a new key, per index | `PutNew` |
| `Driver.Set` | `SetUser` |
| `Get`, `FindBy*` | `Get`, `FindBy`, then `Lookup`, `Fetch` |
| a driver error on a read (masked, ends the call) | `ReadFails` |
| a driver error on a write (dropped, `Save` goes on) | `WriteFails` |
| the process dies | `Crash` |

The drivers differ in `Put`, which overwrites on redis and in memory and is
refused by etcd when the key exists, in what survives a crash, and in whether calls can fail.

`SetUser` writes the record as JSON. `json.Marshal` cannot fail for these fields (strings, a
boolean, a time that was the clock's), so its error return at lines 110-112 is no action, but it replaces
invalid UTF-8 by U+FFFD: `Utf8` says what becomes of a key, `Encoded` of a record. `FindBy*` and the
checks use the key as it was sent.

Two history variables say when the code can no longer be expected to keep its
promises, and are read by no guard. `interrupted` is the record whose Save a crash cut short, until a Save
of this very record completes. `suspect` becomes true when

* a Save begins while another one with the same user or a common key is under way (`Overlaps`);
* a Save begins, of another record than `interrupted`, with its user or with a key that it was to write or
  to remove (`MeetsTorn`); a Save that keeps off these is harmless, and allowed;
* a Save begins with an email or a login name that is not valid UTF-8;
* a write error is dropped;
* a crash cuts two different records' Saves short (one of them may be `interrupted`), or one whose old key
  another user has taken by then (`LostOldKey`).

The properties of the storage, but for `TypeOK` and `RefusedSaveWritesNothing`, are stated for stores that are
not suspect. Each of these conditions is a way in which the code goes wrong: the runs of section 5 and
the hazards without a property say what happens then. In particular, nothing is claimed of a key that a crash
has released and another user takes before the Save is repeated (hazard at `keyvalue.go:91`).

### KeyValueExpiry

With `--storage-etcd-ttl` each `Create` and each `Set` gives its entry the same time to
live. So entries expire in the order in which they were written last, and this
order is all that is modelled of time: `older` has the pairs of entries of which the
first was written before the second, and `ExpireRecord` and `ExpireKey` drop the
`Oldest` entry whenever they like. `Set` starts the life of a record over again (`Renewed`); a
`Create` that etcd refuses does not, and `Delete` ends a life. Every other step is that of
`KeyValueStorage`, which does not know that anything expires. The store is empty at
first: what an earlier process left would have its lifetimes too.

### IdFactory

`draw[p]` is where goroutine `p` is in `Sequence++`: it loads the counter, then
stores what it loaded plus one. What it then formats is what it stored or what
the counter is by then, as the compiler chooses (`Drawn`): two requests can get one
number. `Restart` sets the counter to 0. The numbers are formatted to the ids and
tokens of `IdOf` and `TokenOf`; `uuid` gives any id or token that was not given before.

### UserAccounts, UserService and UserDirectory

A goroutine is idle, waiting for the number of its id or token (`number`), in its
find (`load`), in its `Save` (`save`) or has
answered; the steps inside a find or a `Save` are those of `KeyValueStorage`,
whose variables `UserService` shares. So requests interleave at every driver
call. `Begin` and the actions under `Arrive` are the start of each service
method up to its first storage call; those under `Continue` are what it does
once the storage has answered. `CreateUser` skips the find; `Authenticate`
saves only to replace a hash of a lower cost, and ignores the error of this Save;
`ResetCredentials` panics on a record without issue time, as line 288 does.
A hash is the password and whether its cost is below the configured one.
`CountStep` is the id factory at work for it. `NewResetToken` reads the clock before it draws the token: with
the sequence factory, whose draw takes two steps, `working` keeps the time that was read (`IssueTime`).
`now` is the clock, `owner` says for whom the id factory made each token, `known` are the tokens that
clients were told, `spent` is history. `events` is the order in which
events are handed over, not that in which goroutines deliver them.

`UserDirectory` is the abstract service: one map of users, on which a request
takes effect in one step between its arrival and its answer. `UserStore` is
the same for the storage. Both are written from what callers rely on, and are
never used by the detailed modules.

### HttpApi

Handlers keep no state, so the module has none: `Status` and `Body` are functions of
the answer of the service, and `ClientResult` of these. The client package has two
ways to look at a status: `create` and `get` compare it with the one they expect
(`ExpectedStatus`); the other calls go through `Execute`, which looks for a handler
of the status among the methods of the call (`Handled`).

### EventCollector

Go slices are modelled as array, offset and length. `append` writes into the array when
there is room and copies to a larger one when there is not; how much larger is Go's business
(twice as large while it is small, a quarter more later, rounded up to a size class), so
`AppendGrowing` has every size up to `MaxGrowth` more than there were items. Items are numbered; `MarshalJSON` caches its output in a
copy of the item and is left out. A restart begins with a new, empty array.

### EventDelivery

`logEvent` answers at once and leaves two goroutines behind, one for the
`Broadcaster` and one for the collector; the `Broadcaster` leaves one for
each stream. `tasks` is the set of goroutines that were started and have not
ended, in no order. Events are numbered as they are handed over. `delivered[s][n]` and
`collected[n]` count how often event `n` got to stream `s` and to the collector
of this process; `started` is the number of events that earlier processes were handed.

| code | action |
|---|---|
| `logEvent` | `LogEvent` |
| `Broadcaster.Publish` | `Broadcast` |
| `EventCollector.publish` in its goroutine | `Collect` (`publish` of `EventCollector`) |
| `Pool.Get` of the redis stream | `Connect` |
| `Publish` of a stream | `Publish` |
| redis or cores cannot publish: `log.Fatalf` | `PublishFails`, and with it `Die` |
| the process dies of something else | `Crash` |
| a redis command of the storage | `StoreConnect`, `StoreReturns` |
| a request for `/v1/feed` | `Feed` (`Get`, `Encode` and `EncodeFails` of `EventCollector`) |

The pool (`PoolHasRoom`) does not wait when it is used up: the stream then fails as with any other
error, and may have published by then or not. `EventDelivery` has only one question about the storage: who
else has a connection.

## 3. Runs

| run | instance | what it shows |
|---|---|---|
| `Storage` | 2 callers, 2 users, 2 emails, 2 logins, 1 token, etcd, 1 crash, 1 failing call, any table left by earlier runs | `LookupsExact`, `KeysUnique`, `RefusedSaveWritesNothing`, `SavesLeaveOthersKeys`, and the inductive invariant `StorageInv` that the proofs use |
| `StorageExpiry` | 2 callers, 2 users, 2 emails, 2 logins, etcd with a ttl, 1 crash, no failing call | `EntriesLeadToUsers` |
| `ServiceSerial` | 1 goroutine, 3 requests of any kind, 2 users, clock 0..2, expiry 1, old hash in the store, verified email required, redis | the service implements `UserDirectory` (`ActsAsDirectory`) and the storage under it `UserStore` (`ActsAsUserStore`); `SpentTokensAreGone`, `ClientSeesOutcome` |
| `ServiceTokens` | 2 goroutines, 3 requests for and with tokens, 1 crash, 1 failing call | `TokenBelongs` |
| `ServiceKeys` | 2 goroutines, 3 requests that change keys or log in, 2 users of whom one or none is there at first, 1 crash, redis | `LookupsExact` in the hands of the service, `CreatedUsersAreStored` |
| `ServiceProgress` | 2 goroutines, 2 requests of any kind that all meet in one user, ids of the racing sequence, 1 failing call | `RequestsAnswered`, `LoginsGoThrough`, `InternalErrorsAreStorageErrors` |
| `Events` | 4 events, streams redis and log, a pool of 2 connections, 1 storage call, 3 goroutines in flight, 1 reader, `MaxItems` 2, `MaxGrowth` 3 | `EventsConserved`, `EventsArrive`, and the properties of the collector |

Each takes between a second and about three minutes. Why the instances are large enough:

* Two goroutines: what the storage does depends on one other call at a time
  (the invariant relates pairs of Saves); the proofs cover any number.
* Two users, and two keys of each kind: a user can change a key, and another
  can take the key that was given up. One reset token is enough for the
  storage, since the token index is treated as the two others are.
  `ServiceTokens` has two, so that both users can have one.
* Faults and crashes are bounded to one of each, at any step of the runs that have them. After a second
  write fault nothing new can be said of the store, and two crashes are in
  `StorageInv`, which is proved without a bound.
* `ServiceKeys` starts with a user or with none, so that two creations can meet, be cut short by
  the crash, and be repeated.
* Three requests: one that sets a state up and two that meet in it.
  A used token needs two requests, and a third one to bring it back.
* `MaxTime` 2 with an expiry time of 1 has all of before, at and after the expiry.
* `StorageExpiry` has no bound on expiry: whichever entries there are may go. A failing write would make the
  store suspect, and a failing read only ends a call, so it has no faults; `EntriesLead` is proved with them. Its set
  of tokens is empty, which leaves two indexes that are treated alike.
* `Events`: with `MaxItems` 2 and 4 events the array is filled, trimmed,
  reallocated to arrays with room for one, two or three more, and appended to behind a slice that a reader has; a second
  reader changes nothing for the first. Two streams, one that shares the pool and one that does not;
  a pool of 2 is used up by a publish and a storage call, or by two publishes. 3 goroutines in flight
  are those of two events that overlap (`MaxTasks`; `logEvent` itself has no such
  limit). Crashes are not bounded but by the number of events. The invariants and
  `SharedItemsFrozen` are proved without these bounds.
* `MaxRequests` is at most the number of ids and of tokens of the sequence
  (`FactoryAssumption`), so that a number is never missing.

The loss of a memory store in a crash is in no passing run; the proofs cover it, as
they do every driver. `Storage` stops at a suspect state (`CONSTRAINT NotSuspect`), of which its invariants say nothing.
Symmetry permutes goroutines, users, keys and passwords, which occur in no
constant but through sets that are closed under them; `CHOOSE` occurs only
where the choice is unique or, in `Crash`, where it is followed by `suspect`.
The runs with liveness use no symmetry. The runs of the service
stop after `MaxRequests` requests, and where the ids or tokens are used up, so they do not check for
deadlock; `RequestsAnswered` shows that no request is left in the middle. It counts a panic as an end of a request
only for a reset, where line 288 panics (`TokenPanic`, section 5) and the client gets no answer. `ServiceProgress`
has as many tokens as requests, so that a request for a token never waits for one.
`Events` stops where all events are handed over and nothing is left to do.
Clients send only tokens that they were told: guessing is not modelled.

### Fairness

`UserService!FairSpec` has weak fairness of each goroutine that is in a
request, in a step of the service (`Continue`), of the id factory (`CountStep`) or of the
storage (`StoreStep`). The Go scheduler runs every runnable goroutine eventually, a driver
call returns with a result or an error, and no lock is held from one driver
call to the next, so nothing blocks a request. New requests, faults,
crashes and the clock are not fair. `EventDelivery!FairDelivery` has weak fairness of each event, in the sense that
some goroutine of it goes on (`Deliver(n)`, which includes the publish that fails). That a
goroutine always can is shown, not assumed: a used-up pool answers an error and does not block.
Nothing is assumed of requests, of storage calls (they may keep their connection for ever), of crashes, and
of the readers of the feed: the server has no write timeout (`http/cli/server.go:46-50`), so a client that stops
reading blocks its handler in `Encode` for ever. `EventsArrive` holds with such readers.

## 4. What the passing runs show

* Calls that do not overlap are atomic (`ActsAsUserStore`, `ActsAsDirectory`).
  The Save takes effect with its last write; the writes to
  the indexes before it are not seen by anyone but other overlapping calls.
* As long as Saves that overlap have different users and claim different
  keys, any interleaving leaves the indexes exact, and keys unique. This needs
  no lock. A Save that was cut short by a crash leaves entries of old and new
  keys; Saves of other users that keep off these keys are not disturbed by them, and repeating
  the Save repairs them, on etcd too, where the Put of an existing entry is refused.
* Whatever is lost or overlaps, a token leads to nobody but its user.
* A user whose creation was announced stays stored, whatever other requests do and wherever a process
  over redis or etcd dies, as long as no write is lost.
* Every request ends with an answer, but for the reset that panics (section 5); a login goes
  through also when the Save of its new hash fails; and a status of 500 is due to a driver only.
* On etcd with a ttl no `FindBy*` is sent to a user that is gone: a Save
  writes the record last and removes old keys first, so entries go before
  the record they lead to. What the code does not keep is uniqueness: an entry that is gone
  frees its key although the record still has it.
* An event is lost only with the process, and delivered twice never, not even when the
  process dies of a publish whose answer was lost. All events arrive, however many goroutines wait
  and whoever has the connections, unless the process dies of it.
* The collector's sharing of its array is harmless: an append never writes an item
  that an older slice can see, and no reader holds `publish` up. This rests on `publish` being the only writer
  and on trimming from the front.

## 5. Findings

These runs fail, as expected; each checks one promise of a document or a
comment, and `findings` in `PROJECT.json` quotes it.

* `UniqueKeys`: two overlapping Saves with the same email both pass the check
  (`keyvalue.go:64`). Both users are stored, the index has one of them.
* `LostWrite`: the error of `Driver.Set` is dropped (`keyvalue.go:113`). The
  client is told 201 and `user.created` is published for a user that does not exist.
* `TokenPanic`: the Save of a copy that was read before a token was made
  overlaps the Save of the token, and writes the record without it; the index entry stays.
  A reset with this token dereferences nil at `service.go:288`. In the same instance TLC also violates
  `~suspect => NoPanic`, without any overlap of Saves: a reset reads the index, another reset
  with the same token ends, and the first reads the record, which has no token any more.
* `LostUpdate`: `readModifyWrite`, and the rehash in `Authenticate`, save the
  whole record as it was read. In the trace the Save of another request has answered nil, and the Save
  of the older copy then replaces its record.
* `SeqIds`: with `--idfactory seq` and a persistent store, the first user that is
  created after a restart gets the id of an existing one, and `Save` takes the
  creation for a change of that user.

Uniqueness breaks in two more ways, which the model has and makes suspect: a crash under a Save frees
a key that the stored record still has, and another user takes it (`keyvalue.go:91`); and invalid UTF-8 in an
email becomes another email in the record, but not in the index (`keyvalue.go:109`). The race of two creations
on the sequence (`sequence.go:17`) is in the model too, and shown by no run of its own.

Seen while modelling, and kept out of the runs: `API_v1.md` documents 200 for
a created user and 204 for an authentication, where the handlers answer 201 and 200, which is
what the client package expects; `ChangeEmail` keeps `EmailVerified` (`service.go:147`); the
event log is opened without `O_APPEND` (`eventstream/log.go:13`), so that a new process writes over
the lines of the one before; with a ttl, keys are not unique (section 4);
and `Authenticate` can accept a login name
which its user gives up between the read of the index and that of the record.

## 6. Proofs

They hold for any driver, any sets of goroutines, ids, keys, requests, readers and streams,
any size of the pool and of the feed, and any number of crashes, faults and
events, but for what the statement itself restricts.

| theorem | module | statement |
|---|---|---|
| `TypeCorrect` | `KeyValueStorageProofs` | `Spec => []TypeOK` |
| `RefusalsWriteNothing` | `KeyValueStorageProofs` | `Spec => RefusedSaveWritesNothing` |
| `StorageInvariant` | `KeyValueStorageInvProofs` | `Spec => []StorageInv` |
| `LookupsAreExact` | `KeyValueStorageInvProofs` | `Spec => []LookupsExact` |
| `KeysAreUnique` | `KeyValueStorageInvProofs` | `Spec => []KeysUnique` |
| `OthersKeysStay` | `KeyValueStorageInvProofs` | `Spec => SavesLeaveOthersKeys` |
| `StorageActsAsUserStore` | `KeyValueStorageInvProofs` | `Spec /\ []Calm => ActsAsUserStore` |
| `CalmEmailsUnique` | `KeyValueStorageInvProofs` | `Spec /\ []Calm => []EmailsUnique` |
| `EntriesLead` | `KeyValueExpiryProofs` | `ExpirySpec => []EntriesLeadToUsers` |
| `ServiceTypeCorrect` | `UserServiceProofs` | `Spec => []TypeOK` |
| `ServiceUsesStorage` | `UserServiceProofs` | `Spec => KVS!Spec` |
| `ServiceLookupsExact` | `UserServiceProofs` | `Spec => []LookupsExact` |
| `ServiceKeysUnique` | `UserServiceProofs` | `Spec => []KeysUnique` |
| `ServiceActsAsUserStore` | `UserServiceProofs` | `Spec /\ []Storage!Calm => ActsAsUserStore` |
| `TokensBelong` | `UserServiceInvProofs` | uuids: `Spec => []TokenBelongs` |
| `UuidsCreateNewUsers` | `UserServiceInvProofs` | uuids: `Spec => CreatesNewUser` |
| `CreationsLast` | `UserServiceInvProofs` | `Spec => [](faults = 0 /\ (Store!DriverPersists \/ crashes = 0) => CreatedUsersAreStored)` |
| `SpentTokensGone` | `UserServiceInvProofs` | uuids: `Spec /\ []Serial => []SpentTokensAreGone` |
| `SerialNeverPanics` | `UserServiceInvProofs` | uuids: `Spec /\ []Serial => []NoPanic` |
| `SerialSavesOnlyChange` | `UserServiceInvProofs` | `Spec /\ []Serial => SavesOnlyItsChange` |
| `ServiceActsAsDirectory` | `UserServiceInvProofs` | uuids: `Spec /\ []Sequential => ActsAsDirectory` |
| `ClientsSeeOutcomes` | `HttpApiProofs` | `Spec => []ClientSeesOutcome` |
| `InternalErrorsExplained` | `HttpApiProofs` | `Spec => []InternalErrorsAreStorageErrors` |
| `CollectorInvariant` | `EventCollectorProofs` | `Spec => []CollectorInv` |
| `CollectorTypes` | `EventCollectorProofs` | `Spec => []TypeOK` |
| `LatestAreKept` | `EventCollectorProofs` | `Spec => []KeepsLatest` |
| `ReadersAreUndisturbed` | `EventCollectorProofs` | `Spec => []ReadersUndisturbed` |
| `SharedItemsStay` | `EventCollectorProofs` | `Spec => SharedItemsFrozen` |
| `EventsAreConserved` | `EventDeliveryProofs` | `DeliverySpec => []EventsConserved` |
| `DeliveryUsesCollector` | `EventDeliveryProofs` | `DeliverySpec => Spec` |

Some statements have conditions, because the code keeps its promise under them only,
and each of them has its finding (section 5), which is a behaviour without the condition:

| condition | theorem | finding without it |
|---|---|---|
| `Calm`: no driver call has failed, no crash, calls of the storage do not overlap, keys are valid UTF-8 | `CalmEmailsUnique`, the refinement of `UserStore` | `UniqueKeys` |
| `Serial`: no driver call has failed, one request at a time is in the storage | `SerialNeverPanics`, `SpentTokensGone` | `TokenPanic` |
| the same | `SerialSavesOnlyChange` | `LostUpdate` |
| no driver call has failed | `CreationsLast` | `LostWrite` |
| uuids | `UuidsCreateNewUsers` | `SeqIds` |

`Serial` allows any number of crashes; `Sequential` is `Serial` without one. Requests may
still overlap before and after their use of the storage. The run
`ServiceSerial`, which has one goroutine and no faults, keeps to all of these conditions.

### The storage

The proofs use the assumptions of the modules: `DriverAssumption` (the driver is one
of the three), `EmptyAssumption` (the empty string is no id and no key),
`BoundsAssumption`, `Utf8Assumption` (an encoded email is an email, an encoded login name is one), and `EarlierAssumption` (a persistent store holds what the API can leave:
records under their own ids that share no key; the indexes belong to it).

`LookupsExact` and `KeysUnique` are not inductive: they say nothing of a user
that is being saved. `StorageInv` says, for a store that is not suspect, where
each Save leaves the indexes on its way:

* `Separate`: Saves in progress have neither user nor key in common;
* `OldKnown`: the old record that a Save read is still the stored one when it writes;
* `NotTaken`: a key that a Save has found free stays free for it, since only a
  Save that claims the same key could take it;
* `SettledExact`: the indexes are exact for every user that is not being saved;
* `SavingExact`: for one that is, each index has the old key, no key or the new
  key, depending on whether the Save has cleared it and entered the new one;
* `Apart`: after a crash no other Save has the user whose Save was cut short, or a key of it, old or new;
* `Faithful`: what a Save enters in the indexes is what the record will say (valid UTF-8);
* `TornOK`: for a user whose Save a crash cut short, the indexes have some of
  its old and its new keys and nobody else has them, and a repeated Save
  removes the wrong ones as it goes.

`TypeOK` is proved with `CallOK`, which says what a call holds where it stands.
The proofs have one step per action. `SetUser` is where `SavingExact` turns into
`SettledExact`, `Crash` where it turns into `TornOK`. `KeysUnique` follows from
exact indexes: an index is a function, and both users are what it gives for their key.

`OthersKeysStay` is, like these, about stores that are not suspect (section 2). It is a property of steps, and needs the invariant before the step: a
`RemoveOld` removes a key that the index still gives to the Save's own user
(`SavingExact`, `TornOK` after a crash), a `PutNew` enters one that is still free (`NotTaken`).

### The storage as an atomic store

`StorageActsAsUserStore` proves the refinement of `UserStore` step by step, for every
behaviour in which calls are `Calm`: the first step of a call is its invocation, the last
write of a `Save` (or its refusal) and the end of a find are where it takes effect, and the
steps in between are stutters. It needs `CalmInv`: the store is not suspect, and a find that
has read an index still has there what it read (`FindsOK`), since a `Save`
would be another call. `CalmEmailsUnique` is uniqueness in every state, also
under a `Save`: the record that is written has keys that no other record has,
because the indexes were exact when they were checked and `NotTaken` since.

### Expiry

`EtcdAssumption` says what the ttl is an option of. With entries that vanish, little of `StorageInv` is left: an index may miss a key of
its user, and the old record that a Save read may be gone (`OldKnownOrGone`). What is
left is in `ExpiryInv`. An entry that leads to a user is either older than the record
that it leads to, which has the key, so that it goes first (`LedTo`); or entered by a Save
in progress, which will write the record (`EnteredBySave`); or left by the
Save that a crash cut short (`LeftByCrash`). A Save removes the
old keys before it writes the record, so `LedTo` also says that no Save of this
user has passed this index. `OneSave` says that Saves in progress have
different users, that the user whose Save a crash cut short is saved by a repetition of it only, and that
what is entered is what the record will say. `ExpireRecord` is the step that needs `older`: the oldest entry
is the record, so there is no entry before it.

### The service

The modules add `StorageAssumption` (the assumptions of the storage, with `Details` as the
payload), `EarlierTokensAssumption` (a stored token has its time of issue),
`FactoryAssumption`, `ConfigAssumption`, `RequestAssumption` and `NilAssumption` (nil is not a time).

`ServiceInv` is `TypeOK` with what a request holds where it stands (`RequestsOK`),
the `CallOK` of the storage, the counter's bounds (`DrawsOK`) and the time that a request for a token has
read while its token is drawn (`ClocksOK`: not before it arrived, and not after now). With it each step of the service is a
step of `KeyValueStorage` or leaves the storage alone (`ServiceUsesStorage`): the records
that the service saves are complete, and it starts a call only where its goroutine has none.
So everything that is proved of the storage holds under the service, by instantiation and without a second proof.

* `TokenInv`: every copy of a record, in the table, in a call or in the hands of a
  request, has a token of its own user (`Owned`), and a reset has the user that the index
  gave it (`ResetOK`). It survives every interleaving, fault and crash, since nobody puts
  a token into a record of another user. This needs uuids: the sequence can give a token again.
* `FreshInv`: until its creation has written the record, an id is known to
  nobody else: no record and no copy in another request has it.
* `CreationsInv`: records never go while no memory is lost (`RecordsStay`), and while no
  write fails a `Save` that answers nil has written its record.
* `SpentInv`: an index entry of a token that a client was told is the one of its user's record; a
  copy in flight is what is stored; what is saved has the stored token, none, or a
  new one that no client can know yet. So the Save of a reset, which clears the entry first, leaves the token nowhere.
* `IssuedInv`: a record with a token has a time of issue, and a reset finds the record that has
  its token. With `SpentInv` this keeps line 288 from its nil.
* `ChangeInv`: what a request that reads and saves has in hand is its change of
  what is stored. A crash that empties a memory store is no Save, so `SerialSavesOnlyChange` holds of every
  driver.
* `DirectoryInv`: where each request stands with respect to the directory. A find
  has the stored record of the key that it looks for, or there is none (`FindOK`), and what is being saved
  is what the request makes of the stored user (`PlanOK`), at a time between its arrival and now.
  Under the mapping a request takes effect when its `Save` is decided, or when it is refused or answered from its find;
  answer and event follow from there (`Decided`, `Announced`).

### The API

`ClientsSeeOutcomes` is by cases on the operation and the error of its answer. `InternalErrorsExplained`
rests on `ErrorsInv`: an error that no handler knows comes from a call of the storage in
which the driver failed (`faults > 0`), in the call itself and in the answer that was made of it.

### The collector

They use `MaxItemsAssumption` (`MaxItems` is not 0: `service.go:29` refuses to start otherwise) and
`GrowthAssumption` (`append` makes room for one more item at least). `KeepsLatest` and
`ReadersUndisturbed` say nothing of where slices lie, so they are not inductive.
`CollectorInv` adds: the collector's slice lies in the newest array and ends
with the latest events in order (`ItemsOK`); a slice that was handed out
holds the items that it had then, and, if it is of the newest array, does
not end behind the collector's (`ReadersOK`, `EndsBefore`). `append` writes behind the end of
the collector's slice or into a new array, so where no reader looks, and trimming moves only the
front. This is proved of `append` for both cases (`InPlaceExtends`, `GrowingExtends`) and
of the readers of what results (`ReadersKept`).

### The delivery

They use `DeliveryAssumption` (which streams there are; the broadcaster and the collector are
none of them). `DeliveryInv` is `EventsConserved` with the ranges of the
counters and `TasksLive`: no goroutine is left of an event of a dead
process. `DeliveryUsesCollector` shows that whatever the goroutines of `EventDelivery` do to the
collector is a step of `EventCollector` or none, so the theorems about it hold there too.

## 7. What is checked on small instances only, and what is left out

Model-checked only: liveness (`RequestsAnswered`, `LoginsGoThrough`, `EventsArrive`), which needs fairness and
`ENABLED` and is beyond the prover.

Not modelled, with the reason:

* The order of events: the code has none between goroutines, and `EventDelivery`
  has them in every order. The contents of the log file, and a log file that cannot be written.
* Of the redis pool, idle connections, dialing and `AUTH`: they are calls that
  fail. The storage and the pool are not composed: to the storage, a used-up pool is a
  driver call that fails, which `MaxFaults` bounds.
* The ttl of etcd under the service: what it leaves of the storage's promises is
  `EntriesLeadToUsers`, from which no promise to a client follows.
* A driver call that reports an error after it took effect: a failing write is one that was not made.
* `main.go` and `http/cli`: flags select the constants of the models; start and shutdown
  have no behaviour of their own worth checking.
* Request logging and the welcome page: output only.
* bcrypt itself and the decoding of HTTP bodies: conversions without bearing on the properties. Of JSON, what it
  does to invalid UTF-8 is modelled (section 2), and nothing else bears on them. The clients of the
  service send valid UTF-8 (`ValidUtf8`), and so do the callers in the runs of the storage (`AllValid`); the proofs of the storage
  allow any `Utf8`.
* That a feed request ends: it need not, since a client may stop reading.

## 8. Plan

Done: the storage with all its drivers and the ttl, the service over it with
both id factories, the API and the client, the delivery of events to the
streams and to the collector, the abstract store and directory; and the proofs of every safety property that a passing run
checks, the two refinements included. Next, in this order:

1. Weaker conditions of the conditional theorems: the refinement of `UserDirectory` where the process may
   die between requests, and `SpentTokensGone` for requests
   that overlap only with requests for other users.
2. The API over `UserDirectory`: a client is told of a success exactly when the directory changed.
3. Properties for the hazards that have none: the race on the sequence, a key that a crash frees, the order of events, the keys that a ttl frees,
   the verification that survives a change of email, the log file of a new process.
