---------------------------- MODULE EventDelivery ----------------------------
(***************************************************************************)
(* From logEvent of service/service.go to the streams of eventstream/*.go   *)
(* and to the collector.  A request is answered without waiting for its     *)
(* event: logEvent starts a goroutine for the Broadcaster and another for   *)
(* the collector, and the Broadcaster starts one for every stream.  Nothing *)
(* orders these goroutines, and all that have not run are lost when the     *)
(* process dies.  A redis or cores stream that cannot publish ends the      *)
(* process itself (log.Fatalf).                                            *)
(*                                                                         *)
(* The redis stream shares the connections of src/redis.go with the redis   *)
(* storage; a pool that is used up does not wait, it answers an error.      *)
(*                                                                         *)
(* Event number n is the n-th one handed to logEvent.                       *)
(***************************************************************************)
EXTENDS EventCollectorProps, FiniteSets

CONSTANTS Stream,       \* which streams --eventstreams selects
          MaxActive,    \* --redis-max-active; 0 is no limit
          MaxCallers,   \* bound on storage calls that use redis at one time
          MaxTasks      \* bound on the goroutines that wait to run

ASSUME DeliveryAssumption ==
  /\ Stream \subseteq {"redis", "cores", "log", "none"}
  /\ MaxActive \in Nat /\ MaxCallers \in Nat /\ MaxTasks \in Nat

VARIABLES handed,     \* how many events were handed to logEvent
          started,    \* how many of them before the process was last started
          tasks,      \* the goroutines that were started and have not ended
          connected,  \* the events whose redis goroutine has its connection
          callers,    \* how many storage calls have one
          delivered,  \* how often each stream published each event
          collected   \* how often this process published it to the collector

collector    == <<arrays, items, published, reading, written, snapshot>>
deliveryVars == <<collector, handed, started, tasks, connected, callers, delivered, collected>>

Numbers == 1..MaxEvents

Task(to, n) == [to |-> to, event |-> n]

(* logEvent returns as soon as its two goroutines are started.              *)
LogEvent ==
  /\ handed < MaxEvents /\ Cardinality(tasks) + 2 <= MaxTasks
  /\ handed' = handed + 1
  /\ tasks' = tasks \cup {Task("broadcaster", handed'), Task("collector", handed')}
  /\ UNCHANGED <<collector, started, connected, callers, delivered, collected>>

(* A mutant: only one stream gets the event.                                *)
OneStream(n) == {Task(CHOOSE s \in Stream : TRUE, n)}

ToStreams(n) == {Task(s, n) : s \in Stream}

(* Broadcaster.Publish                                                      *)
Broadcast(n) ==
  /\ Task("broadcaster", n) \in tasks
  /\ tasks' = (tasks \ {Task("broadcaster", n)}) \cup ToStreams(n)
  /\ UNCHANGED <<collector, handed, started, connected, callers, delivered, collected>>

(* EventCollector.publish                                                   *)
Collect(n) ==
  /\ Task("collector", n) \in tasks
  /\ publish
  /\ tasks' = tasks \ {Task("collector", n)}
  /\ collected' = [collected EXCEPT ![n] = @ + 1]
  /\ UNCHANGED <<handed, started, connected, callers, delivered>>
-----------------------------------------------------------------------------
(* The process ends with every goroutine in it, and is started again.       *)
Die ==
  /\ Restart
  /\ tasks' = {} /\ connected' = {} /\ callers' = 0
  /\ started' = handed
  /\ collected' = [n \in Numbers |-> 0]
  /\ UNCHANGED handed

Crash == started < handed /\ Die /\ UNCHANGED delivered

(* Pool.Get: with all connections in use its caller gets an error.          *)
PoolHasRoom == MaxActive = 0 \/ Cardinality(connected) + callers < MaxActive

Publishing(s, n) == Task(s, n) \in tasks /\ (s = "redis" => n \in connected)

Publishes(s, n) == delivered' = [delivered EXCEPT ![s][n] = @ + 1]

Connect(n) ==
  /\ Task("redis", n) \in tasks /\ n \notin connected /\ PoolHasRoom
  /\ connected' = connected \cup {n}
  /\ UNCHANGED <<collector, handed, started, tasks, callers, delivered, collected>>

(* Publish of a stream; redis returns its connection.                       *)
Publish(s, n) ==
  /\ Publishing(s, n) /\ Publishes(s, n)
  /\ tasks' = tasks \ {Task(s, n)}
  /\ connected' = IF s = "redis" THEN connected \ {n} ELSE connected
  /\ UNCHANGED <<collector, handed, started, callers, collected>>

(* A mutant: a failed publish is tried again.                               *)
Retry(s, n) ==
  /\ s \in {"redis", "cores"} /\ Publishing(s, n)
  /\ delivered[s][n] < 2 /\ Publishes(s, n)
  /\ UNCHANGED <<collector, handed, started, tasks, connected, callers, collected>>

(* Publish of redis or cores fails, before or after the server got the event, *)
(* or there is no connection: log.Fatalf ends the process.                  *)
PublishFails(s, n) ==
  /\ s \in {"redis", "cores"}
  /\ \/ Publishing(s, n) /\ (Publishes(s, n) \/ UNCHANGED delivered)
     \/ s = "redis" /\ Task(s, n) \in tasks /\ n \notin connected /\ UNCHANGED delivered
  /\ Die

(* A storage call takes a connection for one command, and fails without one. *)
StoreConnect ==
  /\ callers < MaxCallers /\ PoolHasRoom
  /\ callers' = callers + 1
  /\ UNCHANGED <<collector, handed, started, tasks, connected, delivered, collected>>

StoreReturns ==
  /\ callers > 0
  /\ callers' = callers - 1
  /\ UNCHANGED <<collector, handed, started, tasks, connected, delivered, collected>>

Feed ==
  /\ \E r \in Reader : Get(r) \/ Encode(r) \/ EncodeFails(r)
  /\ UNCHANGED <<handed, started, tasks, connected, callers, delivered, collected>>
-----------------------------------------------------------------------------
DeliveryInit ==
  /\ Init
  /\ handed = 0 /\ started = 0
  /\ tasks = {} /\ connected = {} /\ callers = 0
  /\ delivered = [s \in Stream |-> [n \in Numbers |-> 0]]
  /\ collected = [n \in Numbers |-> 0]

(* One of the goroutines of event n goes on.                                *)
Deliver(n) ==
  \/ Broadcast(n) \/ Collect(n) \/ Connect(n)
  \/ \E s \in Stream : Publish(s, n) \/ PublishFails(s, n)

DeliveryNext ==
  \/ LogEvent \/ Crash \/ StoreConnect \/ StoreReturns \/ Feed
  \/ \E n \in Numbers : Deliver(n)

DeliverySpec == DeliveryInit /\ [][DeliveryNext]_deliveryVars

(* The Go scheduler runs every goroutine that can run; it is enough that it  *)
(* runs some goroutine of an event that has any.  Nothing is assumed of     *)
(* requests, of feed requests, whose clients may stop reading, of storage   *)
(* calls and of crashes.                                                    *)
FairDelivery ==
  /\ DeliverySpec
  /\ \A n \in Numbers : WF_deliveryVars(Deliver(n))
-----------------------------------------------------------------------------
Waits(to, n) == IF Task(to, n) \in tasks THEN 1 ELSE 0

(* No event is published twice or lost on its way: while the process lives,  *)
(* each event is, for every stream, either still with the Broadcaster, or   *)
(* with the stream's goroutine, or published once, and as much holds for    *)
(* the collector, which has no event of a dead process.  Of the events that *)
(* a dead process was handed, a stream has each at most once, even when the  *)
(* process died of a publish whose answer was lost.                         *)
EventsConserved ==
  \A n \in Numbers :
    /\ \A s \in Stream :
         /\ n > handed => delivered[s][n] = 0
         /\ n <= started => delivered[s][n] <= 1
         /\ n \in started + 1..handed
              => delivered[s][n] + Waits(s, n) + Waits("broadcaster", n) = 1
    /\ collected[n] + Waits("collector", n) = IF n \in started + 1..handed THEN 1 ELSE 0

(* Every event that was handed over reaches the feed and all streams, unless *)
(* the process dies before: neither a used-up pool, nor a busy stream, nor a *)
(* client that stops reading its feed keeps it waiting.                     *)
EventsArrive ==
  \A n \in Numbers :
    n <= handed ~> n <= started \/ (collected[n] = 1 /\ \A s \in Stream : delivered[s][n] = 1)
=============================================================================
