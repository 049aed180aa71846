------------------------ MODULE EventDeliveryProofs --------------------------
(***************************************************************************)
(* Events are conserved for every set of streams, every pool and any number *)
(* of events and goroutines; and the collector, driven by the goroutines of *)
(* logEvent, is the one of EventCollector, so that what is proved in        *)
(* EventCollectorProofs holds of it too.                                   *)
(***************************************************************************)
EXTENDS EventDelivery, EventCollectorProofs

(* The events of this process.                                              *)
Living == started + 1..handed

DeliveryTypes ==
  /\ handed \in 0..MaxEvents /\ started \in 0..handed
  /\ delivered \in [Stream -> [Numbers -> Nat]] /\ collected \in [Numbers -> Nat]

(* There is no goroutine of an event that a dead process was handed.         *)
TasksLive ==
  \A task \in tasks :
    \E to \in Stream \cup {"broadcaster", "collector"} : \E n \in Living : task = Task(to, n)

DeliveryInv == DeliveryTypes /\ TasksLive /\ EventsConserved
-----------------------------------------------------------------------------
LEMMA OtherNames == "broadcaster" \notin Stream /\ "collector" \notin Stream
BY DeliveryAssumption

LEMMA SameTask ==
  ASSUME NEW to, NEW n, NEW to2, NEW n2
  PROVE  Task(to, n) = Task(to2, n2) <=> to = to2 /\ n = n2
BY DEF Task

LEMMA TaskOfLiving ==
  ASSUME TasksLive, NEW to, NEW n, Task(to, n) \in tasks
  PROVE  n \in Living /\ to \in Stream \cup {"broadcaster", "collector"}
BY SameTask DEF TasksLive

LEMMA WaitsIs ==
  ASSUME NEW to, NEW n
  PROVE  /\ Task(to, n) \in tasks => Waits(to, n) = 1
         /\ Task(to, n) \notin tasks => Waits(to, n) = 0
BY DEF Waits

(* What EventsConserved says of one event and one stream, and of the        *)
(* collector.                                                              *)
StreamConserved(s, n) ==
  /\ n > handed => delivered[s][n] = 0
  /\ n <= started => delivered[s][n] <= 1
  /\ n \in Living => delivered[s][n] + Waits(s, n) + Waits("broadcaster", n) = 1

CollectorConserved(n) ==
  collected[n] + Waits("collector", n) = IF n \in Living THEN 1 ELSE 0

LEMMA Conserved ==
  EventsConserved <=>
    \A n \in Numbers : CollectorConserved(n) /\ \A s \in Stream : StreamConserved(s, n)
BY DEF EventsConserved, CollectorConserved, StreamConserved, Living

LEMMA ConservedAt ==
  ASSUME DeliveryInv, NEW n \in Numbers
  PROVE  /\ CollectorConserved(n) /\ collected[n] \in Nat
         /\ \A s \in Stream : StreamConserved(s, n) /\ delivered[s][n] \in Nat
BY Conserved DEF DeliveryInv, DeliveryTypes

LEMMA LivingNumbers ==
  ASSUME DeliveryTypes
  PROVE  /\ Living \subseteq Numbers /\ handed \in Nat /\ started \in Nat
         /\ \A n \in Numbers : n \in Living <=> n > started /\ n <= handed
BY MaxItemsAssumption DEF DeliveryTypes, Living, Numbers
-----------------------------------------------------------------------------
LEMMA LogEventConserves ==
  ASSUME DeliveryInv, LogEvent
  PROVE  DeliveryInv'
<1>1. /\ handed' = handed + 1 /\ handed' \in Numbers /\ started' = started
      /\ tasks' = tasks \cup {Task("broadcaster", handed'), Task("collector", handed')}
      /\ delivered' = delivered /\ collected' = collected
      /\ handed \in Nat /\ started \in Nat /\ started <= handed
  BY LivingNumbers, MaxItemsAssumption DEF LogEvent, DeliveryInv, DeliveryTypes, Numbers
<1>2. DeliveryTypes'
  BY <1>1 DEF DeliveryInv, DeliveryTypes, Numbers
<1>3. Living' = Living \cup {handed'}
  BY <1>1 DEF Living
<1>4. TasksLive'
  BY <1>1, <1>3 DEF DeliveryInv, TasksLive
<1>5. ASSUME NEW n \in Numbers
      PROVE  CollectorConserved(n)' /\ \A s \in Stream : StreamConserved(s, n)'
  <2>1. /\ CollectorConserved(n) /\ collected[n] \in Nat
        /\ \A s \in Stream : StreamConserved(s, n) /\ delivered[s][n] \in Nat
    BY ConservedAt
  <2>2. \A s \in Stream : Task(s, n) \in tasks' <=> Task(s, n) \in tasks
    BY <1>1, SameTask, OtherNames
  <2>3. CASE n = handed'
    <3>1. n \notin Living /\ n \in Living' /\ n > handed
      BY <1>1, <1>3, <2>3 DEF Living
    <3>2. /\ \A s \in Stream : Task(s, n) \notin tasks
          /\ Task("broadcaster", n) \in tasks' /\ Task("collector", n) \in tasks'
      BY <1>1, <2>3, <3>1, TaskOfLiving DEF DeliveryInv
    <3>3. CollectorConserved(n)'
      BY <1>1, <2>1, <3>1, <3>2 DEF CollectorConserved, Waits
    <3>4. ASSUME NEW s \in Stream PROVE StreamConserved(s, n)'
      BY <1>1, <2>1, <2>2, <2>3, <3>1, <3>2 DEF StreamConserved, Waits
    <3> QED
      BY <3>3, <3>4
  <2>4. CASE n # handed'
    <3>1. /\ Task("broadcaster", n) \in tasks' <=> Task("broadcaster", n) \in tasks
          /\ Task("collector", n) \in tasks' <=> Task("collector", n) \in tasks
      BY <1>1, <2>4, SameTask
    <3>2. (n \in Living' <=> n \in Living) /\ (n > handed' => n > handed)
      BY <1>1, <1>3, <2>4 DEF Numbers
    <3>3. CollectorConserved(n)'
      BY <1>1, <2>1, <3>1, <3>2 DEF CollectorConserved, Waits
    <3>4. ASSUME NEW s \in Stream PROVE StreamConserved(s, n)'
      BY <1>1, <2>1, <2>2, <3>1, <3>2 DEF StreamConserved, Waits
    <3> QED
      BY <3>3, <3>4
  <2> QED
    BY <2>3, <2>4
<1>6. EventsConserved'
  BY <1>5 DEF EventsConserved, CollectorConserved, StreamConserved, Living
<1> QED
  BY <1>2, <1>4, <1>6 DEF DeliveryInv

LEMMA BroadcastConserves ==
  ASSUME DeliveryInv, NEW m \in Numbers, Broadcast(m)
  PROVE  DeliveryInv'
<1>1. /\ Task("broadcaster", m) \in tasks
      /\ tasks' = (tasks \ {Task("broadcaster", m)}) \cup ToStreams(m)
      /\ UNCHANGED <<handed, started, delivered, collected>>
  BY DEF Broadcast
<1>2. DeliveryTypes' /\ Living' = Living
  BY <1>1 DEF DeliveryInv, DeliveryTypes, Living
<1>3. m \in Living
  BY <1>1, TaskOfLiving DEF DeliveryInv
<1>4. TasksLive'
  BY <1>1, <1>2, <1>3 DEF DeliveryInv, TasksLive, ToStreams
<1>5. ASSUME NEW n \in Numbers
      PROVE  CollectorConserved(n)' /\ \A s \in Stream : StreamConserved(s, n)'
  <2>1. /\ CollectorConserved(n) /\ collected[n] \in Nat
        /\ \A s \in Stream : StreamConserved(s, n) /\ delivered[s][n] \in Nat
    BY ConservedAt
  <2>2. Task("collector", n) \in tasks' <=> Task("collector", n) \in tasks
    BY <1>1, SameTask, OtherNames DEF ToStreams
  <2>3. CollectorConserved(n)'
    BY <1>1, <1>2, <2>1, <2>2 DEF CollectorConserved, Waits
  <2>4. ASSUME NEW s \in Stream PROVE StreamConserved(s, n)'
    <3>1. CASE n = m
      <4>1. Task("broadcaster", n) \notin tasks' /\ Task(s, n) \in tasks'
        BY <1>1, <3>1, SameTask, OtherNames DEF ToStreams
      <4>2. Waits("broadcaster", n) = 1 /\ Waits(s, n) \in Nat
        BY <1>1, <3>1 DEF Waits
      <4> QED
        BY <1>1, <1>2, <1>3, <2>1, <3>1, <4>1, <4>2 DEF StreamConserved, Waits
    <3>2. CASE n # m
      <4>1. /\ Task("broadcaster", n) \in tasks' <=> Task("broadcaster", n) \in tasks
            /\ Task(s, n) \in tasks' <=> Task(s, n) \in tasks
        BY <1>1, <3>2, SameTask, OtherNames DEF ToStreams
      <4> QED
        BY <1>1, <1>2, <2>1, <4>1 DEF StreamConserved, Waits
    <3> QED
      BY <3>1, <3>2
  <2> QED
    BY <2>3, <2>4
<1>6. EventsConserved'
  BY <1>5 DEF EventsConserved, CollectorConserved, StreamConserved, Living
<1> QED
  BY <1>2, <1>4, <1>6 DEF DeliveryInv

LEMMA CollectConserves ==
  ASSUME DeliveryInv, NEW m \in Numbers, Collect(m)
  PROVE  DeliveryInv'
<1>1. /\ Task("collector", m) \in tasks /\ tasks' = tasks \ {Task("collector", m)}
      /\ collected' = [collected EXCEPT ![m] = @ + 1]
      /\ UNCHANGED <<handed, started, delivered>>
  BY DEF Collect
<1>2. DeliveryTypes' /\ Living' = Living
  BY <1>1 DEF DeliveryInv, DeliveryTypes, Living
<1>3. TasksLive'
  BY <1>1, <1>2 DEF DeliveryInv, TasksLive
<1>4. ASSUME NEW n \in Numbers
      PROVE  CollectorConserved(n)' /\ \A s \in Stream : StreamConserved(s, n)'
  <2>1. /\ CollectorConserved(n) /\ collected[n] \in Nat
        /\ \A s \in Stream : StreamConserved(s, n) /\ delivered[s][n] \in Nat
    BY ConservedAt
  <2>2. \A to \in Stream \cup {"broadcaster"} : Task(to, n) \in tasks' <=> Task(to, n) \in tasks
    BY <1>1, SameTask, OtherNames
  <2>3. ASSUME NEW s \in Stream PROVE StreamConserved(s, n)'
    BY <1>1, <1>2, <2>1, <2>2 DEF StreamConserved, Waits
  <2>4. CollectorConserved(n)'
    <3>1. CASE n = m
      <4>1. Task("collector", n) \notin tasks' /\ collected'[n] = collected[n] + 1
        BY <1>1, <3>1 DEF DeliveryInv, DeliveryTypes
      <4> QED
        BY <1>1, <1>2, <2>1, <3>1, <4>1 DEF CollectorConserved, Waits
    <3>2. CASE n # m
      <4>1. /\ Task("collector", n) \in tasks' <=> Task("collector", n) \in tasks
            /\ collected'[n] = collected[n]
        BY <1>1, <3>2, SameTask DEF DeliveryInv, DeliveryTypes
      <4> QED
        BY <1>1, <1>2, <2>1, <4>1 DEF CollectorConserved, Waits
    <3> QED
      BY <3>1, <3>2
  <2> QED
    BY <2>3, <2>4
<1>5. EventsConserved'
  BY <1>4 DEF EventsConserved, CollectorConserved, StreamConserved, Living
<1> QED
  BY <1>2, <1>3, <1>5 DEF DeliveryInv

LEMMA PublishConserves ==
  ASSUME DeliveryInv, NEW m \in Numbers, NEW to \in Stream, Publish(to, m)
  PROVE  DeliveryInv'
<1>1. /\ Task(to, m) \in tasks /\ tasks' = tasks \ {Task(to, m)}
      /\ delivered' = [delivered EXCEPT ![to][m] = @ + 1]
      /\ UNCHANGED <<handed, started, collected>>
  BY DEF Publish, Publishing, Publishes
<1>2. DeliveryTypes' /\ Living' = Living
  BY <1>1 DEF DeliveryInv, DeliveryTypes, Living
<1>3. TasksLive' /\ m \in Living
  BY <1>1, <1>2, TaskOfLiving DEF DeliveryInv, TasksLive
<1>4. ASSUME NEW n \in Numbers
      PROVE  CollectorConserved(n)' /\ \A s \in Stream : StreamConserved(s, n)'
  <2>1. /\ CollectorConserved(n) /\ collected[n] \in Nat
        /\ \A s \in Stream : StreamConserved(s, n) /\ delivered[s][n] \in Nat
    BY ConservedAt
  <2>2. \A t \in {"broadcaster", "collector"} : Task(t, n) \in tasks' <=> Task(t, n) \in tasks
    BY <1>1, SameTask, OtherNames
  <2>3. CollectorConserved(n)'
    BY <1>1, <1>2, <2>1, <2>2 DEF CollectorConserved, Waits
  <2>4. ASSUME NEW s \in Stream PROVE StreamConserved(s, n)'
    <3>1. CASE s = to /\ n = m
      <4>1. Task(s, n) \notin tasks' /\ delivered'[s][n] = delivered[s][n] + 1
        BY <1>1, <3>1 DEF DeliveryInv, DeliveryTypes
      <4>2. n > started /\ n <= handed
        BY <1>3, <3>1, LivingNumbers DEF DeliveryInv
      <4>3. n \in Nat /\ started \in Nat /\ handed \in Nat
        BY LivingNumbers DEF DeliveryInv, Numbers
      <4>4. delivered[s][n] + 1 + Waits("broadcaster", n) = 1
        BY <1>1, <1>3, <2>1, <3>1 DEF StreamConserved, Waits
      <4>5. Waits(s, n)' = 0 /\ Waits("broadcaster", n)' = Waits("broadcaster", n)
        BY <2>2, <4>1 DEF Waits
      <4>6. Waits("broadcaster", n) \in Nat
        BY DEF Waits
      <4> QED
        BY <1>1, <2>1, <4>1, <4>2, <4>3, <4>4, <4>5, <4>6 DEF StreamConserved
    <3>2. CASE ~(s = to /\ n = m)
      <4>1. /\ Task(s, n) \in tasks' <=> Task(s, n) \in tasks
            /\ delivered'[s][n] = delivered[s][n]
        BY <1>1, <3>2, SameTask DEF DeliveryInv, DeliveryTypes
      <4> QED
        BY <1>1, <1>2, <2>1, <2>2, <4>1 DEF StreamConserved, Waits
    <3> QED
      BY <3>1, <3>2
  <2> QED
    BY <2>3, <2>4
<1>5. EventsConserved'
  BY <1>4 DEF EventsConserved, CollectorConserved, StreamConserved, Living
<1> QED
  BY <1>2, <1>3, <1>5 DEF DeliveryInv

LEMMA DeathConserves ==
  ASSUME DeliveryInv, Die,
         \/ delivered' = delivered
         \/ \E to \in Stream : \E m \in Numbers : Publishing(to, m) /\ Publishes(to, m)
  PROVE  DeliveryInv'
<1>1. /\ tasks' = {} /\ started' = handed /\ handed' = handed
      /\ collected' = [n \in Numbers |-> 0]
  BY DEF Die
<1>2. Living' = {} /\ TasksLive'
  BY <1>1, LivingNumbers DEF DeliveryInv, Living, TasksLive
<1>3. ASSUME NEW s \in Stream, NEW n \in Numbers
      PROVE  /\ delivered'[s][n] \in Nat
             /\ n > handed => delivered'[s][n] = 0
             /\ n <= handed => delivered'[s][n] <= 1
  <2>1. /\ StreamConserved(s, n) /\ delivered[s][n] \in Nat
        /\ Waits("broadcaster", n) \in Nat /\ Waits(s, n) \in Nat
        /\ n \in Nat /\ started \in Nat /\ handed \in Nat
    BY ConservedAt, LivingNumbers DEF Waits, DeliveryInv, Numbers
  <2>2. n <= handed => n <= started \/ n \in Living
    BY <2>1, LivingNumbers DEF DeliveryInv
  <2>3. CASE delivered'[s][n] = delivered[s][n]
    BY <2>1, <2>2, <2>3 DEF StreamConserved
  <2>4. CASE Publishing(s, n) /\ Publishes(s, n)
    <3>1. delivered'[s][n] = delivered[s][n] + 1 /\ Task(s, n) \in tasks
      BY <2>4 DEF Publishing, Publishes, DeliveryInv, DeliveryTypes
    <3>2. n \in Living /\ Waits(s, n) = 1
      BY <3>1, TaskOfLiving, WaitsIs DEF DeliveryInv
    <3>3. delivered[s][n] = 0 /\ n <= handed
      BY <2>1, <3>2, LivingNumbers DEF StreamConserved, DeliveryInv
    <3> QED
      BY <2>1, <3>1, <3>3
  <2>5. ASSUME NEW to \in Stream, NEW m \in Numbers, Publishing(to, m), Publishes(to, m),
               ~(to = s /\ m = n)
        PROVE  delivered'[s][n] = delivered[s][n]
    BY <2>5 DEF Publishes, DeliveryInv, DeliveryTypes
  <2> QED
    BY <2>3, <2>4, <2>5
<1>4. delivered' \in [Stream -> [Numbers -> Nat]]
  BY <1>3 DEF DeliveryInv, DeliveryTypes, Publishes
<1>5. DeliveryTypes'
  BY <1>1, <1>4, LivingNumbers DEF DeliveryInv, DeliveryTypes
<1>6. \A n \in Numbers : Waits("collector", n)' = 0 /\ collected'[n] = 0
  BY <1>1 DEF Waits
<1>7. EventsConserved'
  BY <1>1, <1>2, <1>3, <1>6 DEF EventsConserved, Living
<1> QED
  BY <1>2, <1>5, <1>7 DEF DeliveryInv

LEMMA RestConserves ==
  ASSUME DeliveryInv, UNCHANGED <<handed, started, tasks, delivered, collected>>
  PROVE  DeliveryInv'
BY DEF DeliveryInv, DeliveryTypes, TasksLive, Living, EventsConserved, Waits
-----------------------------------------------------------------------------
LEMMA DeliveryStart == DeliveryInit => DeliveryInv
<1>. SUFFICES ASSUME DeliveryInit PROVE DeliveryInv
  OBVIOUS
<1>1. /\ handed = 0 /\ started = 0 /\ tasks = {}
      /\ delivered = [s \in Stream |-> [n \in Numbers |-> 0]]
      /\ collected = [n \in Numbers |-> 0]
  BY DEF DeliveryInit
<1>2. DeliveryTypes /\ TasksLive
  BY <1>1, MaxItemsAssumption DEF DeliveryTypes, TasksLive
<1>3. EventsConserved
  BY <1>1 DEF EventsConserved, Waits, Numbers
<1> QED
  BY <1>2, <1>3 DEF DeliveryInv

LEMMA DeliveryStep == DeliveryInv /\ [DeliveryNext]_deliveryVars => DeliveryInv'
<1>. SUFFICES ASSUME DeliveryInv, [DeliveryNext]_deliveryVars PROVE DeliveryInv'
  OBVIOUS
<1>1. CASE LogEvent
  BY <1>1, LogEventConserves
<1>2. CASE Crash
  BY <1>2, DeathConserves DEF Crash
<1>3. CASE StoreConnect \/ StoreReturns \/ Feed \/ UNCHANGED deliveryVars
  BY <1>3, RestConserves DEF StoreConnect, StoreReturns, Feed, deliveryVars
<1>4. ASSUME NEW n \in Numbers, Deliver(n) PROVE DeliveryInv'
  <2>1. CASE Broadcast(n)
    BY <2>1, BroadcastConserves
  <2>2. CASE Collect(n)
    BY <2>2, CollectConserves
  <2>3. CASE Connect(n)
    BY <2>3, RestConserves DEF Connect
  <2>4. ASSUME NEW s \in Stream, Publish(s, n) PROVE DeliveryInv'
    BY <2>4, PublishConserves
  <2>5. ASSUME NEW s \in Stream, PublishFails(s, n) PROVE DeliveryInv'
    BY <2>5, DeathConserves DEF PublishFails
  <2> QED
    BY <1>4, <2>1, <2>2, <2>3, <2>4, <2>5 DEF Deliver
<1> QED
  BY <1>1, <1>2, <1>3, <1>4 DEF DeliveryNext

(* No event is lost or published twice while its process lives, and none is  *)
(* published twice by one that died: logEvent, Broadcaster.Publish and the   *)
(* Publish of the streams hand each event on exactly once.                   *)
THEOREM EventsAreConserved == DeliverySpec => []EventsConserved
<1>1. DeliveryInv => EventsConserved
  BY DEF DeliveryInv
<1> QED
  BY <1>1, DeliveryStart, DeliveryStep, PTL DEF DeliverySpec

(* The goroutines of logEvent use the collector as EventCollector allows: its *)
(* theorems hold of the whole, with crashes and failing streams.             *)
THEOREM DeliveryUsesCollector == DeliverySpec => Spec
<1>1. DeliveryInit => Init
  BY DEF DeliveryInit
<1>2. [DeliveryNext]_deliveryVars => [Next]_vars
  BY DEF DeliveryNext, LogEvent, Crash, Die, StoreConnect, StoreReturns, Feed, Deliver, Broadcast,
         Collect, Connect, Publish, PublishFails, deliveryVars, collector, vars, Next
<1> QED
  BY <1>1, <1>2, PTL DEF DeliverySpec, Spec
=============================================================================
