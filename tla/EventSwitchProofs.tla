------------------------- MODULE EventSwitchProofs -------------------------
(***************************************************************************)
(* For every number of connections, topics, subscriptions and events, and  *)
(* whichever tasks end: the switch's subscriptions follow the connections' *)
(* own, and events reach the connections registered for them, but for one  *)
(* (un)subscription that may overtake, in order.                           *)
(***************************************************************************)
EXTENDS EventSwitch, QueueLemmas, FiniteSetTheorems

-----------------------------------------------------------------------------
(* Queues of events.                                                       *)

LEMMA IncreasingAppend ==
    ASSUME NEW S, NEW q \in Seq(S), NEW e \in S,
           Increasing(q), Before(Range(q), {e})
    PROVE  Increasing(Append(q, e))
PROOF
<1>1. /\ \A i \in 1..Len(q) : Append(q, e)[i] = q[i]
      /\ Append(q, e)[Len(q) + 1] = e
      /\ DOMAIN q = 1..Len(q) /\ DOMAIN Append(q, e) = 1..(Len(q) + 1)
      /\ Len(q) \in Nat
    BY AppendProperties, LenProperties
<1>2. \A i \in 1..Len(q) : q[i] < e
    BY <1>1 DEF Before, Range
<1> SUFFICES ASSUME NEW i \in 1..(Len(q) + 1), NEW j \in 1..(Len(q) + 1), i < j
             PROVE  Append(q, e)[i] < Append(q, e)[j]
    BY <1>1 DEF Increasing
<1>3. i \in 1..Len(q)
    BY <1>1
<1>4. CASE j \in 1..Len(q)
    BY <1>1, <1>3, <1>4 DEF Increasing
<1>5. CASE j = Len(q) + 1
    BY <1>1, <1>2, <1>3, <1>5
<1> QED BY <1>1, <1>4, <1>5

LEMMA IncreasingTail ==
    ASSUME NEW S, NEW q \in Seq(S), q # <<>>, Increasing(q)
    PROVE  /\ Increasing(Tail(q)) /\ Before({Head(q)}, Range(Tail(q)))
           /\ Range(q) = Range(Tail(q)) \cup {Head(q)}
PROOF
<1>1. /\ Tail(q) \in Seq(S) /\ Len(Tail(q)) = Len(q) - 1
      /\ \A i \in 1..Len(Tail(q)) : Tail(q)[i] = q[i + 1]
      /\ DOMAIN q = 1..Len(q) /\ DOMAIN Tail(q) = 1..Len(Tail(q))
      /\ Len(q) \in Nat /\ Len(q) > 0 /\ Head(q) = q[1]
    BY HeadTailProperties, LenProperties, EmptySeq
<1>2. \A i \in DOMAIN Tail(q) : i + 1 \in DOMAIN q /\ Tail(q)[i] = q[i + 1] /\ 1 < i + 1
    BY <1>1
<1>3. Increasing(Tail(q))
    <2> SUFFICES ASSUME NEW i \in DOMAIN Tail(q), NEW j \in DOMAIN Tail(q), i < j
                 PROVE  Tail(q)[i] < Tail(q)[j]
        BY DEF Increasing
    <2>1. i + 1 < j + 1
        BY <1>1
    <2> QED BY <1>2, <2>1 DEF Increasing
<1>4. 1 \in DOMAIN q
    BY <1>1
<1>5. Before({Head(q)}, Range(Tail(q)))
    BY <1>1, <1>2, <1>4 DEF Increasing, Before, Range
<1>6. Range(q) = Range(Tail(q)) \cup {Head(q)}
    <2>1. \A i \in DOMAIN q : i = 1 \/ (i - 1 \in DOMAIN Tail(q) /\ Tail(q)[i - 1] = q[i])
        BY <1>1
    <2> QED BY <1>1, <1>2, <1>4, <2>1 DEF Range
<1> QED BY <1>3, <1>5, <1>6

(* An event is copied once to a running connection that is registered. *)
LEMMA OneCopy ==
    ASSUME SwitchInv, running, NEW c \in Conns, task[c] = "running", NEW t \in Topics,
           NEW e \in EventIds, NEW q \in Seq(EventIds)
    PROVE  q \o Copies(c, t, e) = IF Registered(c, t) THEN Append(q, e) ELSE q
PROOF
<1>1. OneSubscription(c, t)
    BY DEF SwitchInv, SubscriptionsInv
<1>2. CASE Registered(c, t)
    <2>1. PICK s : s \in SubsOf(c, t)
        BY <1>2 DEF Registered, SubsOf
    <2>5. SubsOf(c, t) = {s}
        BY <1>1, <2>1 DEF OneSubscription
    <2>2. Cardinality(SubsOf(c, t)) = 1
        BY <2>5, FS_Singleton
    <2>3. Copies(c, t, e) = [i \in 1..1 |-> e]
        BY <2>2 DEF Copies, SubsOf
    <2>4. [i \in 1..1 |-> e] = <<e>>
        OBVIOUS
    <2> QED BY <1>2, <2>3, <2>4, AppendIsConcat
<1>3. CASE ~Registered(c, t)
    <2>1. SubsOf(c, t) = {}
        BY <1>3 DEF Registered, SubsOf
    <2>2. Cardinality(SubsOf(c, t)) = 0
        BY <2>1, FS_EmptySet
    <2>3. Copies(c, t, e) = [i \in 1..0 |-> e]
        BY <2>2 DEF Copies, SubsOf
    <2>4. [i \in 1..0 |-> e] = <<>>
        OBVIOUS
    <2> QED BY <1>3, <2>3, <2>4, ConcatEmptySeq
<1> QED BY <1>2, <1>3

-----------------------------------------------------------------------------
(* The invariant holds initially.                                          *)

LEMMA InitSwitchInv == Init => SwitchInv
PROOF
<1> SUFFICES ASSUME Init PROVE SwitchInv
    OBVIOUS
<1>1. TypeOK
    <2>1. event_first \in BOOLEAN /\ conn_event_first \in [Conns -> BOOLEAN]
        BY DEF Init
    <2> QED BY <2>1, EventBoundsAssumption DEF Init, TypeOK, SubIds
<1>2. IdsHaveOneOwner
    BY EmptyRange DEF Init, IdsHaveOneOwner, OwnIds, IdsOf, SubsOf
<1>3. TopicsHaveEntries
    BY FS_EmptySet DEF Init, TopicsHaveEntries
<1>4. SubscriptionsInv
    BY DEF Init, SubscriptionsInv, PendingTransforms, Transforms, PendingOf,
           OneSubscription, IdsOf, SubsOf
<1>5. EventsInOrder /\ AudienceKept
    BY EmptyRange DEF Init, EventsInOrder, Increasing, Before, AudienceKept
<1>6. AudienceWithinOne /\ NoneLeftOut
    BY DEF Init, AudienceWithinOne, NoneLeftOut
<1>7. NotifsHaveLast /\ TopicNotifsInv
    BY DEF Init, NotifsHaveLast, TopicNotifsInv, TopicsAlternate, Alternate, NotifsOf
<1>8. OnlyToAudience
    BY EmptyRange DEF Init, OnlyToAudience
<1> QED BY <1>1, <1>2, <1>3, <1>4, <1>5, <1>6, <1>7, <1>8 DEF SwitchInv

-----------------------------------------------------------------------------
(* Types.                                                                  *)

LEMMA EmittedType ==
    ASSUME SwitchInv, NEW e \in DOMAIN emitted
    PROVE  emitted[e].topic \in Topics /\ emitted[e].registered \in SUBSET Conns
PROOF
<1> DEFINE R == [topic : Topics, registered : SUBSET Conns]
<1>1. emitted \in Seq(R)
    BY DEF SwitchInv, TypeOK
<1> HIDE DEF R
<1>2. emitted[e] \in R
    BY <1>1, LenProperties, ElementOfSeq
<1> QED BY <1>2 DEF R

(* The switch's queue holds the events after the routed ones. *)
LEMMA QueueFacts ==
    ASSUME TypeOK, EventsInOrder
    PROVE  /\ Len(routed) \in Nat /\ Len(new_event) \in Nat /\ Len(emitted) \in Nat
           /\ DOMAIN routed = 1..Len(routed) /\ DOMAIN emitted = 1..Len(emitted)
           /\ DOMAIN new_event = 1..Len(new_event)
           /\ DOMAIN routed \subseteq DOMAIN emitted
           /\ \A e \in Range(new_event) : e \in DOMAIN emitted /\ e \notin DOMAIN routed
           /\ running => \A e \in DOMAIN emitted :
                           e \notin Range(new_event) => e \in DOMAIN routed
PROOF
<1>1. /\ Len(routed) \in Nat /\ Len(new_event) \in Nat /\ Len(emitted) \in Nat
      /\ DOMAIN routed = 1..Len(routed) /\ DOMAIN emitted = 1..Len(emitted)
      /\ DOMAIN new_event = 1..Len(new_event)
    BY LenProperties DEF TypeOK
<1>2. /\ \A i \in DOMAIN new_event : new_event[i] = Len(routed) + i
      /\ Len(routed) + Len(new_event) <= Len(emitted)
      /\ running => Len(routed) + Len(new_event) = Len(emitted)
    BY DEF EventsInOrder
<1>6. Len(routed) + Len(new_event) <= Len(emitted)
    BY <1>2
<1>3. DOMAIN routed \subseteq DOMAIN emitted
    BY <1>1, <1>6
<1>4. ASSUME NEW e \in Range(new_event) PROVE e \in DOMAIN emitted /\ e \notin DOMAIN routed
    <2>1. PICK i \in DOMAIN new_event : e = new_event[i]
        BY DEF Range
    <2>2. e = Len(routed) + i /\ i \in 1..Len(new_event)
        BY <1>1, <1>2, <2>1
    <2> QED BY <1>1, <1>6, <2>2
<1>5. ASSUME running, NEW e \in DOMAIN emitted, e \notin DOMAIN routed
      PROVE  e \in Range(new_event)
    <2>1. e - Len(routed) \in DOMAIN new_event /\ Len(routed) + (e - Len(routed)) = e
        BY <1>1, <1>2, <1>5
    <2>2. new_event[e - Len(routed)] = e
        BY <1>2, <2>1
    <2> QED BY <2>1, <2>2 DEF Range
<1> QED BY <1>1, <1>3, <1>4, <1>5

(* What a routed event does to the queues. *)
LEMMA RouteFacts ==
    ASSUME SwitchInv, RouteEvent
    PROVE  /\ Head(new_event) \in DOMAIN emitted /\ Head(new_event) \in EventIds
           /\ Head(new_event) \in Range(new_event)
           /\ Head(new_event) = Len(routed) + 1
           /\ emitted[Head(new_event)].topic \in Topics
           /\ events' \in [Conns -> Seq(EventIds)]
           /\ \A c \in Conns :
                events'[c] =
                  IF task[c] = "running" /\ Registered(c, emitted[Head(new_event)].topic)
                  THEN Append(events[c], Head(new_event)) ELSE events[c]
PROOF
<1> DEFINE e == Head(new_event)
           t == emitted[e].topic
<1>1. /\ new_event \in Seq(EventIds) /\ new_event # <<>> /\ running
      /\ events \in [Conns -> Seq(EventIds)]
      /\ emitted \in Seq([topic : Topics, registered : SUBSET Conns])
    BY DEF SwitchInv, TypeOK, RouteEvent
<1>2. e \in EventIds /\ e \in Range(new_event)
    BY <1>1, TailRange
<1>3. e \in DOMAIN emitted
    BY <1>2, QueueFacts DEF SwitchInv
<1>8. e = Len(routed) + 1
    BY <1>1, TailItems DEF SwitchInv, EventsInOrder
<1>4. t \in Topics
    BY <1>3, EmittedType
<1>5. events' = [c \in Conns |->
                   IF task[c] = "running" THEN events[c] \o Copies(c, t, e) ELSE events[c]]
    BY DEF RouteEvent
<1> HIDE DEF e, t
<1>6. ASSUME NEW c \in Conns
      PROVE  /\ events'[c] = IF task[c] = "running" /\ Registered(c, t)
                             THEN Append(events[c], e) ELSE events[c]
             /\ events'[c] \in Seq(EventIds)
    <2>1. events[c] \in Seq(EventIds)
        BY <1>1
    <2>2. CASE task[c] = "running"
        <3>1. events'[c] = IF Registered(c, t) THEN Append(events[c], e) ELSE events[c]
            <4>1. events'[c] = events[c] \o Copies(c, t, e)
                BY <1>5, <2>2
            <4>2. events[c] \o Copies(c, t, e)
                    = IF Registered(c, t) THEN Append(events[c], e) ELSE events[c]
                BY <1>1, <1>2, <1>4, <2>1, <2>2, OneCopy, Zenon
            <4> QED BY <4>1, <4>2
        <3> QED BY <1>2, <2>1, <2>2, <3>1, AppendProperties
    <2>3. CASE task[c] # "running"
        BY <1>5, <2>1, <2>3
    <2> QED BY <2>2, <2>3
<1>7. events' \in [Conns -> Seq(EventIds)]
    BY <1>5, <1>6
<1> QED BY <1>2, <1>3, <1>4, <1>6, <1>7, <1>8 DEF e, t

(* What a handled notification does to the queue and the subscriptions. *)
LEMMA HandleFacts ==
    ASSUME SwitchInv, NEW n, HandleSubscribe(n) \/ HandleUnsubscribe(n)
    PROVE  /\ running /\ ~event_first /\ event_first' = (new_event # <<>>)
           /\ notifications \in Seq(Notification) /\ notifications # <<>>
           /\ n = Head(notifications) /\ n \in Range(notifications)
           /\ n.op \in {"Subscribe", "Unsubscribe"} /\ n.topic \in Topics
           /\ n.id \in SubIds /\ n.conn \in Conns
           /\ notifications' = Tail(notifications)
           /\ notifications' \in Seq(Notification)
           /\ Range(notifications') \subseteq Range(notifications)
           /\ subscriptions' = [subscriptions EXCEPT ![n.topic] =
                IF n.op = "Subscribe" THEN @ \cup {[id |-> n.id, conn |-> n.conn]}
                                      ELSE {s \in @ : s.id # n.id}]
           /\ UNCHANGED <<client, task, proxied, local, forwarded, conn_event_first,
                          new_event, events, running, routed, emitted, ops, next_id>>
PROOF
<1> USE DEF SwitchInv
<1>1. TakeNotification(n)
    BY DEF HandleSubscribe, HandleUnsubscribe
<1>2. /\ running /\ ~event_first /\ event_first' = (new_event # <<>>)
      /\ notifications \in Seq(Notification) /\ notifications # <<>>
      /\ n = Head(notifications) /\ notifications' = Tail(notifications)
    BY <1>1 DEF TakeNotification, NoEventSeen, TypeOK
<1>3. UNCHANGED <<client, task, proxied, local, forwarded, conn_event_first, new_event,
                  events, running, routed, emitted, ops, next_id>>
    BY <1>1 DEF TakeNotification, connVars, boundVars
<1>4. /\ n \in Notification /\ n \in Range(notifications)
      /\ notifications' \in Seq(Notification)
      /\ Range(notifications') \subseteq Range(notifications)
    BY <1>2, TailRange
<1>5. /\ n.op \in {"Subscribe", "Unsubscribe"} /\ n.topic \in Topics
      /\ n.id \in SubIds /\ n.conn \in Conns
    BY <1>4 DEF Notification
<1>6. subscriptions' = [subscriptions EXCEPT ![n.topic] =
                IF n.op = "Subscribe" THEN @ \cup {[id |-> n.id, conn |-> n.conn]}
                                      ELSE {s \in @ : s.id # n.id}]
    <2>1. CASE HandleSubscribe(n)
        BY <2>1 DEF HandleSubscribe
    <2>2. CASE HandleUnsubscribe(n) /\ n.topic \in topics
        BY <2>2 DEF HandleUnsubscribe
    <2>3. CASE HandleUnsubscribe(n) /\ n.topic \notin topics
        <3>1. subscriptions[n.topic] = {} /\ subscriptions' = subscriptions
            BY <1>5, <2>3 DEF HandleUnsubscribe, TopicsHaveEntries
        <3>2. {s \in subscriptions[n.topic] : s.id # n.id} = subscriptions[n.topic]
            BY <3>1
        <3> QED BY <1>5, <2>3, <3>1, <3>2 DEF TypeOK, HandleUnsubscribe
    <2> QED BY <2>1, <2>2, <2>3
<1> QED BY <1>2, <1>3, <1>4, <1>5, <1>6

LEMMA ConnTypeOK ==
    ASSUME SwitchInv, NEW c \in Conns,
           HandlerOp(c) \/ ClientLeaves(c) \/ ForwardEvent(c) \/ ConnectionTaskEnds(c)
    PROVE  TypeOK'
PROOF
<1> USE DEF SwitchInv
<1>1. CASE HandlerOp(c)
    <2>1. PICK t \in Topics, op \in {"Subscribe", "Unsubscribe"} : Proxy(c, op, t)
        BY <1>1 DEF HandlerOp
    <2>2. proxied[c] \in Seq(Proxied) /\ [op |-> op, topic |-> t] \in Proxied
        BY DEF TypeOK, Proxied
    <2>3. Append(proxied[c], [op |-> op, topic |-> t]) \in Seq(Proxied)
        BY <2>2, AppendProperties
    <2>4. proxied' \in [Conns -> Seq(Proxied)] /\ ops' \in 0..MaxOps
        BY <2>1, <2>3, EventBoundsAssumption DEF Proxy, TypeOK
    <2> QED BY <2>1, <2>4 DEF Proxy, TypeOK, chanVars, switchVars
<1>2. CASE ClientLeaves(c)
    BY <1>2 DEF ClientLeaves, TypeOK, chanVars, switchVars, boundVars
<1>3. CASE ForwardEvent(c)
    <2>1. /\ Tail(events[c]) \in Seq(EventIds) /\ Head(events[c]) \in EventIds
          /\ forwarded[c] \in Seq(EventIds)
        BY <1>3, HeadTailProperties DEF ForwardEvent, TypeOK
    <2>2. Append(forwarded[c], Head(events[c])) \in Seq(EventIds)
        BY <2>1, AppendProperties
    <2>3. events' \in [Conns -> Seq(EventIds)] /\ forwarded' \in [Conns -> Seq(EventIds)]
        BY <1>3, <2>1, <2>2 DEF ForwardEvent, TypeOK
    <2>4. conn_event_first' \in [Conns -> BOOLEAN]
        BY <1>3 DEF ForwardEvent, TypeOK
    <2> QED BY <1>3, <2>3, <2>4 DEF ForwardEvent, TypeOK, switchVars, boundVars
<1>4. CASE ConnectionTaskEnds(c)
    <2>1. /\ proxied' \in [Conns -> Seq(Proxied)] /\ events' \in [Conns -> Seq(EventIds)]
          /\ local' \in [Conns -> [Topics -> SubIds \cup {NoSub}]]
          /\ task' \in [Conns -> {"running", "ended"}]
          /\ conn_event_first' \in [Conns -> BOOLEAN]
        BY <1>4, EmptySeq DEF ConnectionTaskEnds, TypeOK
    <2> QED BY <1>4, <2>1 DEF ConnectionTaskEnds, TypeOK, switchVars, boundVars
<1> QED BY <1>1, <1>2, <1>3, <1>4

LEMMA ProxyTypeOK ==
    ASSUME SwitchInv, NEW c \in Conns, ProxyStep(c)
    PROVE  TypeOK'
PROOF
<1> USE DEF SwitchInv
<1>1. PICK t \in Topics : ProxySubscribe(c, t) \/ ProxyUnsubscribe(c, t)
    BY DEF ProxyStep
<1>2. /\ proxied[c] # <<>> /\ proxied' = [proxied EXCEPT ![c] = Tail(@)]
      /\ UNCHANGED <<client, task, forwarded, new_event, events, switchVars, emitted, ops>>
    BY <1>1 DEF ProxySubscribe, ProxyUnsubscribe, TakeProxied
<1>3. proxied' \in [Conns -> Seq(Proxied)]
    <2>1. Tail(proxied[c]) \in Seq(Proxied)
        BY <1>2, HeadTailProperties DEF TypeOK
    <2> QED BY <1>2, <2>1 DEF TypeOK
<1>4. /\ local' \in [Conns -> [Topics -> SubIds \cup {NoSub}]]
      /\ notifications' \in Seq(Notification)
      /\ next_id' \in SubIds
    <2>1. CASE UNCHANGED <<local, next_id, notifications>>
        BY <2>1 DEF TypeOK
    <2>2. ASSUME NEW op \in {"Subscribe", "Unsubscribe"}, NEW i \in SubIds,
                 NEW new \in SubIds \cup {NoSub},
                 local' = [local EXCEPT ![c][t] = new],
                 notifications' = Append(notifications,
                   [op |-> op, topic |-> t, id |-> i, conn |-> c]),
                 next_id' \in {next_id, next_id + 1}
          PROVE  /\ local' \in [Conns -> [Topics -> SubIds \cup {NoSub}]]
                 /\ notifications' \in Seq(Notification)
                 /\ next_id' \in SubIds
        <3>1. [op |-> op, topic |-> t, id |-> i, conn |-> c] \in Notification
            BY DEF Notification
        <3>2. notifications' \in Seq(Notification)
            BY <2>2, <3>1, AppendProperties DEF TypeOK
        <3>3. local' \in [Conns -> [Topics -> SubIds \cup {NoSub}]]
            BY <2>2 DEF TypeOK
        <3>4. next_id' \in SubIds
            BY <2>2 DEF TypeOK, SubIds
        <3> QED BY <3>2, <3>3, <3>4
    <2>3. CASE ProxySubscribe(c, t)
        BY <2>1, <2>2, <2>3 DEF ProxySubscribe, FreshId, TypeOK
    <2>4. CASE ProxyUnsubscribe(c, t)
        <3>1. CASE local[c][t] # NoSub /\ running
            <4>1. local[c][t] \in SubIds
                BY <3>1 DEF TypeOK
            <4> QED BY <2>2, <2>4, <3>1, <4>1 DEF ProxyUnsubscribe
        <3>2. CASE ~(local[c][t] # NoSub /\ running)
            BY <2>1, <2>4, <3>2 DEF ProxyUnsubscribe
        <3> QED BY <3>1, <3>2
    <2> QED BY <1>1, <2>3, <2>4
<1>5. conn_event_first' \in [Conns -> BOOLEAN]
    BY <1>1 DEF ProxySubscribe, ProxyUnsubscribe, TakeProxied, TypeOK
<1> QED BY <1>2, <1>3, <1>4, <1>5 DEF TypeOK, switchVars

LEMMA SwitchTypeOK ==
    ASSUME SwitchInv,
           \/ \E t \in Topics : Emit(t)
           \/ RouteEvent \/ NotificationStep \/ SwitchTaskEnds
    PROVE  TypeOK'
PROOF
<1> USE DEF SwitchInv
<1>1. ASSUME NEW t \in Topics, Emit(t) PROVE TypeOK'
    <2>1. Len(emitted) \in Nat /\ Len(emitted) + 1 \in EventIds
        BY <1>1, LenProperties, EventBoundsAssumption DEF Emit, TypeOK, EventIds
    <2>2. emitted' \in Seq([topic : Topics, registered : SUBSET Conns])
        BY <1>1, AppendProperties DEF Emit, TypeOK
    <2>3. new_event' \in Seq(EventIds)
        BY <1>1, <2>1, AppendProperties DEF Emit, TypeOK
    <2> QED BY <1>1, <2>2, <2>3 DEF Emit, TypeOK, connVars, switchVars
<1>2. CASE RouteEvent
    <2>1. events' \in [Conns -> Seq(EventIds)]
        BY <1>2, RouteFacts
    <2>2. new_event' \in Seq(EventIds)
        BY <1>2, HeadTailProperties DEF RouteEvent, TypeOK
    <2>3. subscriptions' \in [Topics -> SUBSET Subscription]
        BY <1>2, RouteFacts DEF RouteEvent, TypeOK
    <2>4. routed' \in Seq(SUBSET Conns)
        <3>1. PICK A \in SUBSET Conns : routed' = Append(routed, A)
            BY <1>2 DEF RouteEvent
        <3> QED BY <3>1, AppendProperties DEF TypeOK
    <2>5. event_first' \in BOOLEAN
        BY <1>2 DEF RouteEvent
    <2> QED BY <1>2, <2>1, <2>2, <2>3, <2>4, <2>5 DEF RouteEvent, TypeOK, connVars, boundVars
<1>3. ASSUME NEW n \in Range(notifications), HandleSubscribe(n) \/ HandleUnsubscribe(n)
      PROVE  TypeOK'
    <2>1. /\ n.topic \in Topics /\ [id |-> n.id, conn |-> n.conn] \in Subscription
          /\ notifications' \in Seq(Notification)
          /\ UNCHANGED <<client, task, proxied, local, forwarded, conn_event_first, new_event,
                         events, running, routed, emitted, ops, next_id>>
          /\ event_first' \in BOOLEAN
        BY <1>3, HandleFacts DEF Subscription
    <2>2. subscriptions' \in [Topics -> SUBSET Subscription]
        <3> DEFINE new == IF n.op = "Subscribe"
                          THEN subscriptions[n.topic] \cup {[id |-> n.id, conn |-> n.conn]}
                          ELSE {s \in subscriptions[n.topic] : s.id # n.id}
        <3>1. subscriptions' = [subscriptions EXCEPT ![n.topic] = new]
            BY <1>3, HandleFacts
        <3>2. new \in SUBSET Subscription
            BY <2>1 DEF TypeOK
        <3> HIDE DEF new
        <3> QED BY <3>1, <3>2 DEF TypeOK
    <2>3. topics' \in SUBSET Topics
        BY <1>3, <2>1 DEF HandleSubscribe, HandleUnsubscribe, TypeOK
    <2>4. topic_notif' \in Seq([kind : {"Created", "Removed"}, topic : Topics])
        <3>1. \A k \in {"Created", "Removed"} :
                Notify(k, n.topic) \in Seq([kind : {"Created", "Removed"}, topic : Topics])
            BY <2>1, AppendProperties DEF Notify, TypeOK
        <3> QED BY <1>3, <3>1 DEF HandleSubscribe, HandleUnsubscribe, TypeOK
    <2> QED BY <2>1, <2>2, <2>3, <2>4 DEF TypeOK
<1>4. CASE SwitchTaskEnds
    <2>1. /\ notifications' \in Seq(Notification) /\ new_event' \in Seq(EventIds)
          /\ subscriptions' \in [Topics -> SUBSET Subscription]
          /\ running' \in BOOLEAN /\ event_first' \in BOOLEAN
        BY <1>4, EmptySeq DEF SwitchTaskEnds
    <2> QED BY <1>4, <2>1 DEF SwitchTaskEnds, TypeOK, connVars, boundVars
<1> QED BY <1>1, <1>2, <1>3, <1>4 DEF NotificationStep

-----------------------------------------------------------------------------
(* The events' way: from emit() through the switch to the clients.         *)

EventsInv ==
    EventsInOrder /\ AudienceKept /\ AudienceWithinOne /\ OnlyToAudience /\ NoneLeftOut

LEMMA ConcatRange ==
    ASSUME NEW S, NEW a \in Seq(S), NEW b \in Seq(S)
    PROVE  Range(a \o b) = Range(a) \cup Range(b)
PROOF
<1>1. /\ a \o b \in Seq(S) /\ Len(a \o b) = Len(a) + Len(b)
      /\ \A i \in 1..(Len(a) + Len(b)) :
           (a \o b)[i] = IF i <= Len(a) THEN a[i] ELSE b[i - Len(a)]
      /\ DOMAIN a = 1..Len(a) /\ DOMAIN b = 1..Len(b) /\ Len(a) \in Nat /\ Len(b) \in Nat
    BY ConcatProperties, LenProperties
<1>2. DOMAIN (a \o b) = 1..(Len(a) + Len(b))
    BY <1>1, LenProperties
<1>3. \A i \in DOMAIN (a \o b) :
        \/ i \in DOMAIN a /\ (a \o b)[i] = a[i]
        \/ i - Len(a) \in DOMAIN b /\ (a \o b)[i] = b[i - Len(a)]
    BY <1>1, <1>2
<1>4. \A i \in DOMAIN a : i \in DOMAIN (a \o b) /\ (a \o b)[i] = a[i]
    BY <1>1, <1>2
<1>5. \A i \in DOMAIN b : i + Len(a) \in DOMAIN (a \o b) /\ (a \o b)[i + Len(a)] = b[i]
    <2> SUFFICES ASSUME NEW i \in DOMAIN b
                 PROVE  i + Len(a) \in DOMAIN (a \o b) /\ (a \o b)[i + Len(a)] = b[i]
        OBVIOUS
    <2>1. /\ i + Len(a) \in 1..(Len(a) + Len(b)) /\ ~(i + Len(a) <= Len(a))
          /\ (i + Len(a)) - Len(a) = i
        BY <1>1
    <2> QED BY <1>1, <1>2, <2>1
<1>6. Range(a \o b) \subseteq Range(a) \cup Range(b)
    <2> SUFFICES ASSUME NEW i \in DOMAIN (a \o b)
                 PROVE  (a \o b)[i] \in Range(a) \cup Range(b)
        BY DEF Range
    <2> QED BY <1>3 DEF Range
<1>7. Range(a) \subseteq Range(a \o b)
    BY <1>4 DEF Range
<1>8. Range(b) \subseteq Range(a \o b)
    BY <1>5 DEF Range
<1> QED BY <1>6, <1>7, <1>8

LEMMA ReceivedRange ==
    ASSUME SwitchInv, NEW c \in Conns
    PROVE  Range(Received(c)) = Range(forwarded[c]) \cup Range(events[c])
PROOF
<1>1. forwarded[c] \in Seq(EventIds) /\ events[c] \in Seq(EventIds)
    BY DEF SwitchInv, TypeOK
<1> QED BY <1>1, ConcatRange DEF Received

LEMMA EventsKept ==
    ASSUME SwitchInv, UNCHANGED <<client, task, forwarded, new_event, events, running,
                                  subscriptions, emitted, event_first, routed>>
    PROVE  EventsInv'
PROOF BY DEF SwitchInv, EventsInv, EventsInOrder, AudienceKept, AudienceWithinOne, Late,
             OnlyToAudience, NoneLeftOut, Registered, Overtook, Running, Attending

LEMMA EmitAppends ==
    ASSUME TypeOK, NEW t \in Topics, Emit(t)
    PROVE  LET r == [topic |-> t, registered |-> {c \in Conns : Registered(c, t)}]
           IN  /\ Len(emitted) \in Nat /\ DOMAIN emitted = 1..Len(emitted)
               /\ DOMAIN emitted' = 1..(Len(emitted) + 1)
               /\ \A e \in DOMAIN emitted : emitted'[e] = emitted[e]
               /\ emitted'[Len(emitted) + 1] = r
PROOF
<1> DEFINE r == [topic |-> t, registered |-> {c \in Conns : Registered(c, t)}]
<1>1. /\ emitted \in Seq([topic : Topics, registered : SUBSET Conns])
      /\ r \in [topic : Topics, registered : SUBSET Conns]
      /\ emitted' = Append(emitted, r)
    BY DEF TypeOK, Emit
<1> QED BY <1>1, AppendProperties, LenProperties

LEMMA EmitEvents ==
    ASSUME SwitchInv, NEW t \in Topics, Emit(t)
    PROVE  EventsInv'
PROOF
<1> USE DEF SwitchInv
<1> DEFINE new == Len(emitted) + 1
           r == [topic |-> t, registered |-> {c \in Conns : Registered(c, t)}]
<1>1. /\ new_event' = IF running THEN Append(new_event, new) ELSE new_event
      /\ UNCHANGED <<client, task, forwarded, events, running, subscriptions, event_first,
                     routed>>
    BY DEF Emit, connVars, switchVars
<1>2. /\ Len(emitted) \in Nat /\ DOMAIN emitted = 1..Len(emitted) /\ DOMAIN emitted' = 1..new
      /\ \A e \in DOMAIN emitted : emitted'[e] = emitted[e]
      /\ emitted'[new] = r
    BY EmitAppends
<1>3. /\ Len(routed) \in Nat /\ Len(new_event) \in Nat
      /\ DOMAIN new_event = 1..Len(new_event) /\ DOMAIN routed \subseteq DOMAIN emitted
      /\ \A e \in Range(new_event) : e \in DOMAIN emitted
    BY QueueFacts
<1>4. new \in EventIds
    BY <1>2, EventBoundsAssumption DEF Emit, EventIds
<1>5. new_event \in Seq(EventIds)
    BY DEF TypeOK
<1>6. Len(emitted') = new
    BY AppendProperties DEF Emit, TypeOK
<1>7. /\ Range(Append(new_event, new)) = Range(new_event) \cup {new}
      /\ Len(Append(new_event, new)) = Len(new_event) + 1
      /\ DOMAIN Append(new_event, new) = 1..(Len(new_event) + 1)
      /\ \A i \in 1..Len(new_event) : Append(new_event, new)[i] = new_event[i]
      /\ Append(new_event, new)[Len(new_event) + 1] = new
    BY <1>4, <1>5, AppendRange, AppendProperties, LenProperties
<1>8. EventsInOrder'
    <2>1. /\ \A i \in DOMAIN new_event : new_event[i] = Len(routed) + i
          /\ Len(routed) + Len(new_event) <= Len(emitted)
          /\ running => Len(routed) + Len(new_event) = Len(emitted)
        BY DEF EventsInOrder
    <2>2. CASE running
        <3>1. new = Len(routed) + (Len(new_event) + 1)
            BY <1>2, <1>3, <2>1, <2>2
        <3>2. \A i \in 1..(Len(new_event) + 1) : i \in 1..Len(new_event) \/ i = Len(new_event) + 1
            BY <1>3
        <3>3. \A i \in DOMAIN new_event' : new_event'[i] = Len(routed) + i
            BY <1>1, <1>3, <1>7, <2>1, <2>2, <3>1, <3>2
        <3> QED BY <1>1, <1>6, <1>7, <2>2, <3>1, <3>3 DEF EventsInOrder
    <2>3. CASE ~running
        <3>0. Len(routed) + Len(new_event) <= Len(emitted)
            BY <2>1
        <3>1. Len(routed) + Len(new_event) <= new
            BY <1>2, <1>3, <3>0
        <3> QED BY <1>1, <1>6, <2>1, <2>3, <3>1 DEF EventsInOrder
    <2> QED BY <2>2, <2>3
<1> HIDE DEF new, r
<1>9. AudienceKept'
    <2>1. Running' = Running
        BY <1>1 DEF Running
    <2>2. ASSUME NEW e \in Range(new_event), NEW c \in Running PROVE Late(e, c)' <=> Late(e, c)
        BY <1>1, <1>2, <1>3 DEF Late, Overtook, Registered
    <2>6. PICK k : k = new
        OBVIOUS
    <2>3. ASSUME NEW c \in Running PROVE ~Late(k, c)'
        <3>1. c \in Conns
            BY DEF Running
        <3>2. r.topic = t /\ (c \in r.registered <=> Registered(c, t))
            BY <3>1 DEF r
        <3>3. emitted'[k] = r
            BY <1>2, <2>6
        <3>4. Registered(c, emitted[k].topic)' <=> Registered(c, t)
            BY <1>1, <3>2, <3>3 DEF Registered
        <3> QED BY <3>2, <3>3, <3>4 DEF Late, Overtook
    <2>4. \A e \in Range(new_event') : e \in Range(new_event) \/ e = k
        BY <1>1, <1>7, <2>6
    <2>5. event_first' = event_first
        BY <1>1
    <2> QED BY <2>1, <2>2, <2>3, <2>4, <2>5, Zenon DEF AudienceKept
<1>10. AudienceWithinOne'
    BY <1>1, <1>2, <1>3 DEF AudienceWithinOne, Overtook, Running
<1>11. OnlyToAudience' /\ NoneLeftOut'
    BY <1>1 DEF OnlyToAudience, NoneLeftOut, Attending, Running
<1> QED BY <1>8, <1>9, <1>10, <1>11 DEF EventsInv

(* A client leaves, or a connection's task or the switch's task ends. *)
LEMMA EndsEvents ==
    ASSUME SwitchInv,
           (\E c \in Conns : ClientLeaves(c) \/ ConnectionTaskEnds(c)) \/ SwitchTaskEnds
    PROVE  EventsInv'
PROOF
<1> USE DEF SwitchInv
<1>1. /\ UNCHANGED <<forwarded, emitted, routed>>
      /\ \/ UNCHANGED <<new_event, subscriptions, running, event_first>>
         \/ new_event' = <<>> /\ ~running'
    BY DEF ClientLeaves, ConnectionTaskEnds, SwitchTaskEnds, connVars, chanVars, switchVars,
           boundVars
<1>2. ASSUME NEW c \in Conns
      PROVE  /\ task'[c] = "running" => task[c] = "running" /\ events'[c] = events[c]
             /\ client'[c] = "there" => client[c] = "there"
             /\ Range(events'[c]) \subseteq Range(events[c]) /\ Increasing(events'[c])
    <2>1. Increasing(<<>>) /\ Range(<<>>) = {}
        BY EmptyRange DEF Increasing
    <2>2. ASSUME NEW d \in Conns, ClientLeaves(d)
          PROVE  /\ UNCHANGED <<task, events>>
                 /\ client' = [client EXCEPT ![d] = "gone"]
        BY <2>2 DEF ClientLeaves, chanVars
    <2>3. ASSUME NEW d \in Conns, ConnectionTaskEnds(d)
          PROVE  /\ UNCHANGED client /\ task' = [task EXCEPT ![d] = "ended"]
                 /\ events' = [events EXCEPT ![d] = <<>>]
        BY <2>3 DEF ConnectionTaskEnds
    <2>4. ASSUME SwitchTaskEnds PROVE UNCHANGED <<client, task, events>>
        BY <2>4 DEF SwitchTaskEnds, connVars
    <2>5. Increasing(events[c])
        BY DEF EventsInOrder
    <2>6. CASE \E d \in Conns : ClientLeaves(d)
        BY <2>2, <2>5, <2>6 DEF TypeOK
    <2>7. CASE \E d \in Conns : ConnectionTaskEnds(d)
        <3>1. PICK d \in Conns : ConnectionTaskEnds(d)
            BY <2>7
        <3>2. CASE c = d
            BY <2>1, <2>3, <3>1, <3>2 DEF TypeOK
        <3>3. CASE c # d
            BY <2>3, <2>5, <3>1, <3>3 DEF TypeOK
        <3> QED BY <3>2, <3>3
    <2> QED BY <2>4, <2>5, <2>6, <2>7
<1>3. (Running' \subseteq Running) /\ (Attending' \subseteq Attending)
    BY <1>2 DEF Running, Attending
<1>4. EventsInOrder'
    <2>1. ASSUME NEW c \in Conns
          PROVE  /\ (Increasing(forwarded[c]) /\ Increasing(events[c]))'
                 /\ Before(Range(forwarded[c]), Range(events[c]))'
        BY <1>1, <1>2 DEF EventsInOrder, Before
    <2>2. CASE UNCHANGED <<new_event, running>>
        BY <1>1, <2>1, <2>2 DEF EventsInOrder
    <2>3. CASE new_event' = <<>> /\ ~running'
        <3>1. Len(<<>>) = 0 /\ DOMAIN <<>> = {}
            OBVIOUS
        <3>2. Len(routed) + 0 <= Len(emitted)
            BY QueueFacts DEF EventsInOrder
        <3> QED BY <1>1, <2>1, <2>3, <3>1, <3>2 DEF EventsInOrder
    <2> QED BY <1>1, <2>2, <2>3
<1>5. AudienceKept'
    <2>1. CASE UNCHANGED <<new_event, subscriptions, event_first>>
        BY <1>1, <1>3, <2>1 DEF AudienceKept, Late, Overtook, Registered
    <2>2. CASE new_event' = <<>>
        BY <2>2, EmptyRange DEF AudienceKept
    <2> QED BY <1>1, <2>1, <2>2
<1>6. AudienceWithinOne'
    BY <1>1, <1>3 DEF AudienceWithinOne, Overtook
<1>7. OnlyToAudience'
    BY <1>1, <1>2 DEF OnlyToAudience
<1>8. NoneLeftOut'
    <2>1. \A c \in Attending' : c \in Conns /\ events'[c] = events[c]
        BY <1>2 DEF Attending, Running
    <2> QED BY <1>1, <1>3, <2>1 DEF NoneLeftOut
<1> QED BY <1>4, <1>5, <1>6, <1>7, <1>8 DEF EventsInv

LEMMA ForwardEvents ==
    ASSUME SwitchInv, NEW c \in Conns, ForwardEvent(c)
    PROVE  EventsInv'
PROOF
<1> USE DEF SwitchInv
<1> DEFINE e == Head(events[c])
<1>1. /\ task[c] = "running" /\ events[c] # <<>>
      /\ events' = [events EXCEPT ![c] = Tail(@)]
      /\ forwarded' = IF client[c] = "there" THEN [forwarded EXCEPT ![c] = Append(@, e)]
                      ELSE forwarded
      /\ UNCHANGED <<client, task, new_event, running, subscriptions, emitted, event_first,
                     routed>>
    BY DEF ForwardEvent, switchVars, boundVars
<1>2. /\ events \in [Conns -> Seq(EventIds)] /\ forwarded \in [Conns -> Seq(EventIds)]
      /\ events[c] \in Seq(EventIds) /\ forwarded[c] \in Seq(EventIds)
    BY DEF TypeOK
<1>3. /\ e \in EventIds /\ e \in Range(events[c])
      /\ Increasing(Tail(events[c])) /\ Before({e}, Range(Tail(events[c])))
      /\ Range(events[c]) = Range(Tail(events[c])) \cup {e}
    BY <1>1, <1>2, TailRange, IncreasingTail DEF EventsInOrder
<1> HIDE DEF e
<1>4. /\ Increasing(Append(forwarded[c], e))
      /\ Range(Append(forwarded[c], e)) = Range(forwarded[c]) \cup {e}
    <2>1. Increasing(forwarded[c]) /\ Before(Range(forwarded[c]), {e})
        BY <1>3 DEF EventsInOrder, Before
    <2> QED BY <1>2, <1>3, <2>1, IncreasingAppend, AppendRange
<1>5. ASSUME NEW d \in Conns
      PROVE  /\ Range(forwarded'[d]) \cup Range(events'[d])
                  \subseteq Range(forwarded[d]) \cup Range(events[d])
             /\ client[d] = "there" => Range(forwarded[d]) \cup Range(events[d])
                  = Range(forwarded'[d]) \cup Range(events'[d])
             /\ Increasing(forwarded'[d]) /\ Increasing(events'[d])
             /\ Before(Range(forwarded'[d]), Range(events'[d]))
    <2>1. CASE d # c
        <3>1. forwarded'[d] = forwarded[d] /\ events'[d] = events[d]
            BY <1>1, <1>2, <2>1
        <3> QED BY <3>1 DEF EventsInOrder
    <2>2. CASE d = c /\ client[c] = "there"
        <3>1. forwarded'[d] = Append(forwarded[c], e) /\ events'[d] = Tail(events[c])
            BY <1>1, <1>2, <2>2
        <3>2. Before(Range(forwarded[c]), Range(Tail(events[c])))
            BY <1>3 DEF EventsInOrder, Before
        <3>3. Before(Range(forwarded[c]) \cup {e}, Range(Tail(events[c])))
            BY <1>3, <3>2 DEF Before
        <3> QED BY <1>3, <1>4, <2>2, <3>1, <3>3
    <2>3. CASE d = c /\ client[c] # "there"
        <3>1. forwarded'[d] = forwarded[c] /\ events'[d] = Tail(events[c])
            BY <1>1, <1>2, <2>3
        <3>2. Increasing(forwarded[c]) /\ Before(Range(forwarded[c]), Range(Tail(events[c])))
            BY <1>3 DEF EventsInOrder, Before
        <3> QED BY <1>3, <2>3, <3>1, <3>2
    <2> QED BY <2>1, <2>2, <2>3
<1>6. EventsInOrder'
    BY <1>1, <1>5 DEF EventsInOrder
<1>7. AudienceKept' /\ AudienceWithinOne'
    BY <1>1 DEF AudienceKept, AudienceWithinOne, Late, Overtook, Registered, Running
<1>8. OnlyToAudience'
    BY <1>1, <1>5 DEF OnlyToAudience
<1>9. NoneLeftOut'
    <2>1. Attending' = Attending /\ \A d \in Attending : d \in Conns /\ client[d] = "there"
        BY <1>1 DEF Attending, Running
    <2> QED BY <1>1, <1>5, <2>1 DEF NoneLeftOut
<1> QED BY <1>6, <1>7, <1>8, <1>9 DEF EventsInv

(* The event is routed: it moves from the switch's queue into those of the   *)
(* running connections that are registered, behind all earlier ones. *)
LEMMA RouteEvents ==
    ASSUME SwitchInv, RouteEvent
    PROVE  EventsInv'
PROOF
<1> USE DEF SwitchInv
<1> DEFINE e == Head(new_event)
           t == emitted[e].topic
           A == {c \in Conns : task[c] = "running" /\ Registered(c, t)}
<1>1. /\ running /\ new_event # <<>> /\ new_event' = Tail(new_event)
      /\ subscriptions' = [subscriptions EXCEPT ![t] = {s \in @ : task[s.conn] = "running"}]
      /\ routed' = Append(routed, A) /\ event_first' = (new_event' # <<>>)
      /\ UNCHANGED <<client, task, forwarded, running, emitted>>
    BY DEF RouteEvent, connVars, boundVars
<1>2. /\ e \in DOMAIN emitted /\ e \in EventIds /\ t \in Topics /\ e \in Range(new_event)
      /\ e = Len(routed) + 1
      /\ \A c \in Conns : events'[c] = IF task[c] = "running" /\ Registered(c, t)
                                        THEN Append(events[c], e) ELSE events[c]
    BY RouteFacts
<1>3. /\ new_event \in Seq(EventIds) /\ \A c \in Conns : events[c] \in Seq(EventIds)
      /\ routed \in Seq(SUBSET Conns) /\ A \in SUBSET Conns
    BY DEF TypeOK
<1>4. /\ Len(routed) \in Nat /\ DOMAIN routed = 1..Len(routed)
      /\ Len(routed') = Len(routed) + 1 /\ DOMAIN routed' = 1..(Len(routed) + 1)
      /\ \A i \in 1..Len(routed) : routed'[i] = routed[i]
      /\ routed'[e] = A
    BY <1>1, <1>2, <1>3, AppendProperties, LenProperties
<1>5. /\ Tail(new_event) \in Seq(EventIds) /\ Len(Tail(new_event)) = Len(new_event) - 1
      /\ Len(new_event) \in Nat /\ Len(new_event) >= 1
      /\ DOMAIN new_event = 1..Len(new_event)
      /\ DOMAIN Tail(new_event) = 1..(Len(new_event) - 1)
      /\ \A i \in 1..(Len(new_event) - 1) : Tail(new_event)[i] = new_event[i + 1]
      /\ Range(Tail(new_event)) \subseteq Range(new_event)
    BY <1>1, <1>3, TailItems, TailRange
<1>6. /\ \A i \in DOMAIN routed' : i \in DOMAIN routed \/ i = e
      /\ e \notin DOMAIN routed /\ e \in DOMAIN routed'
      /\ \A i \in DOMAIN routed : i \in DOMAIN routed' /\ routed'[i] = routed[i]
    BY <1>2, <1>4
<1> HIDE DEF e, A
<1>7. ASSUME NEW c \in Conns
      PROVE  /\ \A x \in Range(forwarded[c]) \cup Range(events[c]) :
                  x \in DOMAIN routed /\ c \in routed[x]
             /\ Before(Range(forwarded[c]) \cup Range(events[c]), {e})
    <2>1. \A x \in Range(forwarded[c]) \cup Range(events[c]) :
            x \in DOMAIN routed /\ c \in routed[x]
        BY DEF OnlyToAudience
    <2>2. \A x \in DOMAIN routed : x < e
        BY <1>2, <1>4
    <2> QED BY <2>1, <2>2 DEF Before
<1>8. ASSUME NEW c \in Conns
      PROVE  /\ Increasing(events'[c])
             /\ Range(events'[c]) = IF c \in A THEN Range(events[c]) \cup {e}
                                    ELSE Range(events[c])
    <2>1. Increasing(events[c]) /\ Before(Range(events[c]), {e})
        BY <1>7 DEF EventsInOrder, Before
    <2>2. /\ Increasing(Append(events[c], e))
          /\ Range(Append(events[c], e)) = Range(events[c]) \cup {e}
        BY <1>2, <1>3, <2>1, IncreasingAppend, AppendRange
    <2>3. CASE task[c] = "running" /\ Registered(c, t)
        BY <1>2, <2>2, <2>3 DEF A
    <2>4. CASE ~(task[c] = "running" /\ Registered(c, t))
        BY <1>2, <2>1, <2>4 DEF A
    <2> QED BY <2>3, <2>4
<1>9. EventsInOrder'
    <2>1. ASSUME NEW c \in Conns
          PROVE  /\ (Increasing(forwarded[c]) /\ Increasing(events[c]))'
                 /\ Before(Range(forwarded[c]), Range(events[c]))'
        <3>1. Increasing(forwarded[c]) /\ Before(Range(forwarded[c]), Range(events[c]))
            BY DEF EventsInOrder
        <3>2. Before(Range(forwarded[c]), Range(events[c]) \cup {e})
            BY <1>7, <3>1 DEF Before
        <3> QED BY <1>1, <1>8, <3>1, <3>2 DEF Before
    <2>2. /\ \A i \in DOMAIN new_event : new_event[i] = Len(routed) + i
          /\ Len(routed) + Len(new_event) = Len(emitted)
        BY <1>1 DEF EventsInOrder
    <2>3. \A i \in DOMAIN Tail(new_event) : Tail(new_event)[i] = (Len(routed) + 1) + i
        <3> SUFFICES ASSUME NEW i \in 1..(Len(new_event) - 1)
                     PROVE  Tail(new_event)[i] = (Len(routed) + 1) + i
            BY <1>5
        <3>1. i + 1 \in DOMAIN new_event /\ Tail(new_event)[i] = new_event[i + 1]
            BY <1>5
        <3> QED BY <1>4, <2>2, <3>1
    <2>4. (Len(routed) + 1) + (Len(new_event) - 1) = Len(emitted)
        BY <1>4, <1>5, <2>2
    <2>5. Len(emitted) \in Nat
        BY QueueFacts
    <2> QED BY <1>1, <1>4, <1>5, <2>1, <2>3, <2>4, <2>5 DEF EventsInOrder
<1>10. AudienceKept'
    <2>1. \A c \in Running : \A u \in Topics : Registered(c, u)' <=> Registered(c, u)
        BY <1>1, <1>2 DEF Registered, TypeOK, Running
    <2>2. Running' = Running
        BY <1>1 DEF Running
    <2>3. ASSUME NEW x \in Range(Tail(new_event)), NEW c \in Running
          PROVE  Late(x, c)' <=> Late(x, c)
        <3>1. PICK u \in Topics : u = emitted[x].topic
            BY <1>5, EmittedType, QueueFacts
        <3>2. Registered(c, emitted[x].topic)' <=> Registered(c, u)'
            BY <1>1, <3>1 DEF Registered
        <3> QED BY <1>1, <2>1, <3>1, <3>2 DEF Late, Overtook
    <2>4. ASSUME NEW x \in Range(Tail(new_event)) PROVE event_first'
        BY <1>1, EmptyRange
    <2>5. new_event' = Tail(new_event)
        BY <1>1
    <2> QED BY <1>5, <2>2, <2>3, <2>4, <2>5, Zenon DEF AudienceKept
<1>11. AudienceWithinOne'
    <2>1. Running' = Running /\ emitted' = emitted
        BY <1>1 DEF Running
    <2> SUFFICES ASSUME NEW x \in DOMAIN routed', NEW c \in Running, NEW d \in Running,
                        Overtook(x, c, c \in routed'[x]), Overtook(x, d, d \in routed'[x])
                 PROVE  c = d
        BY <2>1 DEF AudienceWithinOne, Overtook
    <2>2. CASE x \in DOMAIN routed
        BY <1>6, <2>2 DEF AudienceWithinOne
    <2>3. CASE x = e
        <3>1. (c \in A <=> Registered(c, t)) /\ (d \in A <=> Registered(d, t))
            BY DEF A, Running
        <3>2. Late(e, c) /\ Late(e, d)
            BY <1>4, <2>3, <3>1 DEF Late, Overtook
        <3> QED BY <1>2, <3>2, Zenon DEF AudienceKept
    <2> QED BY <1>6, <2>2, <2>3
<1>12. OnlyToAudience'
    <2> SUFFICES ASSUME NEW c \in Conns, NEW x \in Range(forwarded[c]) \cup Range(events'[c])
                 PROVE  x \in DOMAIN routed' /\ c \in routed'[x]
        BY <1>1 DEF OnlyToAudience
    <2>1. CASE x \in Range(forwarded[c]) \cup Range(events[c])
        BY <1>6, <1>7, <2>1
    <2>2. CASE x = e /\ c \in A
        BY <1>4, <1>6, <2>2
    <2>3. x \in Range(events'[c]) => x \in Range(events[c]) \/ (x = e /\ c \in A)
        BY <1>8
    <2> QED BY <2>1, <2>2, <2>3
<1>13. NoneLeftOut'
    <2> SUFFICES ASSUME NEW c \in Attending, NEW x \in DOMAIN routed', c \in routed'[x]
                 PROVE  x \in Range(forwarded[c]) \cup Range(events'[c])
        BY <1>1 DEF NoneLeftOut, Attending, Running
    <2>1. c \in Conns
        BY DEF Attending, Running
    <2>2. CASE x \in DOMAIN routed
        BY <1>4, <1>8, <2>1, <2>2 DEF NoneLeftOut
    <2>3. CASE x = e
        BY <1>4, <1>8, <2>1, <2>3
    <2> QED BY <1>6, <2>2, <2>3
<1> QED BY <1>9, <1>10, <1>11, <1>12, <1>13 DEF EventsInv

-----------------------------------------------------------------------------
(* First, last and adjacent positions, when one is added at the end and when *)
(* the queue moves up. *)

AddedLast(l, P, Q) ==
    l \in Nat /\ P \in SUBSET Nat /\ (\A k \in P : k < l) /\ Q = P \cup {l}

MovedUp(P, Q) ==
    /\ P \in SUBSET (Nat \ {0}) /\ Q \in SUBSET (Nat \ {0})
    /\ \A i \in Nat \ {0} : i \in Q <=> i + 1 \in P

LEMMA PositionAdded ==
    ASSUME NEW l, NEW P, NEW Q, AddedLast(l, P, Q)
    PROVE  /\ \A i \in Q : IsLast(i, Q) <=> i = l
           /\ \A i \in P : IsFirst(i, Q) => IsFirst(i, P)
           /\ IsFirst(l, Q) => P = {}
           /\ \A i, j \in Q : Adjacent(i, j, Q) =>
                i \in P /\ (j \in P => Adjacent(i, j, P)) /\ (j = l => IsLast(i, P))
PROOF
<1> USE DEF AddedLast
<1>1. \A i \in P : i \in Nat /\ i < l
    OBVIOUS
<1>2. \A i \in Q : IsLast(i, Q) <=> i = l
    BY <1>1 DEF IsLast
<1>3. \A i \in P : IsFirst(i, Q) => IsFirst(i, P)
    BY DEF IsFirst
<1>4. IsFirst(l, Q) => P = {}
    BY <1>1 DEF IsFirst
<1>5. ASSUME NEW i \in Q, NEW j \in Q, Adjacent(i, j, Q)
      PROVE  i \in P /\ (j \in P => Adjacent(i, j, P)) /\ (j = l => IsLast(i, P))
    <2>1. i < j /\ \A k \in P : k <= i \/ j <= k
        BY <1>5 DEF Adjacent
    <2>2. i \in P
        BY <1>1, <2>1
    <2>3. j = l => IsLast(i, P)
        BY <1>1, <2>1, <2>2 DEF IsLast
    <2> QED BY <2>1, <2>2, <2>3 DEF Adjacent
<1> QED BY <1>2, <1>3, <1>4, <1>5

LEMMA PositionsMoveUp ==
    ASSUME NEW P, NEW Q, MovedUp(P, Q)
    PROVE  /\ \A i \in Q : IsLast(i, Q) => IsLast(i + 1, P)
           /\ \A i, j \in Q : Adjacent(i, j, Q) => Adjacent(i + 1, j + 1, P)
           /\ (\E i \in P : IsLast(i, P)) /\ Q # {} => \E i \in Q : IsLast(i, Q)
           /\ 1 \notin P => (\A i \in Q : IsFirst(i, Q) => IsFirst(i + 1, P)) /\ (Q = {} => P = {})
           /\ 1 \in P => /\ IsFirst(1, P)
                         /\ \A i \in Q : IsFirst(i, Q) => Adjacent(1, i + 1, P)
                         /\ Q = {} => IsLast(1, P)
PROOF
<1> USE DEF MovedUp
<1>1. \A k \in P : k \in Nat /\ k >= 1 /\ (k = 1 \/ (k - 1 \in Q /\ k >= 2))
    <2> SUFFICES ASSUME NEW k \in P, k # 1 PROVE k - 1 \in Q /\ k >= 2
        OBVIOUS
    <2>1. k - 1 \in Nat \ {0} /\ (k - 1) + 1 = k
        OBVIOUS
    <2> QED BY <2>1
<1>2. \A i \in Q : i \in Nat /\ i >= 1 /\ i + 1 \in P
    OBVIOUS
<1>3. \A i \in Q : IsLast(i, Q) => IsLast(i + 1, P)
    BY <1>1, <1>2 DEF IsLast
<1>4. \A i, j \in Q : Adjacent(i, j, Q) => Adjacent(i + 1, j + 1, P)
    <2> SUFFICES ASSUME NEW i \in Q, NEW j \in Q, Adjacent(i, j, Q)
                 PROVE  Adjacent(i + 1, j + 1, P)
        OBVIOUS
    <2>1. i < j /\ \A k \in Q : k <= i \/ j <= k
        BY DEF Adjacent
    <2>2. ASSUME NEW k \in P PROVE k <= i + 1 \/ j + 1 <= k
        BY <1>1, <1>2, <2>1
    <2> QED BY <1>2, <2>1, <2>2 DEF Adjacent
<1>5. ASSUME NEW l \in P, IsLast(l, P), NEW q \in Q
      PROVE  \E i \in Q : IsLast(i, Q)
    <2>1. q + 1 <= l
        BY <1>2, <1>5 DEF IsLast
    <2>2. l - 1 \in Q
        BY <1>1, <1>2, <2>1
    <2>3. \A i \in Q : i <= l - 1
        BY <1>1, <1>2, <1>5 DEF IsLast
    <2> QED BY <2>2, <2>3 DEF IsLast
<1>6. ASSUME 1 \notin P
      PROVE  (\A i \in Q : IsFirst(i, Q) => IsFirst(i + 1, P)) /\ (Q = {} => P = {})
    BY <1>1, <1>2, <1>6 DEF IsFirst
<1>7. ASSUME 1 \in P
      PROVE  /\ IsFirst(1, P) /\ (Q = {} => IsLast(1, P))
             /\ \A i \in Q : IsFirst(i, Q) => Adjacent(1, i + 1, P)
    <2>1. IsFirst(1, P) /\ (Q = {} => IsLast(1, P))
        BY <1>1, <1>7 DEF IsFirst, IsLast
    <2>2. ASSUME NEW i \in Q, IsFirst(i, Q) PROVE Adjacent(1, i + 1, P)
        <3>1. \A k \in Q : i <= k
            BY <2>2 DEF IsFirst
        <3>2. \A k \in P : k <= 1 \/ i + 1 <= k
            BY <1>1, <1>2, <3>1
        <3> QED BY <1>2, <1>7, <3>2 DEF Adjacent
    <2> QED BY <2>1, <2>2
<1> QED BY <1>3, <1>4, <1>5, <1>6, <1>7

LEMMA TransformsAgree ==
    ASSUME NEW P, NEW m1, NEW m2, NEW ids, NEW entry,
           Transforms(P, m1, ids, entry), \A k \in P : m2[k] = m1[k]
    PROVE  Transforms(P, m2, ids, entry)
PROOF BY DEF Transforms

(* m2 has one more notification than m1, of a change of the entry. *)
ChangeAdded(l, P, Q, m1, m2, old, new) ==
    /\ AddedLast(l, P, Q)
    /\ \A k \in P : m2[k] = m1[k] /\ m1[k].id # NoSub
    /\ \/ m2[l].op = "Subscribe" /\ old = NoSub /\ new = m2[l].id
       \/ /\ m2[l].op = "Unsubscribe" /\ old # NoSub
          /\ m2[l].id = old /\ new = NoSub

LEMMA TransformsAdded ==
    ASSUME NEW l, NEW P, NEW Q, NEW m1, NEW m2, NEW ids, NEW old, NEW new,
           Transforms(P, m1, ids, old), ChangeAdded(l, P, Q, m1, m2, old, new)
    PROVE  Transforms(Q, m2, ids, new)
PROOF
<1> USE DEF ChangeAdded
<1>1. /\ \A i \in Q : IsLast(i, Q) <=> i = l
      /\ \A i \in P : IsFirst(i, Q) => IsFirst(i, P)
      /\ IsFirst(l, Q) => P = {}
      /\ \A i, j \in Q : Adjacent(i, j, Q) =>
           i \in P /\ (j \in P => Adjacent(i, j, P)) /\ (j = l => IsLast(i, P))
    BY PositionAdded
<1>0. Q = P \cup {l}
    BY DEF AddedLast
<1>2. \E i \in Q : IsLast(i, Q)
    BY <1>0, <1>1
<1>3. ASSUME NEW i \in Q, IsFirst(i, Q)
      PROVE  ids = IF m2[i].op = "Subscribe" THEN {} ELSE {m2[i].id}
    <2>1. CASE i \in P
        <3>1. IsFirst(i, P) /\ m2[i] = m1[i]
            BY <1>1, <1>3, <2>1
        <3>2. ids = IF m1[i].op = "Subscribe" THEN {} ELSE {m1[i].id}
            BY <2>1, <3>1, Zenon DEF Transforms
        <3> QED BY <3>1, <3>2
    <2>2. CASE i = l
        <3>1. ids = {old} \ {NoSub}
            BY <1>1, <1>3, <2>2, Zenon DEF Transforms
        <3>2. old = NoSub => ids = {}
            BY <3>1
        <3>3. old # NoSub => ids = {old}
            BY <3>1
        <3> QED BY <2>2, <3>2, <3>3
    <2> QED BY <1>0, <2>1, <2>2
<1>4. ASSUME NEW i \in Q, IsLast(i, Q)
      PROVE  new = IF m2[i].op = "Subscribe" THEN m2[i].id ELSE NoSub
    <2>1. i = l
        BY <1>1, <1>4
    <2> QED BY <2>1
<1>5. ASSUME NEW i \in Q, NEW j \in Q, Adjacent(i, j, Q)
      PROVE  m2[i].op # m2[j].op /\ (m2[i].op = "Subscribe" => m2[j].id = m2[i].id)
    <2>1. i \in P /\ m2[i] = m1[i] /\ m1[i].id # NoSub
        BY <1>1, <1>5
    <2>2. CASE j \in P
        <3>1. Adjacent(i, j, P)
            BY <1>1, <1>5, <2>2
        <3>2. m1[i].op # m1[j].op /\ (m1[i].op = "Subscribe" => m1[j].id = m1[i].id)
            BY <2>1, <2>2, <3>1, Zenon DEF Transforms
        <3> QED BY <2>1, <2>2, <3>2
    <2>3. CASE j = l
        <3>1. old = IF m1[i].op = "Subscribe" THEN m1[i].id ELSE NoSub
            <4>1. IsLast(i, P)
                BY <1>1, <1>5, <2>3
            <4> QED BY <2>1, <4>1, Zenon DEF Transforms
        <3> QED BY <2>1, <2>3, <3>1
    <2> QED BY <1>0, <2>2, <2>3
<1> QED BY <1>2, <1>3, <1>4, <1>5 DEF Transforms

(* m2 is m1 without its first notification, which the switch has handled. *)
ChangeRead(P, Q, m1, m2, old, ids) ==
    /\ MovedUp(P, Q)
    /\ \A i \in Q : m2[i] = m1[i + 1]
    /\ 1 \notin P => ids = old
    /\ 1 \in P => /\ m1[1].op \in {"Subscribe", "Unsubscribe"} /\ m1[1].id # NoSub
                  /\ \A i \in Q : m2[i].op \in {"Subscribe", "Unsubscribe"}
                  /\ ids = IF m1[1].op = "Subscribe" THEN {m1[1].id} ELSE {}

LEMMA TransformsMovedUp ==
    ASSUME NEW P, NEW Q, NEW m1, NEW m2, NEW old, NEW ids, NEW entry,
           Transforms(P, m1, old, entry), ChangeRead(P, Q, m1, m2, old, ids)
    PROVE  Transforms(Q, m2, ids, entry)
PROOF
<1> USE DEF ChangeRead
<1>1. /\ \A i \in Q : IsLast(i, Q) => IsLast(i + 1, P)
      /\ \A i, j \in Q : Adjacent(i, j, Q) => Adjacent(i + 1, j + 1, P)
      /\ (\E i \in P : IsLast(i, P)) /\ Q # {} => \E i \in Q : IsLast(i, Q)
      /\ 1 \notin P => (\A i \in Q : IsFirst(i, Q) => IsFirst(i + 1, P)) /\ (Q = {} => P = {})
      /\ 1 \in P => /\ IsFirst(1, P)
                    /\ \A i \in Q : IsFirst(i, Q) => Adjacent(1, i + 1, P)
                    /\ Q = {} => IsLast(1, P)
    BY PositionsMoveUp
<1>2. \A i \in Q : i + 1 \in P
    BY DEF MovedUp
<1>0. /\ P = {} => old = {entry} \ {NoSub}
      /\ \A k \in P : IsLast(k, P) =>
           entry = IF m1[k].op = "Subscribe" THEN m1[k].id ELSE NoSub
      /\ \A k \in P : IsFirst(k, P) =>
           old = IF m1[k].op = "Subscribe" THEN {} ELSE {m1[k].id}
      /\ \A k, l \in P : Adjacent(k, l, P) =>
           m1[k].op # m1[l].op /\ (m1[k].op = "Subscribe" => m1[l].id = m1[k].id)
    BY Zenon DEF Transforms
<1>3. ASSUME Q = {} PROVE ids = {entry} \ {NoSub}
    <2>1. CASE 1 \notin P
        BY <1>1, <1>3, <2>1 DEF Transforms
    <2>2. CASE 1 \in P
        <3>1. entry = IF m1[1].op = "Subscribe" THEN m1[1].id ELSE NoSub
            BY <1>0, <1>1, <1>3, <2>2
        <3>2. CASE m1[1].op = "Subscribe"
            BY <2>2, <3>1, <3>2
        <3>3. CASE m1[1].op = "Unsubscribe"
            BY <2>2, <3>1, <3>3
        <3> QED BY <2>2, <3>2, <3>3
    <2> QED BY <2>1, <2>2
<1>4. Q # {} => \E i \in Q : IsLast(i, Q)
    BY <1>1, <1>2 DEF Transforms
<1>5. ASSUME NEW i \in Q, IsFirst(i, Q)
      PROVE  ids = IF m2[i].op = "Subscribe" THEN {} ELSE {m2[i].id}
    <2>1. CASE 1 \notin P
        <3>1. i + 1 \in P /\ IsFirst(i + 1, P) /\ m2[i] = m1[i + 1]
            BY <1>1, <1>2, <1>5, <2>1
        <3>2. old = IF m1[i + 1].op = "Subscribe" THEN {} ELSE {m1[i + 1].id}
            BY <1>0, <3>1
        <3> QED BY <2>1, <3>1, <3>2
    <2>2. CASE 1 \in P
        <3>1. /\ m1[1].op # m1[i + 1].op
              /\ m1[1].op = "Subscribe" => m1[i + 1].id = m1[1].id
            <4>1. i + 1 \in P /\ Adjacent(1, i + 1, P)
                BY <1>1, <1>2, <1>5, <2>2
            <4> QED BY <1>0, <2>2, <4>1
        <3>2. m2[i] = m1[i + 1] /\ m2[i].op \in {"Subscribe", "Unsubscribe"}
            BY <2>2
        <3> QED BY <2>2, <3>1, <3>2
    <2> QED BY <2>1, <2>2
<1>6. ASSUME NEW i \in Q, IsLast(i, Q)
      PROVE  entry = IF m2[i].op = "Subscribe" THEN m2[i].id ELSE NoSub
    <2>1. i + 1 \in P /\ IsLast(i + 1, P) /\ m2[i] = m1[i + 1]
        BY <1>1, <1>2, <1>6
    <2> QED BY <2>1 DEF Transforms
<1>7. ASSUME NEW i \in Q, NEW j \in Q, Adjacent(i, j, Q)
      PROVE  m2[i].op # m2[j].op /\ (m2[i].op = "Subscribe" => m2[j].id = m2[i].id)
    <2>1. /\ i + 1 \in P /\ j + 1 \in P /\ Adjacent(i + 1, j + 1, P)
          /\ m2[i] = m1[i + 1] /\ m2[j] = m1[j + 1]
        BY <1>1, <1>2, <1>7
    <2> QED BY <2>1 DEF Transforms
<1> QED BY <1>3, <1>4, <1>5, <1>6, <1>7 DEF Transforms

-----------------------------------------------------------------------------
(* Subscription ids.                                                       *)

Owned(c, i) ==
    \/ \E t \in Topics : \E s \in subscriptions[t] : s.conn = c /\ s.id = i
    \/ \E n \in Range(notifications) : n.conn = c /\ n.id = i
    \/ i # NoSub /\ \E t \in Topics : local[c][t] = i

LEMMA OwnIdsMember ==
    ASSUME NEW c, NEW i
    PROVE  (i \in OwnIds(c) <=> Owned(c, i)) /\ (i \in OwnIds(c)' <=> Owned(c, i)')
PROOF
<1>1. i \in OwnIds(c) <=> Owned(c, i)
    <2>1. \A t \in Topics : i \in IdsOf(c, t) <=>
            \E s \in subscriptions[t] : s.conn = c /\ s.id = i
        BY Zenon DEF IdsOf, SubsOf
    <2>2. i \in (UNION {IdsOf(c, t) : t \in Topics}) <=>
            \E t \in Topics : i \in IdsOf(c, t)
        BY Zenon
    <2>3. i \in {n.id : n \in {m \in Range(notifications) : m.conn = c}} <=>
            \E n \in Range(notifications) : n.conn = c /\ n.id = i
        BY Zenon
    <2>4. i \in {local[c][t] : t \in Topics} \ {NoSub} <=>
            i # NoSub /\ \E t \in Topics : local[c][t] = i
        BY Zenon
    <2> QED BY <2>1, <2>2, <2>3, <2>4, Zenon DEF OwnIds, Owned
<1>2. i \in OwnIds(c)' <=> Owned(c, i)'
    <2>1. \A t \in Topics : i \in IdsOf(c, t)' <=>
            \E s \in subscriptions'[t] : s.conn = c /\ s.id = i
        BY Zenon DEF IdsOf, SubsOf
    <2>2. i \in (UNION {IdsOf(c, t) : t \in Topics})' <=>
            \E t \in Topics : i \in IdsOf(c, t)'
        BY Zenon
    <2>3. i \in {n.id : n \in {m \in Range(notifications') : m.conn = c}} <=>
            \E n \in Range(notifications') : n.conn = c /\ n.id = i
        BY Zenon
    <2>4. i \in {local'[c][t] : t \in Topics} \ {NoSub} <=>
            i # NoSub /\ \E t \in Topics : local'[c][t] = i
        BY Zenon
    <2> QED BY <2>1, <2>2, <2>3, <2>4, Zenon DEF OwnIds, Owned
<1> QED BY <1>1, <1>2

LEMMA OwnedType ==
    ASSUME TypeOK, NEW c \in Conns, NEW i, Owned(c, i)
    PROVE  i \in SubIds
PROOF
<1>1. CASE \E t \in Topics : \E s \in subscriptions[t] : s.conn = c /\ s.id = i
    BY <1>1 DEF TypeOK, Subscription
<1>2. CASE \E n \in Range(notifications) : n.conn = c /\ n.id = i
    <2>1. Range(notifications) \subseteq Notification
        BY RangeType DEF TypeOK
    <2> QED BY <1>2, <2>1 DEF Notification
<1>3. CASE i # NoSub /\ \E t \in Topics : local[c][t] = i
    BY <1>3 DEF TypeOK
<1> QED BY <1>1, <1>2, <1>3 DEF Owned

(* Ids only move from place to place; a new one is fresh. *)
LEMMA OwnersKept ==
    ASSUME SwitchInv, NEW d \in Conns, next_id' \in {next_id, next_id + 1},
           \A c \in Conns : \A i : Owned(c, i)' =>
               Owned(c, i) \/ (c = d /\ i = next_id /\ next_id' = next_id + 1)
    PROVE  IdsHaveOneOwner'
PROOF
<1>1. ASSUME NEW c \in Conns, NEW i, Owned(c, i)
      PROVE  i \in Nat /\ i < next_id /\ \A x \in Conns \ {c} : ~Owned(x, i)
    BY <1>1, OwnIdsMember, OwnedType DEF SwitchInv, IdsHaveOneOwner, SubIds
<1>2. next_id \in Nat
    BY DEF SwitchInv, TypeOK, SubIds
<1>3. ASSUME NEW c \in Conns, NEW i, Owned(c, i)', NEW x \in Conns \ {c}
      PROVE  i < next_id' /\ ~Owned(x, i)'
    <2>1. CASE Owned(c, i)
        <3>1. i \in Nat /\ i < next_id /\ ~Owned(x, i)
            BY <1>1, <2>1
        <3> QED BY <1>2, <3>1
    <2>2. CASE c = d /\ i = next_id /\ next_id' = next_id + 1
        <3>1. ~Owned(x, i)
            BY <1>1, <1>2, <2>2
        <3> QED BY <1>2, <2>2, <3>1
    <2> QED BY <1>3, <2>1, <2>2
<1>4. ASSUME NEW c \in Conns, NEW i, Owned(c, i)' PROVE i < next_id'
    <2>1. CASE Owned(c, i)
        BY <1>1, <1>2, <2>1
    <2>2. CASE c = d /\ i = next_id /\ next_id' = next_id + 1
        BY <1>2, <2>2
    <2> QED BY <1>4, <2>1, <2>2
<1> QED BY <1>3, <1>4, OwnIdsMember DEF IdsHaveOneOwner

-----------------------------------------------------------------------------
(* The subscriptions' way: from a connection's own map to the switch's.    *)

SubsInv == IdsHaveOneOwner /\ TopicsHaveEntries /\ SubscriptionsInv

LEMMA SubsKept ==
    ASSUME SwitchInv, UNCHANGED <<local, notifications, subscriptions, topics, next_id,
                             running, task>>
    PROVE  SubsInv'
PROOF
<1>1. IdsHaveOneOwner'
    <2>1. \A c \in Conns : OwnIds(c)' = OwnIds(c)
        BY DEF OwnIds, IdsOf, SubsOf
    <2> QED BY <2>1 DEF SwitchInv, IdsHaveOneOwner
<1>2. TopicsHaveEntries'
    BY DEF SwitchInv, TopicsHaveEntries
<1>3. SubscriptionsInv'
    <2>1. ASSUME NEW c \in Conns, NEW t \in Topics
          PROVE  /\ PendingTransforms(c, t)' <=> PendingTransforms(c, t)
                 /\ OneSubscription(c, t)' <=> OneSubscription(c, t)
        BY DEF PendingTransforms, PendingOf, OneSubscription, IdsOf, SubsOf
    <2> QED BY <2>1 DEF SwitchInv, SubscriptionsInv
<1> QED BY <1>1, <1>2, <1>3 DEF SubsInv

(* A connection's task changes its own map and tells the switch. *)
LEMMA NotifySubs ==
    ASSUME SwitchInv, NEW c \in Conns, NEW t \in Topics, NEW op, NEW i, NEW new,
           running, task[c] = "running",
           notifications' = Append(notifications,
             [op |-> op, topic |-> t, id |-> i, conn |-> c]),
           local' = [local EXCEPT ![c][t] = new],
           \/ /\ op = "Subscribe" /\ local[c][t] = NoSub
              /\ i = next_id /\ new = next_id /\ next_id' = next_id + 1
           \/ /\ op = "Unsubscribe" /\ local[c][t] # NoSub
              /\ i = local[c][t] /\ new = NoSub /\ next_id' = next_id,
           UNCHANGED <<subscriptions, topics, running, task>>
    PROVE  SubsInv'
PROOF
<1> USE DEF SwitchInv
<1> DEFINE r == [op |-> op, topic |-> t, id |-> i, conn |-> c]
           L == Len(notifications)
<1>1. i \in SubIds /\ r \in Notification /\ next_id \in SubIds
    BY DEF TypeOK, Notification
<1>2. notifications \in Seq(Notification)
    BY DEF TypeOK
<1>3. /\ L \in Nat /\ DOMAIN notifications = 1..L /\ DOMAIN notifications' = 1..(L + 1)
      /\ \A k \in 1..L : notifications'[k] = notifications[k]
      /\ notifications'[L + 1] = r
      /\ Range(notifications') = Range(notifications) \cup {r}
    BY <1>1, <1>2, AppendProperties, AppendRange, LenProperties
<1>4. r.op = op /\ r.topic = t /\ r.id = i /\ r.conn = c
    OBVIOUS
<1> HIDE DEF r, L
<1>5. \A x \in Conns, u \in Topics :
        local'[x][u] = IF x = c /\ u = t THEN new ELSE local[x][u]
    BY DEF TypeOK
<1>6. IdsHaveOneOwner'
    <2>1. ASSUME NEW x \in Conns, NEW j, Owned(x, j)'
          PROVE  Owned(x, j) \/ (x = c /\ j = next_id /\ next_id' = next_id + 1)
        <3>1. CASE \E u \in Topics : \E s \in subscriptions'[u] : s.conn = x /\ s.id = j
            BY <3>1 DEF Owned
        <3>2. CASE \E n \in Range(notifications') : n.conn = x /\ n.id = j
            <4>1. CASE \E n \in Range(notifications) : n.conn = x /\ n.id = j
                BY <4>1 DEF Owned
            <4>2. CASE x = c /\ j = i
                BY <4>2 DEF Owned
            <4> QED BY <1>3, <1>4, <3>2, <4>1, <4>2
        <3>3. CASE j # NoSub /\ \E u \in Topics : local'[x][u] = j
            BY <1>5, <3>3 DEF Owned
        <3> QED BY <2>1, <3>1, <3>2, <3>3 DEF Owned
    <2> QED BY <2>1, OwnersKept
<1>7. TopicsHaveEntries'
    BY DEF TopicsHaveEntries
<1>8. ASSUME NEW x \in Conns, NEW u \in Topics, task[x] = "running"
      PROVE  PendingTransforms(x, u)'
    <2> DEFINE P == PendingOf(x, u)
               Q == PendingOf(x, u)'
    <2>1. /\ IdsOf(x, u)' = IdsOf(x, u)
          /\ Transforms(P, notifications, IdsOf(x, u), local[x][u])
        BY <1>8 DEF IdsOf, SubsOf, SubscriptionsInv, PendingTransforms
    <2>2. P \in SUBSET (1..L) /\ \A k \in P : notifications'[k] = notifications[k]
        BY <1>3 DEF PendingOf
    <2>3. Q \subseteq 1..(L + 1) /\ \A k \in 1..L : k \in Q <=> k \in P
        BY <1>3 DEF PendingOf
    <2>4. L + 1 \in Q <=> x = c /\ u = t
        BY <1>3, <1>4 DEF PendingOf
    <2>5. \A k \in P : notifications[k].id # NoSub
        <3> SUFFICES ASSUME NEW k \in P PROVE notifications[k].id # NoSub
            OBVIOUS
        <3>1. notifications[k] \in Notification
            BY <1>2, <2>2, ElementOfSeq DEF L
        <3> QED BY <3>1, NoSubAssumption DEF Notification, SubIds
    <2>6. Transforms(Q, notifications', IdsOf(x, u), local'[x][u])
        <3> HIDE DEF P, Q
        <3>1. CASE x = c /\ u = t
            <4>1. Q = P \cup {L + 1}
                BY <1>3, <2>2, <2>3, <2>4, <3>1
            <4>2. /\ local'[x][u] = new
                  /\ \/ /\ notifications'[L + 1].op = "Subscribe" /\ local[x][u] = NoSub
                        /\ new = notifications'[L + 1].id
                     \/ /\ notifications'[L + 1].op = "Unsubscribe" /\ local[x][u] # NoSub
                        /\ notifications'[L + 1].id = local[x][u] /\ new = NoSub
                BY <1>3, <1>4, <1>5, <3>1
            <4>3. L + 1 \in Nat /\ P \in SUBSET Nat /\ \A k \in P : k < L + 1
                BY <1>3, <2>2
            <4> DEFINE l == L + 1
            <4>4. AddedLast(l, P, Q)
                BY <4>1, <4>3 DEF AddedLast
            <4> HIDE DEF l
            <4>5. ChangeAdded(l, P, Q, notifications, notifications', local[x][u], new)
                BY <2>2, <2>5, <4>2, <4>4 DEF l, ChangeAdded
            <4>6. Transforms(Q, notifications', IdsOf(x, u), new)
                BY <2>1, <4>5, TransformsAdded
            <4> QED BY <4>2, <4>6
        <3>2. CASE ~(x = c /\ u = t)
            <4>1. Q \subseteq 1..L
                BY <1>3, <2>3, <2>4, <3>2
            <4>2. Q = P
                BY <2>2, <2>3, <4>1
            <4>3. local'[x][u] = local[x][u]
                BY <1>5, <3>2
            <4> QED BY <2>1, <2>2, <4>2, <4>3, TransformsAgree
        <3> QED BY <3>1, <3>2
    <2> QED BY <2>1, <2>6 DEF PendingTransforms
<1>9. SubscriptionsInv'
    <2>1. \A x \in Conns, u \in Topics : OneSubscription(x, u)' <=> OneSubscription(x, u)
        BY DEF OneSubscription, SubsOf
    <2> QED BY <1>8, <2>1 DEF SubscriptionsInv
<1> QED BY <1>6, <1>7, <1>9 DEF SubsInv

LEMMA ProxySubs ==
    ASSUME SwitchInv, NEW c \in Conns, ProxyStep(c)
    PROVE  SubsInv'
PROOF
<1>1. PICK t \in Topics : ProxySubscribe(c, t) \/ ProxyUnsubscribe(c, t)
    BY DEF ProxyStep
<1>2. task[c] = "running" /\ UNCHANGED <<subscriptions, topics, running, task>>
    BY <1>1 DEF ProxySubscribe, ProxyUnsubscribe, TakeProxied, switchVars
<1>3. CASE UNCHANGED <<local, notifications, next_id>>
    BY <1>2, <1>3, SubsKept
<1>4. CASE ProxySubscribe(c, t) /\ local[c][t] = NoSub /\ running
    BY <1>2, <1>4, NotifySubs DEF ProxySubscribe, NotSubscribed, FreshId
<1>5. CASE ProxyUnsubscribe(c, t) /\ local[c][t] # NoSub /\ running
    BY <1>2, <1>5, NotifySubs DEF ProxyUnsubscribe
<1> QED BY <1>1, <1>3, <1>4, <1>5 DEF ProxySubscribe, NotSubscribed, ProxyUnsubscribe

(* The switch holds the id that the oldest notification removes, and none    *)
(* when it adds one. *)
LEMMA FirstPending ==
    ASSUME SwitchInv, NEW n, HandleSubscribe(n) \/ HandleUnsubscribe(n),
           task[n.conn] = "running"
    PROVE  IdsOf(n.conn, n.topic) = IF n.op = "Subscribe" THEN {} ELSE {n.id}
PROOF
<1> DEFINE P == PendingOf(n.conn, n.topic)
           ids == IdsOf(n.conn, n.topic)
<1>1. /\ notifications \in Seq(Notification) /\ notifications # <<>>
      /\ n = Head(notifications) /\ n.conn \in Conns /\ n.topic \in Topics /\ running
    BY HandleFacts
<1>2. Transforms(P, notifications, ids, local[n.conn][n.topic])
    BY <1>1 DEF SwitchInv, SubscriptionsInv, PendingTransforms
<1>3. /\ Len(notifications) \in Nat \ {0} /\ DOMAIN notifications = 1..Len(notifications)
      /\ notifications[1] = n
    BY <1>1, LenProperties, EmptySeq, HeadTailProperties
<1>4. IsFirst(1, P) /\ 1 \in P
    <2>1. 1 \in P
        BY <1>3 DEF PendingOf
    <2>2. \A j \in P : 1 <= j
        BY <1>3 DEF PendingOf
    <2> QED BY <2>1, <2>2 DEF IsFirst
<1>5. \A i \in P : IsFirst(i, P) =>
        ids = IF notifications[i].op = "Subscribe" THEN {} ELSE {notifications[i].id}
    BY <1>2, Zenon DEF Transforms
<1> QED BY <1>3, <1>4, <1>5

(* What handling a notification does to the subscriptions of a connection: *)
(* ids of other connections are other ids. *)
LEMMA HandleSubsOf ==
    ASSUME SwitchInv, NEW n, HandleSubscribe(n) \/ HandleUnsubscribe(n),
           NEW x \in Conns, NEW u \in Topics
    PROVE  /\ ~(x = n.conn /\ u = n.topic) => SubsOf(x, u)' = SubsOf(x, u)
           /\ x = n.conn /\ u = n.topic /\ task[x] = "running" =>
                /\ IdsOf(x, u)' = IF n.op = "Subscribe" THEN {n.id} ELSE {}
                /\ OneSubscription(x, u)'
PROOF
<1> DEFINE r == [id |-> n.id, conn |-> n.conn]
<1>1. /\ n \in Range(notifications) /\ n.op \in {"Subscribe", "Unsubscribe"}
      /\ n.topic \in Topics /\ n.conn \in Conns
      /\ subscriptions' = [subscriptions EXCEPT ![n.topic] =
           IF n.op = "Subscribe" THEN @ \cup {r} ELSE {s \in @ : s.id # n.id}]
      /\ running
    BY HandleFacts
<1>2. subscriptions \in [Topics -> SUBSET Subscription]
    BY DEF SwitchInv, TypeOK
<1>3. r.id = n.id /\ r.conn = n.conn
    OBVIOUS
<1> HIDE DEF r
<1>4. u # n.topic => subscriptions'[u] = subscriptions[u]
    BY <1>1, <1>2
<1>5. u = n.topic /\ n.op = "Subscribe" => subscriptions'[u] = subscriptions[u] \cup {r}
    BY <1>1, <1>2
<1>6. u = n.topic /\ n.op = "Unsubscribe" =>
        subscriptions'[u] = {s \in subscriptions[u] : s.id # n.id}
    BY <1>1, <1>2
<1>7. ASSUME NEW s \in subscriptions[u], s.conn = x, x # n.conn
      PROVE  s.id # n.id
    <2>1. Owned(x, s.id) /\ Owned(n.conn, n.id)
        BY <1>1, <1>7 DEF Owned
    <2> QED BY <1>1, <1>7, <2>1, OwnIdsMember DEF SwitchInv, IdsHaveOneOwner
<1>8. ASSUME ~(x = n.conn /\ u = n.topic) PROVE SubsOf(x, u)' = SubsOf(x, u)
    <2>1. CASE u # n.topic
        BY <1>4, <2>1 DEF SubsOf
    <2>2. CASE u = n.topic /\ n.op = "Subscribe"
        BY <1>3, <1>5, <1>8, <2>2 DEF SubsOf
    <2>3. CASE u = n.topic /\ n.op = "Unsubscribe"
        BY <1>6, <1>7, <1>8, <2>3 DEF SubsOf
    <2> QED BY <1>1, <2>1, <2>2, <2>3
<1>9. ASSUME x = n.conn, u = n.topic, task[x] = "running"
      PROVE  /\ IdsOf(x, u)' = IF n.op = "Subscribe" THEN {n.id} ELSE {}
             /\ OneSubscription(x, u)'
    <2>3. IdsOf(x, u) = IF n.op = "Subscribe" THEN {} ELSE {n.id}
        BY <1>9, FirstPending
    <2>4. \A s \in SubsOf(x, u) : s.id \in IdsOf(x, u)
        BY Zenon DEF IdsOf
    <2>5. CASE n.op = "Subscribe"
        <3>1. SubsOf(x, u) = {}
            BY <2>3, <2>4, <2>5
        <3>2. SubsOf(x, u)' = {r}
            BY <1>3, <1>5, <1>9, <2>5, <3>1 DEF SubsOf
        <3>3. IdsOf(x, u)' = {n.id}
            BY <1>3, <3>2 DEF IdsOf
        <3> QED BY <2>5, <3>2, <3>3 DEF OneSubscription
    <2>6. CASE n.op = "Unsubscribe"
        <3>1. \A s \in SubsOf(x, u) : s.id = n.id
            BY <2>3, <2>4, <2>6
        <3>2. SubsOf(x, u)' = {}
            BY <1>6, <1>9, <2>6, <3>1 DEF SubsOf
        <3>3. IdsOf(x, u)' = {}
            BY <3>2 DEF IdsOf
        <3> QED BY <2>6, <3>2, <3>3 DEF OneSubscription
    <2> QED BY <1>1, <2>5, <2>6
<1> QED BY <1>8, <1>9

(* A notification is handled only when none has overtaken the waiting events *)
(* yet; it changes what the switch holds of one connection, and the events   *)
(* that still wait are then the switch's next. *)
LEMMA HandleEvents ==
    ASSUME SwitchInv, NEW n, HandleSubscribe(n) \/ HandleUnsubscribe(n)
    PROVE  EventsInv'
PROOF
<1> USE DEF SwitchInv
<1>1. /\ UNCHANGED <<client, task, forwarded, new_event, events, running, routed, emitted>>
      /\ ~event_first /\ event_first' = (new_event # <<>>)
    BY HandleFacts
<1>2. AudienceKept'
    <2>1. Running' = Running /\ new_event' = new_event
        BY <1>1 DEF Running
    <2>2. ASSUME NEW e \in Range(new_event), NEW c \in Running, Late(e, c)'
          PROVE  event_first' /\ c = n.conn
        <3>1. event_first'
            BY <1>1, EmptyRange
        <3>2. c \in Conns /\ ~Late(e, c)
            BY <1>1 DEF AudienceKept, Running
        <3>3. PICK u \in Topics : u = emitted[e].topic
            BY EmittedType, QueueFacts
        <3>4. Registered(c, emitted[e].topic)' <=> Registered(c, u)'
            BY <1>1, <3>3 DEF Registered
        <3>5. c # n.conn => SubsOf(c, u)' = SubsOf(c, u)
            BY <3>2, HandleSubsOf
        <3>6. Registered(c, u) <=> SubsOf(c, u) # {}
            BY DEF Registered, SubsOf
        <3>7. Registered(c, u)' <=> SubsOf(c, u)' # {}
            BY DEF Registered, SubsOf
        <3>8. c # n.conn => (Registered(c, u)' <=> Registered(c, u))
            BY <3>5, <3>6, <3>7
        <3> QED BY <1>1, <2>2, <3>1, <3>2, <3>3, <3>4, <3>8 DEF Late, Overtook
    <2> QED BY <2>1, <2>2, Zenon DEF AudienceKept
<1>3. EventsInOrder' /\ AudienceWithinOne' /\ OnlyToAudience' /\ NoneLeftOut'
    BY <1>1 DEF EventsInOrder, AudienceWithinOne, Overtook, OnlyToAudience, NoneLeftOut,
                Running, Attending
<1> QED BY <1>2, <1>3 DEF EventsInv

(* The switch reads the oldest notification. *)
LEMMA HandleSubs ==
    ASSUME SwitchInv, NEW n, HandleSubscribe(n) \/ HandleUnsubscribe(n)
    PROVE  SubsInv'
PROOF
<1> DEFINE r == [id |-> n.id, conn |-> n.conn]
<1>1. /\ running /\ notifications \in Seq(Notification) /\ notifications # <<>>
      /\ n = Head(notifications) /\ n \in Range(notifications)
      /\ n.op \in {"Subscribe", "Unsubscribe"} /\ n.topic \in Topics
      /\ n.id \in SubIds /\ n.conn \in Conns
      /\ notifications' = Tail(notifications)
      /\ Range(notifications') \subseteq Range(notifications)
      /\ subscriptions' = [subscriptions EXCEPT ![n.topic] =
           IF n.op = "Subscribe" THEN @ \cup {r} ELSE {s \in @ : s.id # n.id}]
      /\ UNCHANGED <<task, local, running, next_id>>
    BY HandleFacts
<1>2. subscriptions \in [Topics -> SUBSET Subscription]
    BY DEF SwitchInv, TypeOK
<1>3. r.id = n.id /\ r.conn = n.conn
    OBVIOUS
<1> HIDE DEF r
<1>4. \A u \in Topics : u # n.topic => subscriptions'[u] = subscriptions[u]
    BY <1>1, <1>2
<1>5. subscriptions'[n.topic] = IF n.op = "Subscribe" THEN subscriptions[n.topic] \cup {r}
                                ELSE {s \in subscriptions[n.topic] : s.id # n.id}
    BY <1>1, <1>2
<1>6. IdsHaveOneOwner'
    <2>1. ASSUME NEW x \in Conns, NEW j, Owned(x, j)' PROVE Owned(x, j)
        <3>1. CASE \E u \in Topics : \E s \in subscriptions'[u] : s.conn = x /\ s.id = j
            <4>1. PICK u \in Topics : \E s \in subscriptions'[u] : s.conn = x /\ s.id = j
                BY <3>1
            <4>2. PICK s \in subscriptions'[u] : s.conn = x /\ s.id = j
                BY <4>1
            <4>3. s \in subscriptions[u] \/ s = r
                BY <1>4, <1>5
            <4> QED BY <1>1, <1>3, <4>2, <4>3 DEF Owned
        <3>2. CASE \E m \in Range(notifications') : m.conn = x /\ m.id = j
            BY <1>1, <3>2 DEF Owned
        <3>3. CASE j # NoSub /\ \E u \in Topics : local'[x][u] = j
            BY <1>1, <3>3 DEF Owned
        <3> QED BY <2>1, <3>1, <3>2, <3>3 DEF Owned
    <2> QED BY <1>1, <2>1, OwnersKept
<1>7. TopicsHaveEntries'
    <2>1. \A u \in Topics : IsFiniteSet(subscriptions'[u])
        <3>1. \A u \in Topics : IsFiniteSet(subscriptions[u])
            BY DEF SwitchInv, TopicsHaveEntries
        <3>2. IsFiniteSet(subscriptions[n.topic] \cup {r})
            BY <1>1, <3>1, FS_AddElement
        <3>3. IsFiniteSet({s \in subscriptions[n.topic] : s.id # n.id})
            <4>1. {s \in subscriptions[n.topic] : s.id # n.id} \in SUBSET subscriptions[n.topic]
                OBVIOUS
            <4> QED BY <1>1, <3>1, <4>1, FS_Subset
        <3> QED BY <1>4, <1>5, <3>1, <3>2, <3>3
    <2>2. \A u \in Topics : subscriptions'[u] # {} => u \in topics'
        <3>1. \A u \in Topics : subscriptions[u] # {} => u \in topics
            BY DEF SwitchInv, TopicsHaveEntries
        <3>2. CASE HandleSubscribe(n)
            BY <1>4, <3>1, <3>2 DEF HandleSubscribe
        <3>3. CASE HandleUnsubscribe(n)
            <4>1. CASE n.topic \in topics /\ subscriptions'[n.topic] = {}
                BY <1>4, <3>1, <3>3, <4>1 DEF HandleUnsubscribe
            <4>2. CASE ~(n.topic \in topics /\ subscriptions'[n.topic] = {})
                <5>1. topics' = topics
                    BY <3>3, <4>2 DEF HandleUnsubscribe
                <5>2. n.op = "Unsubscribe"
                    BY <3>3 DEF HandleUnsubscribe
                <5> QED BY <1>4, <1>5, <3>1, <5>1, <5>2
            <4> QED BY <4>1, <4>2
        <3> QED BY <3>2, <3>3
    <2> QED BY <2>1, <2>2 DEF TopicsHaveEntries
<1>8. ASSUME NEW x \in Conns, NEW u \in Topics, task[x] = "running"
      PROVE  PendingTransforms(x, u)' /\ OneSubscription(x, u)'
    <2> DEFINE P == PendingOf(x, u)
               Q == PendingOf(x, u)'
               L == Len(notifications)
    <2>1. /\ L \in Nat \ {0} /\ DOMAIN notifications = 1..L
          /\ DOMAIN notifications' = 1..(L - 1) /\ notifications[1] = n
          /\ \A i \in 1..(L - 1) : notifications'[i] = notifications[i + 1]
        BY <1>1, LenProperties, EmptySeq, HeadTailProperties
    <2>2. MovedUp(P, Q) /\ \A i \in Q : notifications'[i] = notifications[i + 1]
        BY <2>1 DEF MovedUp, PendingOf
    <2>3. 1 \in P <=> x = n.conn /\ u = n.topic
        BY <2>1 DEF PendingOf
    <2>4. \A i \in Q : notifications'[i].op \in {"Subscribe", "Unsubscribe"}
        <3> SUFFICES ASSUME NEW i \in Q
                     PROVE  notifications'[i].op \in {"Subscribe", "Unsubscribe"}
            OBVIOUS
        <3>1. i + 1 \in 1..L /\ notifications'[i] = notifications[i + 1]
            BY <2>1 DEF PendingOf
        <3>2. notifications[i + 1] \in Notification
            BY <1>1, <3>1, ElementOfSeq
        <3> QED BY <3>1, <3>2 DEF Notification
    <2>5. Transforms(P, notifications, IdsOf(x, u), local[x][u]) /\ OneSubscription(x, u)
        BY <1>1, <1>8 DEF SwitchInv, SubscriptionsInv, PendingTransforms
    <2>6. /\ ~(x = n.conn /\ u = n.topic) => SubsOf(x, u)' = SubsOf(x, u)
          /\ x = n.conn /\ u = n.topic =>
               /\ IdsOf(x, u)' = IF n.op = "Subscribe" THEN {n.id} ELSE {}
               /\ OneSubscription(x, u)'
        BY <1>8, HandleSubsOf
    <2>7. n.id # NoSub
        BY <1>1, NoSubAssumption DEF SubIds
    <2>8. ~(x = n.conn /\ u = n.topic) => IdsOf(x, u)' = IdsOf(x, u) /\ OneSubscription(x, u)'
        BY <2>5, <2>6 DEF IdsOf, OneSubscription
    <2>9. ChangeRead(P, Q, notifications, notifications', IdsOf(x, u), IdsOf(x, u)')
        BY <1>1, <2>1, <2>2, <2>3, <2>4, <2>6, <2>7, <2>8 DEF ChangeRead
    <2>10. Transforms(Q, notifications', IdsOf(x, u)', local[x][u])
        BY <2>5, <2>9, TransformsMovedUp
    <2> QED BY <1>1, <2>6, <2>8, <2>10 DEF PendingTransforms
<1> QED BY <1>1, <1>6, <1>7, <1>8 DEF SubsInv, SubscriptionsInv

(* The switch drops the subscriptions of ended tasks. *)
LEMMA RouteSubs ==
    ASSUME SwitchInv, RouteEvent
    PROVE  SubsInv'
PROOF
<1> DEFINE t == emitted[Head(new_event)].topic
<1>1. /\ t \in Topics
      /\ subscriptions' = [subscriptions EXCEPT ![t] = {s \in @ : task[s.conn] = "running"}]
      /\ UNCHANGED <<task, local, notifications, running, topics, next_id>>
    BY RouteFacts DEF RouteEvent, connVars, boundVars
<1>2. subscriptions \in [Topics -> SUBSET Subscription]
    BY DEF SwitchInv, TypeOK
<1> HIDE DEF t
<1>3. \A u \in Topics :
        /\ subscriptions'[u] \in SUBSET subscriptions[u]
        /\ \A s \in subscriptions[u] : task[s.conn] = "running" => s \in subscriptions'[u]
    BY <1>1, <1>2
<1>4. IdsHaveOneOwner'
    <2>1. PICK d : d \in Conns \/ Conns = {}
        OBVIOUS
    <2>2. CASE d \in Conns
        <3>1. \A x \in Conns : \A j : Owned(x, j)' => Owned(x, j)
            BY <1>1, <1>3 DEF Owned
        <3> QED BY <1>1, <2>2, <3>1, OwnersKept
    <2>3. CASE Conns = {}
        BY <2>3 DEF IdsHaveOneOwner
    <2> QED BY <2>1, <2>2, <2>3
<1>5. TopicsHaveEntries'
    <2>1. ASSUME NEW u \in Topics PROVE IsFiniteSet(subscriptions'[u])
        <3>1. IsFiniteSet(subscriptions[u])
            BY DEF SwitchInv, TopicsHaveEntries
        <3> QED BY <1>3, <3>1, FS_Subset
    <2> QED BY <1>1, <1>3, <2>1 DEF SwitchInv, TopicsHaveEntries
<1>6. ASSUME NEW x \in Conns, NEW u \in Topics, task[x] = "running", running
      PROVE  PendingTransforms(x, u)' /\ OneSubscription(x, u)'
    <2>1. SubsOf(x, u)' = SubsOf(x, u)
        BY <1>3, <1>6 DEF SubsOf
    <2>2. PendingOf(x, u)' = PendingOf(x, u) /\ IdsOf(x, u)' = IdsOf(x, u)
        BY <1>1, <2>1 DEF PendingOf, IdsOf
    <2>3. PendingTransforms(x, u) /\ OneSubscription(x, u)
        BY <1>6 DEF SwitchInv, SubscriptionsInv
    <2> QED BY <1>1, <2>1, <2>2, <2>3 DEF PendingTransforms, OneSubscription
<1>7. SubscriptionsInv'
    BY <1>1, <1>6 DEF SubscriptionsInv
<1> QED BY <1>4, <1>5, <1>7 DEF SubsInv

(* A task ends: nothing is said of its subscriptions any more. *)
LEMMA EndsSubs ==
    ASSUME SwitchInv, NEW c \in Conns, ConnectionTaskEnds(c)
    PROVE  SubsInv'
PROOF
<1>1. /\ task' = [task EXCEPT ![c] = "ended"]
      /\ local' = [local EXCEPT ![c] = [t \in Topics |-> NoSub]]
      /\ UNCHANGED <<notifications, subscriptions, running, topics, next_id>>
    BY DEF ConnectionTaskEnds, switchVars, boundVars
<1>2. /\ \A x \in Conns \ {c} : task'[x] = task[x] /\ local'[x] = local[x]
      /\ task'[c] = "ended" /\ \A u \in Topics : local'[c][u] = NoSub
    BY <1>1 DEF SwitchInv, TypeOK
<1>3. IdsHaveOneOwner'
    <2>1. \A x \in Conns : \A j : Owned(x, j)' => Owned(x, j)
        BY <1>1, <1>2 DEF Owned
    <2> QED BY <1>1, <2>1, OwnersKept
<1>4. TopicsHaveEntries'
    BY <1>1 DEF SwitchInv, TopicsHaveEntries
<1>5. ASSUME NEW x \in Conns \ {c}, NEW u \in Topics, running, task[x] = "running"
      PROVE  PendingTransforms(x, u)' /\ OneSubscription(x, u)'
    <2>1. PendingTransforms(x, u) /\ OneSubscription(x, u)
        BY <1>5 DEF SwitchInv, SubscriptionsInv
    <2>2. /\ PendingOf(x, u)' = PendingOf(x, u) /\ SubsOf(x, u)' = SubsOf(x, u)
          /\ IdsOf(x, u)' = IdsOf(x, u)
        BY <1>1 DEF PendingOf, SubsOf, IdsOf
    <2> QED BY <1>1, <1>2, <2>1, <2>2 DEF PendingTransforms, OneSubscription
<1>6. SubscriptionsInv'
    BY <1>1, <1>2, <1>5 DEF SubscriptionsInv
<1> QED BY <1>3, <1>4, <1>6 DEF SubsInv

(* The switch ends: its subscriptions are gone. *)
LEMMA SwitchEndsSubs ==
    ASSUME SwitchInv, SwitchTaskEnds
    PROVE  SubsInv'
PROOF
<1>1. /\ ~running' /\ notifications' = <<>>
      /\ \A u \in Topics : subscriptions'[u] = {}
      /\ local' = local /\ next_id' = next_id
    BY DEF SwitchTaskEnds, connVars, boundVars
<1>2. ASSUME NEW d \in Conns PROVE IdsHaveOneOwner'
    <2>1. \A x \in Conns : \A j : Owned(x, j)' => Owned(x, j)
        BY <1>1, EmptyRange DEF Owned
    <2> QED BY <1>1, <2>1, OwnersKept
<1>3. IdsHaveOneOwner'
    BY <1>2 DEF IdsHaveOneOwner
<1>4. TopicsHaveEntries'
    BY <1>1, FS_EmptySet DEF TopicsHaveEntries
<1> QED BY <1>1, <1>3, <1>4 DEF SubsInv, SubscriptionsInv

-----------------------------------------------------------------------------
(* What the application is told of the topics.                             *)

TopicsInv == NotifsHaveLast /\ TopicNotifsInv

LEMMA TopicsKept ==
    ASSUME SwitchInv, UNCHANGED <<topic_notif, subscriptions, running, task>>
    PROVE  TopicsInv'
PROOF
<1>1. \A t \in Topics : NotifsOf(t)' = NotifsOf(t)
    BY DEF NotifsOf
<1>2. NotifsHaveLast'
    BY <1>1 DEF SwitchInv, NotifsHaveLast
<1>3. TopicsAlternate => TopicsAlternate'
    BY <1>1 DEF TopicsAlternate
<1> QED BY <1>2, <1>3 DEF SwitchInv, TopicsInv, TopicNotifsInv

(* When a connection's task may end, nothing more is said of the topics. *)
LEMMA EndsTopics ==
    ASSUME SwitchInv, NEW c \in Conns, ConnectionTaskEnds(c)
    PROVE  TopicsInv'
PROOF
<1>1. "ConnectionTask" \in Faults /\ topic_notif' = topic_notif
    BY DEF ConnectionTaskEnds, switchVars
<1>2. \A t \in Topics : NotifsOf(t)' = NotifsOf(t)
    BY <1>1 DEF NotifsOf
<1> QED BY <1>1, <1>2 DEF SwitchInv, TopicsInv, NotifsHaveLast, TopicNotifsInv

(* While all tasks run, routing an event drops no subscription. *)
LEMMA RouteTopics ==
    ASSUME SwitchInv, RouteEvent
    PROVE  TopicsInv'
PROOF
<1>1. topic_notif' = topic_notif /\ running' = running /\ task' = task
    BY DEF RouteEvent, connVars
<1>2. CASE \A c \in Conns : task[c] = "running"
    <2> DEFINE t == emitted[Head(new_event)].topic
    <2>1. /\ t \in Topics
          /\ subscriptions' =
               [subscriptions EXCEPT ![t] = {s \in @ : task[s.conn] = "running"}]
        BY RouteFacts DEF RouteEvent
    <2>2. subscriptions \in [Topics -> SUBSET Subscription]
        BY DEF SwitchInv, TypeOK
    <2> HIDE DEF t
    <2>3. {s \in subscriptions[t] : task[s.conn] = "running"} = subscriptions[t]
        BY <1>2, <2>1, <2>2 DEF Subscription
    <2>4. subscriptions' = subscriptions
        BY <2>1, <2>2, <2>3
    <2> QED BY <1>1, <2>4, TopicsKept
<1>3. CASE ~\A c \in Conns : task[c] = "running"
    <2>1. \A t \in Topics : NotifsOf(t)' = NotifsOf(t)
        BY <1>1 DEF NotifsOf
    <2> QED BY <1>3, <2>1 DEF SwitchInv, TopicsInv, NotifsHaveLast, TopicNotifsInv
<1> QED BY <1>2, <1>3

LEMMA SwitchEndsTopics ==
    ASSUME SwitchInv, SwitchTaskEnds
    PROVE  TopicsInv'
PROOF
<1>1. ~running' /\ topic_notif' = topic_notif /\ task' = task
    BY DEF SwitchTaskEnds, connVars
<1>2. \A t \in Topics : NotifsOf(t)' = NotifsOf(t)
    BY <1>1 DEF NotifsOf
<1> QED BY <1>1, <1>2
      DEF SwitchInv, TopicsInv, NotifsHaveLast, TopicNotifsInv, TopicsAlternate

LEMMA AlternateAdded ==
    ASSUME NEW l, NEW P, NEW Q, AddedLast(l, P, Q),
           NEW m1, NEW m2, \A i \in P : m2[i] = m1[i],
           NEW subs, NEW new, Alternate(P, m1, subs),
           subs = {} <=> new # {}, m2[l].kind = "Created" <=> new # {}
    PROVE  Alternate(Q, m2, new)
PROOF
<1>1. /\ \A i \in Q : IsLast(i, Q) <=> i = l
      /\ \A i \in P : IsFirst(i, Q) => IsFirst(i, P)
      /\ IsFirst(l, Q) => P = {}
      /\ \A i, j \in Q : Adjacent(i, j, Q) =>
           i \in P /\ (j \in P => Adjacent(i, j, P)) /\ (j = l => IsLast(i, P))
    BY PositionAdded
<1>2. Q = P \cup {l}
    BY DEF AddedLast
<1>3. /\ P = {} => subs = {}
      /\ \A i \in P : IsFirst(i, P) => m1[i].kind = "Created"
      /\ \A i \in P : IsLast(i, P) => (m1[i].kind = "Created" <=> subs # {})
      /\ \A i, j \in P : Adjacent(i, j, P) => m1[i].kind # m1[j].kind
    BY DEF Alternate
<1>4. ASSUME NEW i \in Q, IsFirst(i, Q) PROVE m2[i].kind = "Created"
    BY <1>1, <1>2, <1>3, <1>4
<1>5. ASSUME NEW i \in Q, IsLast(i, Q) PROVE m2[i].kind = "Created" <=> new # {}
    BY <1>1, <1>5
<1>6. ASSUME NEW i \in Q, NEW j \in Q, Adjacent(i, j, Q) PROVE m2[i].kind # m2[j].kind
    <2>1. i \in P /\ m2[i] = m1[i]
        BY <1>1, <1>6
    <2>2. CASE j \in P
        BY <1>1, <1>3, <1>6, <2>1, <2>2
    <2>3. CASE j = l
        BY <1>1, <1>3, <1>6, <2>1, <2>3
    <2> QED BY <1>2, <2>2, <2>3
<1> QED BY <1>2, <1>4, <1>5, <1>6 DEF Alternate

LEMMA TopicNotified ==
    ASSUME TypeOK, NEW kind \in {"Created", "Removed"}, NEW t \in Topics,
           topic_notif' = Notify(kind, t)
    PROVE  /\ \A u \in Topics \ {t} : NotifsOf(u)' = NotifsOf(u)
           /\ AddedLast(Len(topic_notif) + 1, NotifsOf(t), NotifsOf(t)')
           /\ \A u \in Topics : \A i \in NotifsOf(u) : topic_notif'[i] = topic_notif[i]
           /\ topic_notif'[Len(topic_notif) + 1].kind = kind
PROOF
<1> DEFINE S == [kind : {"Created", "Removed"}, topic : Topics]
           r == [kind |-> kind, topic |-> t]
           L == Len(topic_notif)
<1>1. topic_notif \in Seq(S) /\ r \in S
    BY DEF TypeOK
<1>2. topic_notif' = Append(topic_notif, r) /\ r.kind = kind /\ r.topic = t
    BY DEF Notify
<1> HIDE DEF S, r
<1>3. /\ L \in Nat /\ DOMAIN topic_notif = 1..L /\ DOMAIN topic_notif' = 1..(L + 1)
      /\ \A k \in 1..L : topic_notif'[k] = topic_notif[k]
      /\ topic_notif'[L + 1] = r
    BY <1>1, <1>2, AppendProperties, LenProperties
<1> HIDE DEF L
<1>4. ASSUME NEW u \in Topics
      PROVE  /\ \A i \in NotifsOf(u) : i \in 1..L
             /\ \A i : i \in NotifsOf(u)' <=> i \in NotifsOf(u) \/ (i = L + 1 /\ u = t)
    BY <1>2, <1>3 DEF NotifsOf
<1>5. \A u \in Topics \ {t} : NotifsOf(u)' = NotifsOf(u)
    BY <1>4
<1>6. AddedLast(L + 1, NotifsOf(t), NotifsOf(t)')
    <2>1. NotifsOf(t)' = NotifsOf(t) \cup {L + 1}
        BY <1>4
    <2>2. NotifsOf(t) \in SUBSET Nat /\ \A k \in NotifsOf(t) : k < L + 1
        BY <1>3, <1>4
    <2> QED BY <1>3, <2>1, <2>2 DEF AddedLast
<1> QED BY <1>2, <1>3, <1>4, <1>5, <1>6 DEF L

(* While all tasks run, a notification to the application says that the     *)
(* topic's set of subscriptions became empty or ceased to be. *)
LEMMA HandleNotifies ==
    ASSUME SwitchInv, NEW n, HandleSubscribe(n) \/ HandleUnsubscribe(n),
           task[n.conn] = "running"
    PROVE  LET old == subscriptions[n.topic]
               new == subscriptions'[n.topic]
           IN  \/ topic_notif' = topic_notif /\ (old = {} <=> new = {})
               \/ topic_notif' = Notify("Created", n.topic) /\ old = {} /\ new # {}
               \/ topic_notif' = Notify("Removed", n.topic) /\ old # {} /\ new = {}
PROOF
<1> DEFINE r == [id |-> n.id, conn |-> n.conn]
           old == subscriptions[n.topic]
           new == subscriptions'[n.topic]
<1>1. /\ n.topic \in Topics /\ n.conn \in Conns /\ running
      /\ subscriptions' = [subscriptions EXCEPT ![n.topic] =
           IF n.op = "Subscribe" THEN @ \cup {r} ELSE {s \in @ : s.id # n.id}]
    BY HandleFacts
<1>2. subscriptions \in [Topics -> SUBSET Subscription]
    BY DEF SwitchInv, TypeOK
<1>3. r.id = n.id /\ r.conn = n.conn
    OBVIOUS
<1> HIDE DEF r
<1>4. new = IF n.op = "Subscribe" THEN old \cup {r} ELSE {s \in old : s.id # n.id}
    BY <1>1, <1>2
<1>5. IsFiniteSet(old) /\ (old # {} => n.topic \in topics)
    BY <1>1 DEF SwitchInv, TopicsHaveEntries
<1>6. IdsOf(n.conn, n.topic) = IF n.op = "Subscribe" THEN {} ELSE {n.id}
    BY <1>1, FirstPending
<1>7. \A s \in old : s.conn = n.conn => s.id \in IdsOf(n.conn, n.topic)
    BY Zenon DEF IdsOf, SubsOf
<1>8. CASE HandleSubscribe(n)
    <2>1. n.op = "Subscribe" /\ new = old \cup {r}
        BY <1>4, <1>8 DEF HandleSubscribe
    <2>2. r \notin old
        BY <1>3, <1>6, <1>7, <2>1
    <2>3. Cardinality(new) = Cardinality(old) + 1
        BY <1>5, <2>1, <2>2, FS_AddElement
    <2>4. Cardinality(old) \in Nat /\ (Cardinality(old) = 0 <=> old = {})
        BY <1>5, FS_EmptySet, FS_CardinalityType
    <2>5. Cardinality(new) = 1 <=> old = {}
        BY <2>3, <2>4
    <2>6. topic_notif' = IF Cardinality(new) = 1 THEN Notify("Created", n.topic)
                         ELSE topic_notif
        BY <1>8 DEF HandleSubscribe
    <2> QED BY <2>1, <2>5, <2>6
<1>9. CASE HandleUnsubscribe(n)
    <2>1. n.op = "Unsubscribe"
        BY <1>9 DEF HandleUnsubscribe
    <2>2. old # {}
        <3>1. n.id \in IdsOf(n.conn, n.topic)
            BY <1>6, <2>1
        <3> QED BY <3>1, Zenon DEF IdsOf, SubsOf
    <2>3. topic_notif' = IF n.topic \in topics /\ new = {} THEN Notify("Removed", n.topic)
                         ELSE topic_notif
        BY <1>9 DEF HandleUnsubscribe
    <2> QED BY <1>5, <2>2, <2>3
<1> QED BY <1>8, <1>9

LEMMA HandleTopics ==
    ASSUME SwitchInv, NEW n, HandleSubscribe(n) \/ HandleUnsubscribe(n)
    PROVE  TopicsInv'
PROOF
<1>1. /\ n.topic \in Topics /\ n.conn \in Conns /\ running
      /\ UNCHANGED <<task, running>>
      /\ \A u \in Topics \ {n.topic} : subscriptions'[u] = subscriptions[u]
    <2>1. subscriptions \in [Topics -> SUBSET Subscription]
        BY DEF SwitchInv, TypeOK
    <2> QED BY <2>1, HandleFacts
<1>2. NotifsHaveLast'
    <2>1. CASE topic_notif' = topic_notif
        <3>1. \A u \in Topics : NotifsOf(u)' = NotifsOf(u)
            BY <2>1 DEF NotifsOf
        <3> QED BY <3>1 DEF SwitchInv, NotifsHaveLast
    <2>2. ASSUME NEW kind \in {"Created", "Removed"}, topic_notif' = Notify(kind, n.topic)
          PROVE  NotifsHaveLast'
        <3>1. /\ \A u \in Topics \ {n.topic} : NotifsOf(u)' = NotifsOf(u)
              /\ AddedLast(Len(topic_notif) + 1, NotifsOf(n.topic), NotifsOf(n.topic)')
            BY <1>1, <2>2, TopicNotified DEF SwitchInv
        <3>2. \E i \in NotifsOf(n.topic)' : IsLast(i, NotifsOf(n.topic)')
            <4>1. Len(topic_notif) + 1 \in NotifsOf(n.topic)'
                BY <3>1 DEF AddedLast
            <4> QED BY <3>1, <4>1, PositionAdded
        <3> QED BY <3>1, <3>2 DEF SwitchInv, NotifsHaveLast
    <2> QED BY <2>1, <2>2 DEF HandleSubscribe, HandleUnsubscribe
<1>3. ASSUME \A c \in Conns : task[c] = "running", TopicsAlternate
      PROVE  TopicsAlternate'
    <2> DEFINE old == subscriptions[n.topic]
               new == subscriptions'[n.topic]
    <2>1. \A u \in Topics : Alternate(NotifsOf(u), topic_notif, subscriptions[u])
        BY <1>1, <1>3 DEF TopicsAlternate
    <2>2. \/ topic_notif' = topic_notif /\ (old = {} <=> new = {})
          \/ topic_notif' = Notify("Created", n.topic) /\ old = {} /\ new # {}
          \/ topic_notif' = Notify("Removed", n.topic) /\ old # {} /\ new = {}
        BY <1>1, <1>3, HandleNotifies
    <2> HIDE DEF old, new
    <2>3. CASE topic_notif' = topic_notif /\ (old = {} <=> new = {})
        <3>1. \A u \in Topics : NotifsOf(u)' = NotifsOf(u)
            BY <2>3 DEF NotifsOf
        <3>2. Alternate(NotifsOf(n.topic), topic_notif, old)
              => Alternate(NotifsOf(n.topic), topic_notif, new)
            BY <2>3 DEF Alternate
        <3> QED BY <1>1, <2>1, <2>3, <3>1, <3>2 DEF TopicsAlternate, old, new
    <2>4. ASSUME NEW kind \in {"Created", "Removed"}, topic_notif' = Notify(kind, n.topic),
                 old = {} <=> new # {}, kind = "Created" <=> new # {}
          PROVE  TopicsAlternate'
        <3>1. /\ \A u \in Topics \ {n.topic} : NotifsOf(u)' = NotifsOf(u)
              /\ AddedLast(Len(topic_notif) + 1, NotifsOf(n.topic), NotifsOf(n.topic)')
              /\ \A u \in Topics : \A i \in NotifsOf(u) : topic_notif'[i] = topic_notif[i]
              /\ topic_notif'[Len(topic_notif) + 1].kind = kind
            BY <1>1, <2>4, TopicNotified DEF SwitchInv
        <3>2. ASSUME NEW u \in Topics \ {n.topic}
              PROVE  Alternate(NotifsOf(u)', topic_notif', subscriptions'[u])
            BY <1>1, <2>1, <3>1 DEF Alternate
        <3>3. Alternate(NotifsOf(n.topic)', topic_notif', new)
            <4>1. Alternate(NotifsOf(n.topic), topic_notif, old)
                BY <1>1, <2>1 DEF old
            <4> QED BY <1>1, <2>4, <3>1, <4>1, AlternateAdded
        <3> QED BY <3>2, <3>3 DEF TopicsAlternate, new
    <2>5. CASE topic_notif' = Notify("Created", n.topic) /\ old = {} /\ new # {}
        BY <2>4, <2>5
    <2>6. CASE topic_notif' = Notify("Removed", n.topic) /\ old # {} /\ new = {}
        BY <2>4, <2>6
    <2> QED BY <2>2, <2>3, <2>5, <2>6
<1> QED BY <1>1, <1>2, <1>3 DEF SwitchInv, TopicsInv, TopicNotifsInv

-----------------------------------------------------------------------------
(* The inductive invariant.                                                *)

LEMMA NextSwitchInv == SwitchInv /\ [Next]_vars => SwitchInv'
PROOF
<1> SUFFICES ASSUME SwitchInv, [Next]_vars PROVE SwitchInv'
    OBVIOUS
<1>1. CASE UNCHANGED vars
    <2>1. UNCHANGED <<client, task, proxied, local, forwarded, notifications, new_event,
                      events, running, subscriptions, topics, topic_notif, emitted,
                      ops, next_id, conn_event_first, event_first, routed>>
        BY <1>1 DEF vars, connVars, chanVars, switchVars, boundVars
    <2>2. SubsInv' /\ EventsInv' /\ TopicsInv'
        BY <2>1, SubsKept, EventsKept, TopicsKept
    <2>3. TypeOK'
        BY <2>1 DEF SwitchInv, TypeOK
    <2> QED BY <2>2, <2>3 DEF SwitchInv, SubsInv, EventsInv, TopicsInv
<1>2. ASSUME NEW c \in Conns, HandlerOp(c) \/ ClientLeaves(c)
      PROVE  TypeOK' /\ SubsInv' /\ EventsInv' /\ TopicsInv'
    <2>1. UNCHANGED <<local, notifications, subscriptions, topics, next_id, running, task,
                      topic_notif>>
        BY <1>2 DEF HandlerOp, Proxy, ClientLeaves, chanVars, switchVars, boundVars
    <2>2. TypeOK'
        BY <1>2, ConnTypeOK
    <2>3. CASE HandlerOp(c)
        <3>1. UNCHANGED <<client, task, forwarded, new_event, events, running,
                          subscriptions, emitted, event_first, routed>>
            BY <2>3 DEF HandlerOp, Proxy, chanVars, switchVars
        <3> QED BY <2>1, <2>2, <3>1, SubsKept, EventsKept, TopicsKept
    <2>4. CASE ClientLeaves(c)
        BY <2>1, <2>2, <2>4, SubsKept, EndsEvents, TopicsKept
    <2> QED BY <1>2, <2>3, <2>4
<1>3. ASSUME NEW c \in Conns, ForwardEvent(c)
      PROVE  TypeOK' /\ SubsInv' /\ EventsInv' /\ TopicsInv'
    <2>1. UNCHANGED <<local, notifications, subscriptions, topics, next_id, running, task,
                      topic_notif>>
        BY <1>3 DEF ForwardEvent, switchVars, boundVars
    <2>2. TypeOK'
        BY <1>3, ConnTypeOK
    <2> QED BY <1>3, <2>1, <2>2, SubsKept, ForwardEvents, TopicsKept
<1>4. ASSUME NEW c \in Conns, ProxyStep(c)
      PROVE  TypeOK' /\ SubsInv' /\ EventsInv' /\ TopicsInv'
    <2>1. UNCHANGED <<client, task, forwarded, new_event, events, running,
                      subscriptions, emitted, topic_notif, event_first, routed>>
        BY <1>4 DEF ProxyStep, ProxySubscribe, ProxyUnsubscribe, TakeProxied, switchVars
    <2> QED BY <1>4, <2>1, ProxyTypeOK, ProxySubs, EventsKept, TopicsKept
<1>5. ASSUME NEW c \in Conns, ConnectionTaskEnds(c)
      PROVE  TypeOK' /\ SubsInv' /\ EventsInv' /\ TopicsInv'
    BY <1>5, ConnTypeOK, EndsSubs, EndsEvents, EndsTopics
<1>6. ASSUME NEW t \in Topics, Emit(t)
      PROVE  TypeOK' /\ SubsInv' /\ EventsInv' /\ TopicsInv'
    <2>1. UNCHANGED <<local, notifications, subscriptions, topics, next_id, running, task,
                      topic_notif>>
        BY <1>6 DEF Emit, connVars, switchVars
    <2>2. TypeOK'
        BY <1>6, SwitchTypeOK
    <2> QED BY <1>6, <2>1, <2>2, SubsKept, EmitEvents, TopicsKept
<1>7. ASSUME RouteEvent
      PROVE  TypeOK' /\ SubsInv' /\ EventsInv' /\ TopicsInv'
    BY <1>7, SwitchTypeOK, RouteSubs, RouteEvents, RouteTopics
<1>8. ASSUME NotificationStep
      PROVE  TypeOK' /\ SubsInv' /\ EventsInv' /\ TopicsInv'
    <2>1. PICK n : HandleSubscribe(n) \/ HandleUnsubscribe(n)
        BY <1>8 DEF NotificationStep
    <2> QED BY <1>8, <2>1, SwitchTypeOK, HandleSubs, HandleEvents, HandleTopics
<1>9. ASSUME SwitchTaskEnds
      PROVE  TypeOK' /\ SubsInv' /\ EventsInv' /\ TopicsInv'
    BY <1>9, SwitchTypeOK, SwitchEndsSubs, EndsEvents, SwitchEndsTopics
<1>10. CASE Next
    <2>1. TypeOK' /\ SubsInv' /\ EventsInv' /\ TopicsInv'
        BY <1>2, <1>3, <1>4, <1>5, <1>6, <1>7, <1>8, <1>9, <1>10 DEF Next
    <2> QED BY <2>1 DEF SwitchInv, SubsInv, EventsInv, TopicsInv
<1> QED BY <1>1, <1>10

(* SwitchInv holds in every reachable state, whichever tasks end. *)
THEOREM SwitchInvariant == Spec => []SwitchInv
PROOF BY InitSwitchInv, NextSwitchInv, PTL DEF Spec

(* The queues, the two copies of the subscriptions and the topics keep their *)
(* types; subscription ids are never 0. *)
THEOREM TypeCorrect == Spec => []TypeOK
PROOF
<1>1. SwitchInv => TypeOK
    BY DEF SwitchInv
<1> QED BY <1>1, SwitchInvariant, PTL

(* An event reaches the connections registered when it was emitted, except   *)
(* for at most one whose (un)subscription the switch takes between its poll  *)
(* for events and the next. *)
THEOREM RoutingWithinOne == Spec => []RoutedWithinOne
PROOF
<1>1. SwitchInv => RoutedWithinOne
    <2> SUFFICES ASSUME SwitchInv, running, NEW e \in DOMAIN emitted, NEW c \in Attending,
                        NEW d \in Attending, e \notin Range(new_event),
                        Overtook(e, c, e \in Range(Received(c))),
                        Overtook(e, d, e \in Range(Received(d)))
                 PROVE  c = d
        BY DEF RoutedWithinOne
    <2>1. e \in DOMAIN routed
        BY QueueFacts DEF SwitchInv
    <2>2. ASSUME NEW x \in Attending
          PROVE  x \in Running /\ (e \in Range(Received(x)) <=> x \in routed[e])
        <3>1. x \in Conns /\ x \in Running
            BY DEF Attending, Running
        <3>2. Range(Received(x)) = Range(forwarded[x]) \cup Range(events[x])
            BY <3>1, ReceivedRange
        <3> QED BY <2>1, <3>1, <3>2 DEF SwitchInv, OnlyToAudience, NoneLeftOut
    <2> QED BY <2>1, <2>2 DEF SwitchInv, AudienceWithinOne, Overtook
<1> QED BY <1>1, SwitchInvariant, PTL

(* A connection's own map and the switch's subscriptions agree, up to what   *)
(* the switch has not read yet. *)
THEOREM CopiesAgree == Spec => []SwitchAgrees
PROOF
<1>1. SwitchInv => SwitchAgrees
    <2> SUFFICES ASSUME SwitchInv, running, NEW c \in Conns, NEW t \in Topics,
                        task[c] = "running"
                 PROVE  IF PendingOf(c, t) = {}
                        THEN {s.id : s \in {x \in subscriptions[t] : x.conn = c}}
                                = {local[c][t]} \ {NoSub}
                        ELSE LET last == CHOOSE i \in PendingOf(c, t) :
                                           \A j \in PendingOf(c, t) : j <= i
                             IN  local[c][t] = IF notifications[last].op = "Subscribe"
                                                 THEN notifications[last].id ELSE NoSub
        BY DEF SwitchAgrees
    <2> DEFINE P == PendingOf(c, t)
               last == CHOOSE i \in P : \A j \in P : j <= i
    <2>1. Transforms(P, notifications, IdsOf(c, t), local[c][t])
        BY DEF SwitchInv, SubscriptionsInv, PendingTransforms
    <2> HIDE DEF P
    <2>2. ASSUME P = {}
          PROVE  {s.id : s \in {x \in subscriptions[t] : x.conn = c}} = {local[c][t]} \ {NoSub}
        BY <2>1, <2>2 DEF Transforms, IdsOf, SubsOf
    <2>3. ASSUME P # {}
          PROVE  local[c][t] = IF notifications[last].op = "Subscribe"
                                 THEN notifications[last].id ELSE NoSub
        <3>1. \E i \in P : \A j \in P : j <= i
            BY <2>1, <2>3, Zenon DEF Transforms, IsLast
        <3>2. last \in P /\ \A j \in P : j <= last
            BY <3>1, Zenon
        <3> HIDE DEF last
        <3>3. IsLast(last, P)
            BY <3>2 DEF IsLast
        <3> QED BY <2>1, <3>2, <3>3, Zenon DEF Transforms
    <2> QED BY <2>2, <2>3 DEF P
<1> QED BY <1>1, SwitchInvariant, PTL

(* As long as no connection's task ends, the application is told of a topic  *)
(* created and removed in turn, and last of what the switch now has. *)
THEOREM TopicsTold ==
    ASSUME "ConnectionTask" \notin Faults
    PROVE  Spec => []TopicsAlternate
PROOF
<1>1. SwitchInv => TopicsAlternate
    BY DEF SwitchInv, TopicNotifsInv
<1> QED BY <1>1, SwitchInvariant, PTL

-----------------------------------------------------------------------------
(* The switch implements the publish/subscribe service.                    *)

LEMMA InitRefines == Init => Service!Init
PROOF
<1> SUFFICES ASSUME Init PROVE Service!Init
    OBVIOUS
<1>1. \A t \in Topics : {s.conn : s \in subscriptions[t]} = {}
    BY DEF Init
<1>2. [t \in Topics |-> {s.conn : s \in subscriptions[t]}] = [t \in Topics |-> {}]
    BY <1>1
<1>3. {c \in Conns : task[c] = "ended"} = {}
    BY DEF Init
<1> QED BY <1>2, <1>3 DEF Init, Service!Init

LEMMA InvisibleRefines ==
    ASSUME UNCHANGED <<subscriptions, task, emitted, routed, forwarded>>
    PROVE  [Service!Next]_(Service!vars)
PROOF BY DEF Service!vars

LEMMA LeaveRefines ==
    ASSUME UNCHANGED <<task, emitted, routed, forwarded>>,
           \A t \in Topics : subscriptions'[t] \subseteq subscriptions[t]
    PROVE  [Service!Next]_(Service!vars)
PROOF
<1> DEFINE m == [t \in Topics |-> {s.conn : s \in subscriptions[t]}]
<1>1. \A t \in Topics : m'[t] = {s.conn : s \in subscriptions'[t]}
    OBVIOUS
<1>2. \A t \in Topics : {s.conn : s \in subscriptions'[t]} \subseteq {s.conn : s \in subscriptions[t]}
    BY Zenon
<1>3. /\ \A t \in Topics : m'[t] \subseteq m[t]
      /\ m' = [t \in Topics |-> m'[t]]
    BY <1>1, <1>2
<1>4. Service!Leave
    BY <1>3 DEF Service!Leave
<1> QED BY <1>4 DEF Service!Next

LEMMA JoinRefines ==
    ASSUME TypeOK, UNCHANGED <<task, emitted, routed, forwarded>>, NEW t \in Topics, NEW r,
           r.conn \in Conns, subscriptions' = [subscriptions EXCEPT ![t] = @ \cup {r}]
    PROVE  [Service!Next]_(Service!vars)
PROOF
<1> DEFINE m == [u \in Topics |-> {s.conn : s \in subscriptions[u]}]
<1>1. subscriptions \in [Topics -> SUBSET Subscription]
    BY DEF TypeOK
<1>2. /\ subscriptions'[t] = subscriptions[t] \cup {r}
      /\ \A u \in Topics \ {t} : subscriptions'[u] = subscriptions[u]
    BY <1>1
<1>3. {s.conn : s \in subscriptions[t] \cup {r}} = {s.conn : s \in subscriptions[t]} \cup {r.conn}
    BY Zenon
<1>4. /\ m'[t] = m[t] \cup {r.conn}
      /\ \A u \in Topics \ {t} : m'[u] = m[u]
    BY <1>2, <1>3
<1>5. m' = [m EXCEPT ![t] = @ \cup {r.conn}]
    BY <1>4
<1>6. Service!Join(r.conn, t)
    BY <1>5 DEF Service!Join
<1> QED BY <1>6 DEF Service!Next

LEMMA EndRefines ==
    ASSUME TypeOK, NEW c \in Conns, ConnectionTaskEnds(c)
    PROVE  [Service!Next]_(Service!vars)
PROOF
<1> DEFINE g == {d \in Conns : task[d] = "ended"}
<1>1. /\ task' = [task EXCEPT ![c] = "ended"]
      /\ UNCHANGED <<subscriptions, emitted, routed, forwarded>>
    BY DEF ConnectionTaskEnds, switchVars, boundVars
<1>2. g' = g \cup {c}
    BY <1>1 DEF TypeOK
<1>3. Service!End(c)
    BY <1>1, <1>2 DEF Service!End
<1> QED BY <1>3 DEF Service!Next

(* The members of a topic are the connections registered for it. *)
LEMMA MembersRegistered ==
    ASSUME TypeOK, NEW t \in Topics
    PROVE  {s.conn : s \in subscriptions[t]} = {c \in Conns : Registered(c, t)}
PROOF
<1>1. subscriptions[t] \subseteq Subscription
    BY DEF TypeOK
<1>2. \A s \in subscriptions[t] : s.conn \in Conns
    BY <1>1 DEF Subscription
<1> QED BY <1>2, Zenon DEF Registered

LEMMA EmitRefines ==
    ASSUME TypeOK, NEW t \in Topics, Emit(t)
    PROVE  [Service!Next]_(Service!vars)
PROOF
<1> DEFINE m == [u \in Topics |-> {s.conn : s \in subscriptions[u]}]
<1>1. /\ emitted' = Append(emitted,
           [topic |-> t, registered |-> {c \in Conns : Registered(c, t)}])
      /\ UNCHANGED <<subscriptions, task, routed, forwarded>>
    BY DEF Emit, connVars, switchVars
<1>2. m[t] = {c \in Conns : Registered(c, t)}
    BY MembersRegistered
<1>3. emitted' = Append(emitted, [topic |-> t, registered |-> m[t]])
    BY <1>1, <1>2
<1>4. m' = m
    BY <1>1
<1>5. Service!Publish(t)
    BY <1>1, <1>3, <1>4 DEF Service!Publish
<1> QED BY <1>5 DEF Service!Next

(* The oldest waiting event is the next of the service, and at most one      *)
(* membership has changed since it was emitted. *)
LEMMA RouteRefines ==
    ASSUME SwitchInv, RouteEvent
    PROVE  [Service!Next]_(Service!vars)
PROOF
<1> DEFINE e == Head(new_event)
           t == emitted[e].topic
           m == [u \in Topics |-> {s.conn : s \in subscriptions[u]}]
           g == {c \in Conns : task[c] = "ended"}
<1>1. /\ subscriptions' = [subscriptions EXCEPT ![t] = {s \in @ : task[s.conn] = "running"}]
      /\ routed' = Append(routed, {c \in Conns : task[c] = "running" /\ Registered(c, t)})
      /\ UNCHANGED <<task, emitted, forwarded>>
    BY DEF RouteEvent, connVars, boundVars
<1>2. e \in DOMAIN emitted /\ e \in Range(new_event) /\ e = Len(routed) + 1 /\ t \in Topics
    BY RouteFacts
<1>3. Len(routed) < Len(emitted)
    BY <1>2, QueueFacts DEF SwitchInv
<1>4. TypeOK /\ subscriptions \in [Topics -> SUBSET Subscription]
      /\ task \in [Conns -> {"running", "ended"}]
    BY DEF SwitchInv, TypeOK
<1> HIDE DEF e
<1>5. m[t] = {c \in Conns : Registered(c, t)}
    BY <1>2, <1>4, MembersRegistered
<1>6. Conns \ g = Running
    BY <1>4 DEF Running
<1>7. {c \in Conns : task[c] = "running" /\ Registered(c, t)} = m[t] \ g
    BY <1>4, <1>5
<1>8. m' = [m EXCEPT ![t] = @ \ g]
    <2>1. \A u \in Topics \ {t} : subscriptions'[u] = subscriptions[u]
        BY <1>1, <1>4
    <2>2. subscriptions'[t] = {s \in subscriptions[t] : task[s.conn] = "running"}
        BY <1>1, <1>2, <1>4
    <2>3. \A s \in subscriptions[t] : s.conn \in Conns
        BY <1>2, <1>4 DEF Subscription
    <2>4. \A s \in subscriptions[t] : task[s.conn] = "running" <=> s.conn \notin g
        BY <1>4, <2>3
    <2> HIDE DEF g
    <2>5. {s.conn : s \in {x \in subscriptions[t] : task[x.conn] = "running"}}
            = {s.conn : s \in subscriptions[t]} \ g
        BY <2>4, Zenon
    <2>6. m'[t] = m[t] \ g /\ \A u \in Topics \ {t} : m'[u] = m[u]
        BY <1>2, <2>1, <2>2, <2>5
    <2> QED BY <2>6
<1>9. ASSUME NEW c \in Running, NEW d \in Running,
             ~(c \in m[t] <=> c \in emitted[e].registered),
             ~(d \in m[t] <=> d \in emitted[e].registered)
      PROVE  c = d
    <2>1. c \in Conns /\ d \in Conns
        BY DEF Running
    <2>2. (c \in m[t] <=> Registered(c, t)) /\ (d \in m[t] <=> Registered(d, t))
        BY <1>5, <2>1
    <2> HIDE DEF m
    <2>3. Late(e, c) /\ Late(e, d)
        BY <1>9, <2>2 DEF Late, Overtook
    <2> QED BY <1>2, <2>3, Zenon DEF SwitchInv, AudienceKept
<1>10. Service!Route
    <2>1. \A c \in Conns \ g, d \in Conns \ g :
            /\ ~(c \in m[t] <=> c \in emitted[e].registered)
            /\ ~(d \in m[t] <=> d \in emitted[e].registered)
            => c = d
        BY <1>6, <1>9
    <2>2. routed' = Append(routed, m[t] \ g) /\ g' = g
        BY <1>1, <1>7
    <2> HIDE DEF m, g
    <2> QED BY <1>1, <1>2, <1>3, <1>8, <2>1, <2>2 DEF Service!Route, Service!Changed, m, g
<1> QED BY <1>10 DEF Service!Next

(* The event at the head of a connection's queue is the oldest it is due. *)
LEMMA ForwardRefines ==
    ASSUME SwitchInv, NEW c \in Conns, ForwardEvent(c)
    PROVE  [Service!Next]_(Service!vars)
PROOF
<1>1. UNCHANGED <<subscriptions, task, emitted, routed>> /\ task[c] = "running"
    BY DEF ForwardEvent, switchVars, boundVars
<1>2. CASE client[c] # "there"
    BY <1>1, <1>2, InvisibleRefines DEF ForwardEvent
<1>3. CASE client[c] = "there"
    <2> DEFINE e == Head(events[c])
               due == {x \in DOMAIN routed : c \in routed[x] /\ x \notin Range(forwarded[c])}
    <2>1. forwarded' = [forwarded EXCEPT ![c] = Append(@, e)]
        BY <1>3 DEF ForwardEvent
    <2>2. events[c] \in Seq(EventIds) /\ events[c] # <<>>
        BY DEF SwitchInv, TypeOK, ForwardEvent
    <2>3. Increasing(events[c]) /\ Before(Range(forwarded[c]), Range(events[c]))
        BY DEF SwitchInv, EventsInOrder
    <2>4. /\ e \in Range(events[c]) /\ e \in EventIds
          /\ Before({e}, Range(Tail(events[c])))
          /\ Range(events[c]) = Range(Tail(events[c])) \cup {e}
        BY <2>2, <2>3, IncreasingTail, TailRange
    <2> HIDE DEF e
    <2>5. e \in Nat
        BY <2>4, EventBoundsAssumption DEF EventIds
    <2>6. e \in DOMAIN routed /\ c \in routed[e] /\ e \notin Range(forwarded[c])
        BY <2>3, <2>4, <2>5 DEF SwitchInv, OnlyToAudience, Before
    <2>7. ASSUME NEW d \in DOMAIN routed, c \in routed[d], d \notin Range(forwarded[c])
          PROVE  e <= d
        <3>1. d \in Range(events[c])
            BY <1>1, <1>3, <2>7 DEF SwitchInv, NoneLeftOut, Attending, Running
        <3>2. d = e \/ e < d
            BY <2>4, <3>1 DEF Before
        <3>3. d \in EventIds
            BY <2>2, <3>1, RangeType
        <3> QED BY <2>5, <3>2, <3>3, EventBoundsAssumption DEF EventIds
    <2>8. e \in due /\ \A d \in due : e <= d
        BY <2>6, <2>7
    <2>9. due = Service!Due(c)
        <3>1. Service!Range(forwarded[c]) = Range(forwarded[c])
            BY DEF Service!Range, Range
        <3> QED BY <3>1 DEF Service!Due
    <2> HIDE DEF due
    <2>10. Service!Deliver(c)
        BY <1>1, <2>1, <2>8, <2>9 DEF Service!Deliver
    <2> QED BY <2>10 DEF Service!Next
<1> QED BY <1>2, <1>3

(* Every step of the switch and of the connections is one of the service, or *)
(* none. *)
LEMMA NextRefines == SwitchInv /\ [Next]_vars => [Service!Next]_(Service!vars)
PROOF
<1> SUFFICES ASSUME SwitchInv, [Next]_vars PROVE [Service!Next]_(Service!vars)
    OBVIOUS
<1>1. CASE UNCHANGED vars
    BY <1>1, InvisibleRefines DEF vars, connVars, switchVars, boundVars
<1>2. ASSUME NEW c \in Conns, HandlerOp(c) \/ ClientLeaves(c) \/ ProxyStep(c)
      PROVE  [Service!Next]_(Service!vars)
    <2>1. UNCHANGED <<subscriptions, task, emitted, routed, forwarded>>
        BY <1>2 DEF HandlerOp, Proxy, ClientLeaves, ProxyStep, ProxySubscribe,
                    ProxyUnsubscribe, TakeProxied, switchVars, boundVars
    <2> QED BY <2>1, InvisibleRefines
<1>3. ASSUME NEW c \in Conns, ConnectionTaskEnds(c) PROVE [Service!Next]_(Service!vars)
    BY <1>3, EndRefines DEF SwitchInv
<1>4. ASSUME NEW t \in Topics, Emit(t) PROVE [Service!Next]_(Service!vars)
    BY <1>4, EmitRefines DEF SwitchInv
<1>5. ASSUME NotificationStep PROVE [Service!Next]_(Service!vars)
    <2>1. PICK n : HandleSubscribe(n) \/ HandleUnsubscribe(n)
        BY <1>5 DEF NotificationStep
    <2> DEFINE r == [id |-> n.id, conn |-> n.conn]
    <2>2. /\ UNCHANGED <<task, emitted, routed, forwarded>> /\ n.topic \in Topics
          /\ n.conn \in Conns /\ n.op \in {"Subscribe", "Unsubscribe"}
          /\ subscriptions' = [subscriptions EXCEPT ![n.topic] =
               IF n.op = "Subscribe" THEN @ \cup {r} ELSE {s \in @ : s.id # n.id}]
        BY <2>1, HandleFacts
    <2>3. r.conn \in Conns
        BY <2>2
    <2> HIDE DEF r
    <2>4. CASE n.op = "Subscribe"
        <3>1. subscriptions' = [subscriptions EXCEPT ![n.topic] = @ \cup {r}]
            BY <2>2, <2>4
        <3> QED BY <2>2, <2>3, <3>1, JoinRefines DEF SwitchInv
    <2>5. CASE n.op = "Unsubscribe"
        <3>1. \A u \in Topics : subscriptions'[u] \subseteq subscriptions[u]
            BY <2>2, <2>5 DEF SwitchInv, TypeOK
        <3> QED BY <2>2, <3>1, LeaveRefines
    <2> QED BY <2>2, <2>4, <2>5
<1>6. ASSUME SwitchTaskEnds PROVE [Service!Next]_(Service!vars)
    <2>1. /\ UNCHANGED <<task, emitted, routed, forwarded>>
          /\ \A u \in Topics : subscriptions'[u] = {}
        BY <1>6 DEF SwitchTaskEnds, connVars, boundVars
    <2> QED BY <2>1, LeaveRefines
<1>7. CASE Next
    BY <1>2, <1>3, <1>4, <1>5, <1>6, <1>7, ForwardRefines, RouteRefines DEF Next
<1> QED BY <1>1, <1>7

(* Queues, ids and tasks that may end implement publish/subscribe: an event  *)
(* goes to the connections registered when it is routed, at most one of them *)
(* not as it was at the emission, and a connection is given its events in    *)
(* the order of emission, none twice and none left out. *)
THEOREM Refinement == Spec => ImplementsPubSub
PROOF BY SwitchInvariant, InitRefines, NextRefines, PTL
      DEF Spec, ImplementsPubSub, Service!Spec
=============================================================================
