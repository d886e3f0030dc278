---------------------------- MODULE EventSwitch ----------------------------
(***************************************************************************)
(* Events: RPC handlers (un)subscribe their connection to topics, the      *)
(* connection's task passes that on to the event switch, and the switch    *)
(* routes the events the application emits to the subscribed connections   *)
(* and tells the application which topics come and go (src/server.rs).     *)
(*                                                                         *)
(* An event is its position in the order of emission. Subscription ids are *)
(* 16 random bytes in the code; here they are fresh.                       *)
(***************************************************************************)
EXTENDS Integers, Sequences, FiniteSets, Functions

CONSTANTS
    Conns,       \* connections the server has established
    Topics,
    NoSub,       \* no entry in a connection's map
    MaxOps,      \* bound on add() and remove() calls
    MaxEvents,   \* bound on emit() calls
    Faults       \* which tasks may end: "ConnectionTask", "SwitchTask"

ASSUME NoSubAssumption == NoSub \notin Nat
ASSUME EventFaultsAssumption == Faults \subseteq {"ConnectionTask", "SwitchTask"}
ASSUME EventBoundsAssumption == MaxOps \in Nat /\ MaxEvents \in Nat

VARIABLES
    client,          \* is the client of a connection still there?
    task,            \* is a connection's task still running?
    proxied,         \* channel: handlers -> connection task
    local,           \* connection task: topic -> subscription id
    forwarded,       \* history: events written to the client
    conn_event_first,\* did an event wait when the task came to its select!?
    notifications,   \* channel: connection tasks -> switch
    new_event,       \* channel: application and handlers -> switch
    events,          \* channel: switch -> connection task
    running,         \* is the switch's task still running?
    subscriptions,   \* switch: topic -> set of (id, connection)
    topics,          \* switch: the topics its map has an entry for
    topic_notif,     \* channel: switch -> application, never drained here
    event_first,     \* did an event wait when the switch came to its select!?
    routed,          \* history: whom each event was sent to, in order
    emitted,         \* history: every event, and who was registered then
    ops, next_id     \* bound, and source of fresh subscription ids

connVars == <<client, task, proxied, local, forwarded, conn_event_first>>
chanVars == <<notifications, new_event, events>>
switchVars == <<running, subscriptions, topics, topic_notif, event_first, routed>>
boundVars == <<emitted, ops, next_id>>
vars == <<connVars, chanVars, switchVars, boundVars>>

SubIds == Nat \ {0}
EventIds == 1..MaxEvents
Proxied == [op : {"Subscribe", "Unsubscribe"}, topic : Topics]
Notification == [op : {"Subscribe", "Unsubscribe"}, topic : Topics,
                 id : SubIds, conn : Conns]
Subscription == [id : SubIds, conn : Conns]

Init ==
    /\ client = [c \in Conns |-> "there"]
    /\ task = [c \in Conns |-> "running"]
    /\ proxied = [c \in Conns |-> <<>>]
    /\ local = [c \in Conns |-> [t \in Topics |-> NoSub]]
    /\ forwarded = [c \in Conns |-> <<>>]
    /\ conn_event_first = [c \in Conns |-> FALSE]
    /\ notifications = <<>>
    /\ new_event = <<>>
    /\ events = [c \in Conns |-> <<>>]
    /\ running = TRUE
    /\ subscriptions = [t \in Topics |-> {}]
    /\ topics = {}
    /\ topic_notif = <<>>
    /\ event_first = FALSE
    /\ routed = <<>>
    /\ emitted = <<>>
    /\ ops = 0
    /\ next_id = 1

-----------------------------------------------------------------------------
(* Handlers and the application.                                           *)

(* HandlerSubscriptionManager::add and remove, from a handler of c. *)
Proxy(c, op, t) ==
    /\ task[c] = "running"
    /\ ops < MaxOps
    /\ ops' = ops + 1
    /\ proxied' = [proxied EXCEPT ![c] = Append(@, [op |-> op, topic |-> t])]
    /\ UNCHANGED <<client, task, local, forwarded, conn_event_first, chanVars,
                   switchVars, emitted, next_id>>

Registered(c, t) == \E s \in subscriptions[t] : s.conn = c

(* EventEmitter::emit. The history notes which connections the switch holds  *)
(* to be subscribed at this moment. *)
Emit(t) ==
    /\ Len(emitted) < MaxEvents
    /\ emitted' = Append(emitted,
         [topic |-> t,
          registered |-> {c \in Conns : Registered(c, t)}])
    /\ new_event' = IF running THEN Append(new_event, Len(emitted) + 1)
                    ELSE new_event
    /\ UNCHANGED <<connVars, notifications, events, switchVars, ops, next_id>>

(* The client disconnects or is lost: sends to it fail from now on, but the  *)
(* task only stops seeing messages on its stream and never ends. *)
ClientLeaves(c) ==
    /\ client[c] = "there"
    /\ client' = [client EXCEPT ![c] = "gone"]
    /\ UNCHANGED <<task, proxied, local, forwarded, conn_event_first, chanVars,
                   switchVars, boundVars>>

-----------------------------------------------------------------------------
(* The connection task: branches of its biased select!. The branches are    *)
(* polled one after the other and other workers run in between, so a later  *)
(* branch may be taken although an earlier one has become ready since its   *)
(* poll. Channels only grow between two takes of their reader: an earlier    *)
(* branch comes first for certain when it was ready as the loop came back.   *)

(* An event from the switch goes to the client; a failed send is forgotten. *)
ForwardEvent(c) ==
    /\ task[c] = "running"
    /\ events[c] # <<>>
    /\ events' = [events EXCEPT ![c] = Tail(@)]
    /\ forwarded' = IF client[c] = "there"
                      THEN [forwarded EXCEPT ![c] = Append(@, Head(events[c]))]
                      ELSE forwarded
    /\ conn_event_first' = [conn_event_first EXCEPT ![c] = events'[c] # <<>>]
    /\ UNCHANGED <<client, task, proxied, local, notifications, new_event,
                   switchVars, boundVars>>

(* A proxied notification is taken unless an event was already waiting when *)
(* the loop came back to its select!. *)
TakeProxied(c, op, t) ==
    /\ task[c] = "running"
    /\ ~conn_event_first[c]
    /\ proxied[c] # <<>>
    /\ Head(proxied[c]) = [op |-> op, topic |-> t]
    /\ proxied' = [proxied EXCEPT ![c] = Tail(@)]
    /\ conn_event_first' = [conn_event_first EXCEPT ![c] = events[c] # <<>>]
    /\ UNCHANGED <<client, task, forwarded, new_event, events, switchVars,
                   emitted, ops>>

(* Mutant: a connection that is subscribed subscribes again. *)
NeverSubscribed(c, t) == TRUE

(* !subscriptions.contains_key(&topic) *)
NotSubscribed(c, t) == local[c][t] = NoSub

(* Mutant: the buffer of the id is never filled. *)
ZeroId == 0

(* rand::thread_rng().fill_bytes(&mut id) *)
FreshId == next_id

(* Subscribe: without effect when already subscribed; undone when the       *)
(* switch is gone. *)
ProxySubscribe(c, t) ==
    /\ TakeProxied(c, "Subscribe", t)
    /\ IF NotSubscribed(c, t) /\ running
         THEN /\ local' = [local EXCEPT ![c][t] = FreshId]
              /\ next_id' = next_id + 1
              /\ notifications' = Append(notifications,
                   [op |-> "Subscribe", topic |-> t, id |-> FreshId, conn |-> c])
         ELSE UNCHANGED <<local, next_id, notifications>>

(* Mutant: the local entry goes, the switch is not told. *)
UnsubscribeLocally(c, t) ==
    /\ TakeProxied(c, "Unsubscribe", t)
    /\ local' = [local EXCEPT ![c][t] = NoSub]
    /\ UNCHANGED <<notifications, next_id>>

(* Unsubscribe: without effect when not subscribed; undone when the switch  *)
(* is gone. *)
ProxyUnsubscribe(c, t) ==
    /\ TakeProxied(c, "Unsubscribe", t)
    /\ IF local[c][t] # NoSub /\ running
         THEN /\ local' = [local EXCEPT ![c][t] = NoSub]
              /\ notifications' = Append(notifications,
                   [op |-> "Unsubscribe", topic |-> t, id |-> local[c][t], conn |-> c])
         ELSE UNCHANGED <<local, notifications>>
    /\ UNCHANGED next_id

(* The task ends and drops its ends of the channels. *)
ConnectionTaskEnds(c) ==
    /\ "ConnectionTask" \in Faults
    /\ task[c] = "running"
    /\ task' = [task EXCEPT ![c] = "ended"]
    /\ proxied' = [proxied EXCEPT ![c] = <<>>]
    /\ events' = [events EXCEPT ![c] = <<>>]
    /\ local' = [local EXCEPT ![c] = [t \in Topics |-> NoSub]]
    /\ conn_event_first' = [conn_event_first EXCEPT ![c] = FALSE]
    /\ UNCHANGED <<client, forwarded, notifications, new_event, switchVars,
                   boundVars>>

-----------------------------------------------------------------------------
(* The event switch: branches of its biased select!.                       *)

(* Mutant: the loop over the subscribers stops at one whose task has ended. *)
CopiesBeforeEnded(c, t, e) ==
    IF \E s \in subscriptions[t] : task[s.conn] = "ended" THEN <<>> ELSE <<e>>

(* connection.send(event.clone()) for every subscription of c to t. *)
Copies(c, t, e) ==
    [i \in 1..Cardinality({s \in subscriptions[t] : s.conn = c}) |-> e]

(* An event goes to every subscription of its topic; subscriptions of ended *)
(* tasks are removed, the entry of the topic stays. *)
RouteEvent ==
    /\ running
    /\ new_event # <<>>
    /\ LET e == Head(new_event)
           t == emitted[e].topic
       IN  /\ events' = [c \in Conns |->
                IF task[c] = "running" THEN events[c] \o Copies(c, t, e)
                ELSE events[c]]
           /\ subscriptions' = [subscriptions EXCEPT ![t] =
                {s \in @ : task[s.conn] = "running"}]
           /\ routed' = Append(routed,
                {c \in Conns : task[c] = "running" /\ Registered(c, t)})
    /\ new_event' = Tail(new_event)
    /\ event_first' = (new_event' # <<>>)
    /\ UNCHANGED <<connVars, notifications, running, topics, topic_notif,
                   boundVars>>

(* Mutant: the select! of the switch is not biased. *)
AnyTime == TRUE

(* biased: new_event_rx is polled first. An event that was there when the   *)
(* switch came back to its select! is taken first; one emitted after the     *)
(* poll of new_event_rx waits while the poll of the second receiver still    *)
(* takes a notification, and is seen when the loop comes back. *)
NoEventSeen == ~event_first

TakeNotification(n) ==
    /\ running
    /\ NoEventSeen
    /\ notifications # <<>>
    /\ n = Head(notifications)
    /\ notifications' = Tail(notifications)
    /\ event_first' = (new_event # <<>>)
    /\ UNCHANGED <<connVars, new_event, events, running, routed, boundVars>>

Notify(kind, t) == Append(topic_notif, [kind |-> kind, topic |-> t])

(* The first subscription creates the topic. *)
HandleSubscribe(n) ==
    /\ TakeNotification(n)
    /\ n.op = "Subscribe"
    /\ subscriptions' = [subscriptions EXCEPT ![n.topic] =
                           @ \cup {[id |-> n.id, conn |-> n.conn]}]
    /\ topics' = topics \cup {n.topic}
    /\ topic_notif' = IF Cardinality(subscriptions'[n.topic]) = 1
                        THEN Notify("Created", n.topic) ELSE topic_notif

(* Mutant: the test for the last subscription is made before the removal. *)
HandleUnsubscribeEarlyTest(n) ==
    /\ TakeNotification(n)
    /\ n.op = "Unsubscribe"
    /\ subscriptions' = [subscriptions EXCEPT ![n.topic] = {s \in @ : s.id # n.id}]
    /\ IF subscriptions[n.topic] = {}
         THEN topics' = topics \ {n.topic} /\ topic_notif' = Notify("Removed", n.topic)
         ELSE UNCHANGED <<topics, topic_notif>>

(* The last subscription removes the topic. *)
HandleUnsubscribe(n) ==
    /\ TakeNotification(n)
    /\ n.op = "Unsubscribe"
    /\ IF n.topic \in topics
         THEN subscriptions' = [subscriptions EXCEPT ![n.topic] =
                                  {s \in @ : s.id # n.id}]
         ELSE UNCHANGED subscriptions
    /\ IF n.topic \in topics /\ subscriptions'[n.topic] = {}
         THEN /\ topics' = topics \ {n.topic}
              /\ topic_notif' = Notify("Removed", n.topic)
         ELSE UNCHANGED <<topics, topic_notif>>

(* The task ends and drops its ends of the channels. *)
SwitchTaskEnds ==
    /\ "SwitchTask" \in Faults
    /\ running
    /\ running' = FALSE
    /\ notifications' = <<>>
    /\ new_event' = <<>>
    /\ subscriptions' = [t \in Topics |-> {}]
    /\ topics' = {}
    /\ event_first' = FALSE
    /\ UNCHANGED <<connVars, events, topic_notif, routed, boundVars>>

-----------------------------------------------------------------------------
HandlerOp(c) ==
    \E t \in Topics, op \in {"Subscribe", "Unsubscribe"} : Proxy(c, op, t)
ProxyStep(c) == \E t \in Topics : ProxySubscribe(c, t) \/ ProxyUnsubscribe(c, t)
NotificationStep ==
    \E n \in Range(notifications) : HandleSubscribe(n) \/ HandleUnsubscribe(n)

Next ==
    \/ \E c \in Conns :
         \/ HandlerOp(c)
         \/ ClientLeaves(c)
         \/ ForwardEvent(c)
         \/ ProxyStep(c)
         \/ ConnectionTaskEnds(c)
    \/ \E t \in Topics : Emit(t)
    \/ RouteEvent
    \/ NotificationStep
    \/ SwitchTaskEnds

Spec == Init /\ [][Next]_vars

(* Tokio polls every ready task. Since emit() calls are bounded, the biased *)
(* branches do not starve the others for ever. *)
Fairness ==
    /\ \A c \in Conns : WF_vars(ForwardEvent(c)) /\ WF_vars(ProxyStep(c))
    /\ WF_vars(RouteEvent)
    /\ WF_vars(NotificationStep)

FairSpec == Spec /\ Fairness

-----------------------------------------------------------------------------
Received(c) == forwarded[c] \o events[c]

(* Every variable has its type. *)
TypeOK ==
    /\ client \in [Conns -> {"there", "gone"}]
    /\ task \in [Conns -> {"running", "ended"}]
    /\ proxied \in [Conns -> Seq(Proxied)]
    /\ local \in [Conns -> [Topics -> SubIds \cup {NoSub}]]
    /\ notifications \in Seq(Notification)
    /\ new_event \in Seq(EventIds)
    /\ forwarded \in [Conns -> Seq(EventIds)]
    /\ conn_event_first \in [Conns -> BOOLEAN]
    /\ events \in [Conns -> Seq(EventIds)]
    /\ running \in BOOLEAN
    /\ subscriptions \in [Topics -> SUBSET Subscription]
    /\ topics \in SUBSET Topics
    /\ topic_notif \in Seq([kind : {"Created", "Removed"}, topic : Topics])
    /\ event_first \in BOOLEAN
    /\ routed \in Seq(SUBSET Conns)
    /\ emitted \in Seq([topic : Topics, registered : SUBSET Conns])
    /\ ops \in 0..MaxOps
    /\ next_id \in SubIds

PendingOf(c, t) ==
    {i \in DOMAIN notifications :
        notifications[i].conn = c /\ notifications[i].topic = t}

(* The two copies of the subscriptions agree: what the switch knows of a     *)
(* running connection, or will know once it has read its channel, is what    *)
(* the connection's own map says. *)
SwitchAgrees ==
    running =>
        \A c \in Conns, t \in Topics :
            task[c] = "running" =>
                IF PendingOf(c, t) = {}
                THEN {s.id : s \in {x \in subscriptions[t] : x.conn = c}}
                        = {local[c][t]} \ {NoSub}
                ELSE LET last == CHOOSE i \in PendingOf(c, t) :
                                   \A j \in PendingOf(c, t) : j <= i
                     IN  local[c][t] = IF notifications[last].op = "Subscribe"
                                         THEN notifications[last].id ELSE NoSub

(* What the abstract publish/subscribe service sees of the switch. *)
Service == INSTANCE PubSub
             WITH members <- [t \in Topics |-> {s.conn : s \in subscriptions[t]}],
                  gone <- {c \in Conns : task[c] = "ended"},
                  published <- emitted,
                  audience <- routed,
                  delivered <- forwarded

(* Queues, ids, two biased select!s and tasks implement publish/subscribe:   *)
(* an event goes to the members its topic has when it is routed, at most one *)
(* of which has joined or left since it was emitted, and every connection is *)
(* given its events in the order of emission, none twice and none left out. *)
ImplementsPubSub == Service!Spec

Running == {c \in Conns : task[c] = "running"}
Attending == {c \in Running : client[c] = "there"}

(* A connection gets an event although it was not registered for it when it  *)
(* was emitted, or the other way round. *)
Overtook(e, c, gets) == ~(gets <=> c \in emitted[e].registered)

(* An event reaches the connections the switch had registered for its topic  *)
(* when it was emitted, whatever is queued at the switch by then: at most    *)
(* one (un)subscription, already past the poll of new_event_rx, overtakes it. *)
RoutedWithinOne ==
    running =>
        \A e \in DOMAIN emitted : \A c, d \in Attending :
            /\ e \notin Range(new_event)
            /\ Overtook(e, c, e \in Range(Received(c)))
            /\ Overtook(e, d, e \in Range(Received(d)))
            => c = d

NotifsOf(t) == {i \in DOMAIN topic_notif : topic_notif[i].topic = t}

IsFirst(i, P) == i \in P /\ \A j \in P : i <= j
IsLast(i, P) == i \in P /\ \A j \in P : j <= i
Adjacent(i, j, P) == i \in P /\ j \in P /\ i < j /\ \A k \in P : k <= i \/ j <= k

(* The messages m at the positions P create and remove in turn, create      *)
(* first, and end with what subs now is. *)
Alternate(P, m, subs) ==
    /\ P = {} => subs = {}
    /\ \A i \in P : IsFirst(i, P) => m[i].kind = "Created"
    /\ \A i \in P : IsLast(i, P) => (m[i].kind = "Created" <=> subs # {})
    /\ \A i, j \in P : Adjacent(i, j, P) => m[i].kind # m[j].kind

(* The application sees a topic created and removed in turn, created first,  *)
(* and the last word is whether the switch has a subscription to it. *)
TopicsAlternate ==
    running => \A t \in Topics : Alternate(NotifsOf(t), topic_notif, subscriptions[t])

-----------------------------------------------------------------------------
(* The parts of the inductive invariant behind the properties above.       *)

SubsOf(c, t) == {s \in subscriptions[t] : s.conn = c}
IdsOf(c, t) == {s.id : s \in SubsOf(c, t)}

(* The subscription ids of a connection, wherever they are stored or on      *)
(* their way. *)
OwnIds(c) ==
    (UNION {IdsOf(c, t) : t \in Topics})
        \cup {n.id : n \in {m \in Range(notifications) : m.conn = c}}
        \cup ({local[c][t] : t \in Topics} \ {NoSub})

(* An id was generated before, and is of one connection only. *)
IdsHaveOneOwner ==
    \A c \in Conns : \A i \in OwnIds(c) :
        i < next_id /\ \A d \in Conns \ {c} : i \notin OwnIds(d)

(* The switch has an entry for every topic with a subscription. *)
TopicsHaveEntries ==
    \A t \in Topics : IsFiniteSet(subscriptions[t]) /\ (subscriptions[t] # {} => t \in topics)

(* The notifications m at the positions P, one after the other, take the     *)
(* switch's ids to the connection's own entry. *)
Transforms(P, m, ids, entry) ==
    /\ P = {} => ids = {entry} \ {NoSub}
    /\ P # {} => \E i \in P : IsLast(i, P)
    /\ \A i \in P : IsFirst(i, P) =>
         ids = IF m[i].op = "Subscribe" THEN {} ELSE {m[i].id}
    /\ \A i \in P : IsLast(i, P) =>
         entry = IF m[i].op = "Subscribe" THEN m[i].id ELSE NoSub
    /\ \A i, j \in P : Adjacent(i, j, P) =>
         m[i].op # m[j].op /\ (m[i].op = "Subscribe" => m[j].id = m[i].id)

(* So do the ones about a topic that the switch has not read yet. *)
PendingTransforms(c, t) ==
    Transforms(PendingOf(c, t), notifications, IdsOf(c, t), local[c][t])

(* The switch holds at most one subscription of it to a topic. *)
OneSubscription(c, t) == \A x, y \in SubsOf(c, t) : x = y

SubscriptionsInv ==
    running =>
        \A c \in Conns, t \in Topics :
            task[c] = "running" => PendingTransforms(c, t) /\ OneSubscription(c, t)

Increasing(q) == \A i, j \in DOMAIN q : i < j => q[i] < q[j]
Before(A, B) == \A a \in A, b \in B : a < b

(* Events keep the order of emission through the three queues: the switch's  *)
(* holds those after the routed ones, the connections' hold routed ones. *)
EventsInOrder ==
    /\ \A i \in DOMAIN new_event : new_event[i] = Len(routed) + i
    /\ Len(routed) + Len(new_event) <= Len(emitted)
    /\ running => Len(routed) + Len(new_event) = Len(emitted)
    /\ \A c \in Conns :
         /\ Increasing(forwarded[c]) /\ Increasing(events[c])
         /\ Before(Range(forwarded[c]), Range(events[c]))

(* The subscription of c to a waiting event's topic has changed since. *)
Late(e, c) == Overtook(e, c, Registered(c, emitted[e].topic))

(* While an event waits to be routed, the switch's subscriptions are those   *)
(* of the moment it was emitted, except for ended tasks and for one change,   *)
(* after which the event is the switch's next. *)
AudienceKept ==
    \A e \in Range(new_event) : \A c, d \in Running :
        (Late(e, c) => event_first) /\ (Late(e, c) /\ Late(e, d) => c = d)

(* So was the change that came before a routed event at most one. *)
AudienceWithinOne ==
    \A e \in DOMAIN routed : \A c, d \in Running :
        Overtook(e, c, c \in routed[e]) /\ Overtook(e, d, d \in routed[e]) => c = d

(* A connection is given no event that was not routed to it. *)
OnlyToAudience ==
    \A c \in Conns : \A e \in Range(forwarded[c]) \cup Range(events[c]) :
        e \in DOMAIN routed /\ c \in routed[e]

(* An event routed to a connection is in its queue or at its client. *)
NoneLeftOut ==
    \A c \in Attending : \A e \in DOMAIN routed :
        c \in routed[e] => e \in Range(forwarded[c]) \cup Range(events[c])

(* What the application is told of the topics is complete while no task ends. *)
NotifsHaveLast ==
    \A t \in Topics : NotifsOf(t) # {} => \E i \in NotifsOf(t) : IsLast(i, NotifsOf(t))

TopicNotifsInv ==
    "ConnectionTask" \notin Faults =>
        TopicsAlternate /\ \A c \in Conns : task[c] = "running"

SwitchInv ==
    /\ TypeOK
    /\ IdsHaveOneOwner
    /\ TopicsHaveEntries
    /\ SubscriptionsInv
    /\ EventsInOrder
    /\ AudienceKept
    /\ AudienceWithinOne
    /\ OnlyToAudience
    /\ NoneLeftOut
    /\ NotifsHaveLast
    /\ TopicNotifsInv

-----------------------------------------------------------------------------
(* The connection's map and the switch come to agree, one way or the other. *)
SubscriptionTakesEffect ==
    \A c \in Conns, t \in Topics :
        /\ local[c][t] # NoSub
             ~> (Registered(c, t) \/ local[c][t] = NoSub \/ ~running)
        /\ local[c][t] = NoSub /\ task[c] = "running"
             ~> (~Registered(c, t) \/ local[c][t] # NoSub \/ task[c] = "ended")

(* An event is routed unless the switch's task ends, and then reaches the    *)
(* client of every connection it was routed to, even if the switch's task    *)
(* ends, unless that client leaves or that connection's task ends. *)
EventsArrive ==
    \A e \in EventIds, c \in Conns :
        /\ e \in DOMAIN emitted ~> e \in DOMAIN routed \/ ~running
        /\ e \in DOMAIN routed /\ c \in routed[e]
             ~> e \in Range(forwarded[c]) \/ client[c] = "gone" \/ task[c] = "ended"
=============================================================================
