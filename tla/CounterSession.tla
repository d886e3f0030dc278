--------------------------- MODULE CounterSession ---------------------------
(***************************************************************************)
(* A whole session of the counter application (examples/counter.rs): the   *)
(* RPC handlers with the state lock they share, the tasks that send state  *)
(* changes, subscriptions and events through the event switch, the task    *)
(* that follows topic notifications, the connection loop that puts         *)
(* responses, state changes and events on one stream in the order of its   *)
(* biased select!, and the client loop that takes them off, under a lock   *)
(* it shares with the application (src/server.rs, src/client.rs,           *)
(* macros/src/lib.rs).                                                     *)
(*                                                                         *)
(* One client on a connection that holds; ids and faults of the RPC layer  *)
(* are in RpcConnection, several connections in EventSwitch.               *)
(***************************************************************************)
EXTENDS Integers, Sequences, SequencesExt

CONSTANTS
    NumCalls,    \* calls the application makes
    Scripts,     \* what they may be: <<"new_counter", "increment", ...>>
    Window,      \* bound on calls under way at once (256)
    Draws,       \* the topics new_counter() may draw in turn: random bytes
    NoTopic,     \* the empty topic a state starts with
    MaxU32       \* u32::MAX

Ops == {"new_counter", "increment", "decrement", "get"}
NoCall == 0
NoUpdate == <<>>

Calls == 1..NumCalls
Topics == UNION {Range(d) : d \in Draws}
AnyTopic == Topics \cup {NoTopic}

ASSUME ScriptsAssumption == Scripts \subseteq [Calls -> Ops]
ASSUME SessionBounds == NumCalls \in Nat /\ Window \in Nat /\ MaxU32 \in Nat
ASSUME NoTopicAssumption == NoTopic \notin Topics

VARIABLES
    script, call,     \* application: its calls, and how far each is
    poll,             \* application: the loop that waits for the topic
    applying,         \* client loop: changes waiting for the write lock
    client_state,     \* client: its copy of the state
    seen,             \* client: the events received, in order
    c2s, s2c,         \* the stream
    rpc_rx, events, proxied,   \* channels into the connection loop
    first,            \* its first ready branch when it last came back
    local,            \* connection loop: topic -> subscription id
    lock, starting_state, state,   \* handlers: who holds the write guard, the
                      \* guard's copy of the state, and the state
    emission,         \* handlers: the event each call is about to emit
    sending,          \* spawned tasks with changes to send, or their changes
    new_event, notifications, subscriptions, topic_notif,   \* event switch
    event_first,      \* an event waited when the switch last came back
    epochs, changes,  \* history: the topics drawn, one per new_counter(), and
                      \* the events of all assignments, in order
    missed            \* history: events routed to nobody

appVars == <<script, call, poll>>
clientVars == <<applying, client_state, seen>>
wireVars == <<c2s, s2c>>
loopVars == <<rpc_rx, events, proxied, first, local>>
handlerVars == <<lock, starting_state, state, emission, sending, epochs, changes>>
switchVars == <<new_event, notifications, subscriptions, topic_notif, event_first,
                missed>>
vars == <<appVars, clientVars, wireVars, loopVars, handlerVars, switchVars>>

(* What the connection loop waits for, in order; state changes, which come    *)
(* second, are in the hands of spawned tasks. *)
Branches == <<rpc_rx, events, proxied, c2s>>

Default == [counter |-> 0, topic |-> NoTopic]

Init ==
    /\ script \in Scripts /\ call = [c \in Calls |-> "idle"]
    /\ poll = "off"
    /\ applying = NoUpdate /\ client_state = Default /\ seen = <<>>
    /\ c2s = <<>> /\ s2c = <<>>
    /\ rpc_rx = <<>> /\ events = <<>> /\ proxied = <<>>
    /\ first = Len(Branches) + 1 /\ local = [t \in AnyTopic |-> 0]
    /\ lock = NoCall /\ starting_state = Default /\ state = Default
    /\ epochs = <<>> /\ changes = <<>>
    /\ emission = [c \in Calls |-> <<>>] /\ sending = <<>>
    /\ new_event = <<>> /\ notifications = <<>> /\ subscriptions = {}
    /\ topic_notif = <<>> /\ event_first = FALSE /\ missed = {}

-----------------------------------------------------------------------------
(* The application.                                                        *)

UnderWay(c) == call[c] \notin {"idle", "answered", "panicked"}

(* The next call, also while others are under way: the methods take &self.   *)
(* Like the example, the application waits for its topic after the first.    *)
(* The client loop writes the request to the stream, not while it waits for  *)
(* the write lock. *)
Make(c) ==
    /\ applying = NoUpdate
    /\ call[c] = "idle"
    /\ c > 1 => call[c - 1] # "idle" /\ poll = "done"
    /\ Cardinality({d \in Calls : UnderWay(d)}) < Window
    /\ call' = [call EXCEPT ![c] = "requested"]
    /\ c2s' = Append(c2s, c)
    /\ UNCHANGED <<script, poll, s2c, clientVars, loopVars, handlerVars, switchVars>>

(* Mutant: a lock that lets readers in past a waiting writer. *)
ReadersFirst == TRUE

(* tokio's RwLock: a waiting writer holds later readers back. *)
ReadersAdmitted == applying = NoUpdate

CounterCreated ==
    \E c \in Calls : script[c] = "new_counter" /\ call[c] = "answered"

(* while topic.as_bytes().is_empty(): once a counter has been created, look  *)
(* at the state again and again; the guard is dropped after each look. *)
PollState ==
    /\ poll \in {"off", "waiting"}
    /\ CounterCreated
    /\ ReadersAdmitted
    /\ poll' = "reading"
    /\ UNCHANGED <<script, call, clientVars, wireVars, loopVars, handlerVars,
                   switchVars>>

DropReadGuard ==
    /\ poll = "reading"
    /\ poll' = IF client_state.topic = NoTopic THEN "waiting" ELSE "done"
    /\ UNCHANGED <<script, call, clientVars, wireVars, loopVars, handlerVars,
                   switchVars>>

-----------------------------------------------------------------------------
(* The client loop: one message after the other.                           *)

Receive(kind) ==
    /\ applying = NoUpdate
    /\ s2c # <<>>
    /\ Head(s2c).kind = kind
    /\ s2c' = Tail(s2c)
    /\ UNCHANGED <<script, poll, client_state, c2s, loopVars, handlerVars,
                   switchVars>>

ReceiveResponse ==
    /\ Receive("response")
    /\ call' = [call EXCEPT ![Head(s2c).msg] = "answered"]
    /\ UNCHANGED <<applying, seen>>

ReceiveEvent ==
    /\ Receive("event")
    /\ seen' = Append(seen, Head(s2c).msg)
    /\ UNCHANGED <<applying, call>>

(* The loop asks for the write lock, and handles nothing else until it has   *)
(* applied the changes. *)
ReceiveChanges ==
    /\ Receive("state")
    /\ applying' = Head(s2c).msg
    /\ UNCHANGED <<seen, call>>

ApplyChanges ==
    /\ applying # NoUpdate
    /\ poll # "reading"
    /\ client_state' = [f \in DOMAIN client_state |->
                          IF f \in DOMAIN applying THEN applying[f] ELSE client_state[f]]
    /\ applying' = NoUpdate
    /\ UNCHANGED <<appVars, seen, wireVars, loopVars, handlerVars, switchVars>>

-----------------------------------------------------------------------------
(* The connection loop: a biased select! over five queues.                 *)

(* Branches are polled in turn: between two polls an earlier queue may be    *)
(* filled. So a branch is held back only by an earlier one that was ready    *)
(* when the loop came back to its select!. *)
Selects(n) == Branches[n] # <<>> /\ n <= first

(* The loop has done its step and comes back. *)
ComesBack ==
    first' \in {n \in 1..(Len(Branches) + 1) :
                  /\ n <= Len(Branches) => Branches'[n] # <<>>
                  /\ \A i \in 1..(n - 1) : Branches'[i] = <<>>}

SendMsg(kind, msg) == s2c' = Append(s2c, [kind |-> kind, msg |-> msg])

SendResponse ==
    /\ Selects(1)
    /\ rpc_rx' = Tail(rpc_rx)
    /\ SendMsg("response", Head(rpc_rx))
    /\ UNCHANGED <<appVars, clientVars, c2s, events, proxied, local,
                   handlerVars, switchVars>>
    /\ ComesBack

(* The changes of any spawned task: worker threads run the tasks at any time *)
(* and in any order, so those of a task that has not run yet do not hold the *)
(* later branches back. *)
SendChanges(i) ==
    /\ first > 1
    /\ SendMsg("state", sending[i])
    /\ sending' = RemoveAt(sending, i)
    /\ UNCHANGED <<appVars, clientVars, c2s, rpc_rx, events, proxied, local, lock,
                   starting_state, state, emission, epochs, changes, switchVars>>
    /\ ComesBack

SendEvent ==
    /\ Selects(2)
    /\ events' = Tail(events)
    /\ SendMsg("event", Head(events))
    /\ UNCHANGED <<appVars, clientVars, c2s, rpc_rx, proxied, local,
                   handlerVars, switchVars>>
    /\ ComesBack

(* A subscription is passed on to the switch unless there is one already, an *)
(* unsubscription if there is one to remove. Ids are drawn at random in the  *)
(* code; here the number of the counter the topic was drawn for. *)
HandleProxied ==
    /\ Selects(3)
    /\ proxied' = Tail(proxied)
    /\ LET p == Head(proxied) IN
         IF (p.op = "Subscribe") = (local[p.topic] = 0)
         THEN LET id == IF p.op = "Subscribe" THEN p.epoch ELSE local[p.topic] IN
              /\ local' = [local EXCEPT ![p.topic] =
                             IF p.op = "Subscribe" THEN id ELSE 0]
              /\ notifications' = Append(notifications,
                             [op |-> p.op, topic |-> p.topic, id |-> id])
         ELSE UNCHANGED <<local, notifications>>
    /\ UNCHANGED <<appVars, clientVars, wireVars, rpc_rx, events,
                   handlerVars, new_event, subscriptions, topic_notif,
                   event_first, missed>>
    /\ ComesBack

ReceiveRequest ==
    /\ Selects(4)
    /\ c2s' = Tail(c2s)
    /\ call' = [call EXCEPT ![Head(c2s)] = "running"]
    /\ UNCHANGED <<script, poll, clientVars, s2c, rpc_rx, events, proxied, local,
                   handlerVars, switchVars>>
    /\ ComesBack

-----------------------------------------------------------------------------
(* The handlers, one task per call.                                        *)

(* The handler returns and its output goes to the connection loop. *)
Respond(c) ==
    /\ call' = [call EXCEPT ![c] = "responded"]
    /\ rpc_rx' = Append(rpc_rx, c)

Runs(c, o) == script[c] = o /\ call[c] = "running" /\ lock = NoCall

Proxy(o, t, n) == [op |-> o, topic |-> t, epoch |-> n]

(* Mutant: the guard is dropped before the event is emitted. *)
GuardDropped(c) == NoCall

(* The guard lives to the end of the handler. *)
GuardHeld(c) == c

(* What a handler does between write().await and its next await, all of it   *)
(* under the lock. *)
Change(c, new, next) ==
    /\ lock' = GuardHeld(c)
    /\ starting_state' = state
    /\ state' = new
    /\ call' = [call EXCEPT ![c] = next]

(* Mutant: the new topic is subscribed to before the old one is left. *)
SubscribeFirst(old, t, n) ==
    <<Proxy("Subscribe", t, n), Proxy("Unsubscribe", old, n)>>

(* The two requests of the n-th new_counter(). *)
Resubscribe(old, t, n) ==
    <<Proxy("Unsubscribe", old, n), Proxy("Subscribe", t, n)>>

(* subscriptions.remove(&state.topic), and the new topic and counter. *)
NewCounter(c) ==
    /\ Runs(c, "new_counter")
    /\ \E t \in {x \in Topics : \E d \in Draws : IsPrefix(Append(epochs, x), d)} :
         /\ Change(c, [counter |-> 0, topic |-> t], "subscribing")
         /\ epochs' = Append(epochs, t)
         /\ proxied' = Append(proxied,
                              Resubscribe(state.topic, t, Len(epochs) + 1)[1])
    /\ UNCHANGED <<script, poll, clientVars, wireVars, rpc_rx, events, first, local,
                   emission, sending, changes, switchVars>>

(* subscriptions.add(&state.topic): the connection loop may have handled the *)
(* first request by now. *)
AddSubscription(c) ==
    /\ call[c] = "subscribing"
    /\ proxied' = Append(proxied,
                 Resubscribe(starting_state.topic, state.topic, Len(epochs))[2])
    /\ call' = [call EXCEPT ![c] = "returning"]
    /\ UNCHANGED <<script, poll, clientVars, wireVars, rpc_rx, events, first, local,
                   handlerVars, switchVars>>

(* The assignment, and the event that tells of it. *)
Changed(new) ==
    [kind |-> "changed", topic |-> state.topic, from |-> state.counter, to |-> new,
     epoch |-> Len(epochs), nth |-> Len(changes) + 1]

Assign(c, new) ==
    /\ Change(c, [state EXCEPT !.counter = new], "emitting")
    /\ emission' = [emission EXCEPT ![c] = <<Changed(new)>>]
    /\ changes' = Append(changes, Changed(new))

(* Mutant: unwinding leaves the lock taken. *)
PanicKeepsLock(c) ==
    /\ call' = [call EXCEPT ![c] = "panicked"]
    /\ lock' = c
    /\ UNCHANGED <<starting_state, state, emission, changes>>

(* The task unwinds: the guard is dropped with nothing changed, and no       *)
(* response is sent. *)
Panic(c) ==
    /\ call' = [call EXCEPT ![c] = "panicked"]
    /\ UNCHANGED <<lock, starting_state, state, emission, changes>>

(* u32 arithmetic: out of range it panics, or wraps in a release build. *)
Adjust(c, new) ==
    /\ \/ new \in 0..MaxU32 /\ Assign(c, new)
       \/ new \notin 0..MaxU32 /\ (Panic(c) \/ Assign(c, new % (MaxU32 + 1)))
    /\ UNCHANGED <<script, poll, clientVars, wireVars, loopVars, sending, epochs,
                   switchVars>>

Increment(c) == Runs(c, "increment") /\ Adjust(c, state.counter + 1)
Decrement(c) == Runs(c, "decrement") /\ Adjust(c, state.counter - 1)

(* emit(..).await: the event is sent, and the task yields with the guard     *)
(* still held. *)
Emit(c) ==
    /\ call[c] = "emitting"
    /\ new_event' = new_event \o emission[c]
    /\ call' = [call EXCEPT ![c] = "returning"]
    /\ UNCHANGED <<script, poll, clientVars, wireVars, loopVars, handlerVars,
                   notifications, subscriptions, topic_notif, event_first,
                   missed>>

(* Drop for StateGuard: a task sends the fields that differ. *)
SpawnUpdate(old, new) ==
    LET F == {f \in DOMAIN old : old[f] # new[f]} IN
    sending' = IF F = {} THEN sending
               ELSE Append(sending, [f \in F |-> new[f]])

(* The handler returns: the guard is dropped, and the response is sent. *)
Return(c) ==
    /\ call[c] = "returning"
    /\ SpawnUpdate(starting_state, state)
    /\ lock' = NoCall
    /\ starting_state' = Default
    /\ emission' = [emission EXCEPT ![c] = <<>>]
    /\ Respond(c)
    /\ UNCHANGED <<script, poll, clientVars, wireVars, events, proxied, first, local,
                   state, epochs, changes, switchVars>>

Get(c) ==
    /\ Runs(c, "get")
    /\ Respond(c)
    /\ UNCHANGED <<script, poll, clientVars, wireVars, events, proxied, first,
                   local, handlerVars, switchVars>>

-----------------------------------------------------------------------------
(* The event switch, and the task that follows its topic notifications.    *)

(* The connection has at most one subscription to a topic (EventSwitch). *)
RouteEvent ==
    /\ new_event # <<>>
    /\ new_event' = Tail(new_event)
    /\ LET e == Head(new_event) IN
         IF \E s \in subscriptions : s.topic = e.topic
         THEN events' = Append(events, e) /\ UNCHANGED missed
         ELSE missed' = missed \cup {e} /\ UNCHANGED events
    /\ event_first' = (new_event' # <<>>)
    /\ UNCHANGED <<appVars, clientVars, wireVars, rpc_rx, proxied, first, local,
                   handlerVars, notifications, subscriptions, topic_notif>>

(* Mutant: the application is told of the second subscription. *)
SecondSubscriber(s) == Cardinality(s) = 2

(* subscribers.len() == 1 *)
FirstSubscriber(s) == Cardinality(s) = 1

(* Polled after the events: an event that has come between the two polls     *)
(* does not hold it back, one that waited when the switch came back does. *)
HandleNotification ==
    /\ ~event_first
    /\ notifications # <<>>
    /\ notifications' = Tail(notifications)
    /\ LET n == Head(notifications)
           Of(S) == {s \in S : s.topic = n.topic}
           Notify(kind) == Append(topic_notif, [kind |-> kind, topic |-> n.topic])
       IN \/ /\ n.op = "Subscribe"
             /\ subscriptions' = subscriptions \cup {[topic |-> n.topic, id |-> n.id]}
             /\ topic_notif' = IF FirstSubscriber(Of(subscriptions'))
                               THEN Notify("Created") ELSE topic_notif
          \/ /\ n.op = "Unsubscribe"
             /\ subscriptions' = subscriptions \ {[topic |-> n.topic, id |-> n.id]}
             /\ topic_notif' = IF Of(subscriptions') = {}
                               THEN Notify("Removed") ELSE topic_notif
    /\ event_first' = (new_event # <<>>)
    /\ UNCHANGED <<appVars, clientVars, wireVars, loopVars, handlerVars, new_event,
                   missed>>

(* The application's notifier task greets every topic that is created. *)
FollowTopics ==
    /\ topic_notif # <<>>
    /\ topic_notif' = Tail(topic_notif)
    /\ new_event' = IF Head(topic_notif).kind = "Created"
         THEN Append(new_event, [kind |-> "ServerSentTest",
                                 topic |-> Head(topic_notif).topic])
         ELSE new_event
    /\ UNCHANGED <<appVars, clientVars, wireVars, loopVars, handlerVars,
                   notifications, subscriptions, event_first, missed>>

-----------------------------------------------------------------------------
ClientStep == ReceiveResponse \/ ReceiveEvent \/ ReceiveChanges \/ ApplyChanges
LoopStep ==
    \/ SendResponse \/ SendEvent \/ HandleProxied \/ ReceiveRequest
    \/ \E i \in DOMAIN sending : SendChanges(i)
HandlerStep(c) ==
    \/ NewCounter(c) \/ AddSubscription(c) \/ Increment(c) \/ Decrement(c)
    \/ Get(c) \/ Emit(c) \/ Return(c)
SwitchStep == RouteEvent \/ HandleNotification

AppStep == PollState \/ DropReadGuard
ServerStep ==
    \/ LoopStep \/ SwitchStep \/ FollowTopics
    \/ \E c \in Calls : HandlerStep(c)

Next ==
    \/ \E c \in Calls : Make(c)
    \/ AppStep
    \/ ClientStep
    \/ ServerStep

Spec == Init /\ [][Next]_vars

(* Tokio polls every ready task; of the server it is enough that some task   *)
(* that is ready goes on, since none of them goes on for ever. The           *)
(* application polls the state until it has the topic, and makes calls as it *)
(* likes. *)
Fairness == WF_vars(AppStep) /\ WF_vars(ClientStep) /\ WF_vars(ServerStep)

FairSpec == Spec /\ Fairness

-----------------------------------------------------------------------------
(* The counter's topic was not used by an earlier counter of the session. *)
Fresh(n) == n > 0 /\ \A m \in 1..(n - 1) : epochs[m] # epochs[n]

ChangesSeen(n) == {i \in DOMAIN seen : seen[i].kind = "changed" /\ seen[i].epoch = n}

(* No counter event is on its way. *)
EventsQuiet ==
    /\ lock = NoCall /\ new_event = <<>> /\ events = <<>>
    /\ \A m \in Range(s2c) : m.kind # "event"

(* A client that follows the events knows the counter, although handlers run *)
(* concurrently and subscriptions take effect late: the changes it sees of a *)
(* counter are a gapless chain, and the last one has the counter's value.    *)
(* The state copy does not have this property: its updates may overtake each *)
(* other. *)
EventsTellTheCounter ==
    \A n \in {m \in DOMAIN epochs : Fresh(m)} :
        \A i \in ChangesSeen(n) :
            /\ \A j \in ChangesSeen(n) :
                 i < j /\ ~(\E k \in ChangesSeen(n) : i < k /\ k < j)
                     => seen[i].to = seen[j].from
            /\ n = Len(epochs) /\ EventsQuiet /\ (\A j \in ChangesSeen(n) : j <= i)
                 => seen[i].to = state.counter

(* new_counter() has left the old topic and not joined the new one yet. *)
Midway == \E c \in Calls : call[c] = "subscribing"

(* A client is subscribed to the topic of its counter and to no other, also   *)
(* when the topics of two counters happen to be the same random byte. *)
SubscribedToItsCounter ==
    ~Midway /\ proxied = <<>> /\ notifications = <<>> =>
        {s.topic : s \in subscriptions} = {state.topic} \ {NoTopic}

(* The example's loop ends: once new_counter() has returned, the client comes *)
(* to see a topic in its state, however often the application looks. *)
PollEnds == CounterCreated ~> poll = "done"

(* Every call is answered, whatever the other handlers do with the lock,      *)
(* unless its own handler panics: there comes a time when none is under way. *)
CallsAnswered ==
    (\E c \in Calls : UnderWay(c)) ~> (\A c \in Calls : ~UnderWay(c))

(* The client whose subscription created a topic gets the event the           *)
(* application emits in answer to the notification, or has moved on. *)
Ungreeted ==
    {s \in subscriptions :
        [kind |-> "ServerSentTest", topic |-> s.topic] \notin Range(seen)}
CreatorIsGreeted == Ungreeted # {} ~> Ungreeted = {}

(* "events to topics (which will be sent to all clients subscribed to that    *)
(* topic)" (examples/counter.rs): a change made by a client that has the      *)
(* answer of new_counter() and sees its topic in the state is sent to it. *)
OwnEventsArrive ==
    Len(epochs) = 1 => \A e \in missed : e.kind # "changed"

-----------------------------------------------------------------------------
(* The inductive invariant behind the two safety properties: types, the    *)
(* lock, the way of a subscription and the way of an event.                *)

Values == 0..MaxU32
State == [counter : Values, topic : AnyTopic]
(* What a task sends is some fields of a state. *)
Update ==
    UNION {{[f \in F |-> s[f]] : s \in State} :
              F \in (SUBSET {"counter", "topic"}) \ {{}}}
ChangedEvent ==
    [kind : {"changed"}, topic : AnyTopic, from : Values, to : Values,
     epoch : Nat, nth : Nat]
Event == ChangedEvent \cup [kind : {"ServerSentTest"}, topic : AnyTopic]
Message ==
    [kind : {"response"}, msg : Calls] \cup [kind : {"state"}, msg : Update]
        \cup [kind : {"event"}, msg : Event]
SubOps == {"Subscribe", "Unsubscribe"}

AppTypeOK ==
    /\ script \in [Calls -> Ops]
    /\ call \in [Calls -> {"idle", "requested", "running", "subscribing", "emitting",
                           "returning", "responded", "answered", "panicked"}]
    /\ poll \in {"off", "waiting", "reading", "done"}
    /\ applying \in Update \cup {NoUpdate} /\ client_state \in State
    /\ seen \in Seq(Event)

ServerTypeOK ==
    /\ c2s \in Seq(Calls) /\ s2c \in Seq(Message)
    /\ rpc_rx \in Seq(Calls) /\ events \in Seq(Event)
    /\ proxied \in Seq([op : SubOps, topic : AnyTopic, epoch : Nat])
    /\ first \in 1..5 /\ local \in [AnyTopic -> Nat]
    /\ lock \in Calls \cup {NoCall} /\ starting_state \in State /\ state \in State
    /\ emission \in [Calls -> Seq(ChangedEvent)] /\ sending \in Seq(Update)
    /\ epochs \in Seq(Topics) /\ changes \in Seq(ChangedEvent)

SwitchTypeOK ==
    /\ new_event \in Seq(Event) /\ event_first \in BOOLEAN /\ missed \subseteq Event
    /\ notifications \in Seq([op : SubOps, topic : AnyTopic, id : Nat])
    /\ subscriptions \subseteq [topic : AnyTopic, id : Nat]
    /\ topic_notif \in Seq([kind : {"Created", "Removed"}, topic : AnyTopic])

TypeOK == AppTypeOK /\ ServerTypeOK /\ SwitchTypeOK

(* A request starts one handler, and a response ends it. *)
CallsInv ==
    /\ IsInjective(c2s)
    /\ \A c \in Range(c2s) : call[c] = "requested"
    /\ \A c \in Range(rpc_rx) : call[c] \in {"responded", "answered"}
    /\ \A m \in Range(s2c) :
         m.kind = "response" => call[m.msg] \in {"responded", "answered"}

(* The lock is held from the assignment to the response. *)
LockInv ==
    /\ \A c \in Calls :
         call[c] \in {"subscribing", "emitting", "returning"} <=> lock = c
    /\ \A c \in Calls : call[c] = "subscribing" => epochs # <<>>
    /\ \A c \in Calls : call[c] = "emitting" =>
         /\ changes # <<>> /\ emission[c] = <<changes[Len(changes)]>>
         /\ changes[Len(changes)].epoch = Len(epochs)

(* The topic of the k-th counter of the session; before the first there is   *)
(* none. *)
TopicOf(k) == IF k = 0 THEN NoTopic ELSE epochs[k]

(* Counter k makes two requests, the (2k-1)-st and the (2k)-th of the         *)
(* session; so many have been made, and the connection loop has handled so   *)
(* many of them. *)
Requested == 2 * Len(epochs) - (IF Midway THEN 1 ELSE 0)
Asked == Requested - Len(proxied)

(* It has passed on all of them but the first, which leaves no topic, and    *)
(* the switch has handled this many: the (2k-1)-st subscribes to counter k,  *)
(* the (2k)-th ends that. *)
Sent == IF Asked = 0 THEN 0 ELSE Asked - 1
Handled == Sent - Len(notifications)

AskedInv ==
    /\ state.topic = TopicOf(Len(epochs))
    /\ Asked >= 0
    /\ \A i \in DOMAIN proxied : \A k \in 1..Len(epochs) :
         /\ Asked + i = 2 * k - 1 => proxied[i] =
              [op |-> "Unsubscribe", topic |-> TopicOf(k - 1), epoch |-> k]
         /\ Asked + i = 2 * k => proxied[i] =
              [op |-> "Subscribe", topic |-> TopicOf(k), epoch |-> k]
    /\ \A k \in 0..Len(epochs) : \A t \in AnyTopic :
         /\ Asked = 2 * k => local[t] = IF t = TopicOf(k) THEN k ELSE 0
         /\ Asked = 2 * k + 1 => local[t] = 0

HandledInv ==
    /\ Handled >= 0
    /\ \A i \in DOMAIN notifications : \A k \in 1..Len(epochs) :
         /\ Handled + i = 2 * k - 1 => notifications[i] =
              [op |-> "Subscribe", topic |-> TopicOf(k), id |-> k]
         /\ Handled + i = 2 * k => notifications[i] =
              [op |-> "Unsubscribe", topic |-> TopicOf(k), id |-> k]
    /\ \A k \in 0..Len(epochs) :
         /\ Handled = 2 * k - 1 => subscriptions = {[topic |-> TopicOf(k), id |-> k]}
         /\ Handled = 2 * k => subscriptions = {}

(* The changes form a chain per counter, which ends at its value. *)
ChainInv ==
    /\ \A i \in DOMAIN changes :
         /\ changes[i].nth = i /\ changes[i].epoch <= Len(epochs)
         /\ changes[i].topic = TopicOf(changes[i].epoch)
         /\ changes[i].epoch = Len(epochs) /\ i = Len(changes)
              => changes[i].to = state.counter
    /\ \A i, j \in DOMAIN changes :
         /\ i < j => changes[i].epoch <= changes[j].epoch
         /\ j = i + 1 /\ changes[i].epoch = changes[j].epoch
              => changes[i].to = changes[j].from

(* An event, or a message with an event, tells of a change. *)
Payload(x) == IF x.kind = "event" THEN x.msg ELSE x
Tells(x) == Payload(x).kind = "changed"
Nth(x) == Payload(x).nth
Precedes(x, y) == Tells(x) /\ Tells(y) => Nth(x) < Nth(y)
Before(X, Y) == \A x \in X : \A y \in Y : Precedes(x, y)
InOrder(q) == \A i, j \in DOMAIN q : i < j => Precedes(q[i], q[j])

Pending == {changes[Len(changes)] : c \in {d \in Calls : call[d] = "emitting"}}
Delivered == Range(seen) \cup Range(s2c) \cup Range(events)
Routed == Delivered \cup missed
Emitted == Routed \cup Range(new_event)

(* Every change is on its way or has arrived, unaltered. *)
LoggedInv ==
    /\ \A x \in Emitted : Tells(x) =>
         Nth(x) \in DOMAIN changes /\ changes[Nth(x)] = Payload(x)
    /\ \A i \in DOMAIN changes : \E x \in Emitted \cup Pending : Payload(x) = changes[i]

(* No change overtakes another. *)
OrderInv ==
    /\ InOrder(seen) /\ InOrder(s2c) /\ InOrder(events) /\ InOrder(new_event)
    /\ Before(Range(seen), Range(s2c) \cup Range(events))
    /\ Before(Range(s2c), Range(events))
    /\ Before(Routed, Range(new_event))
    /\ Before(Emitted, Pending)

(* What is routed of a counter before its subscription reached the switch is  *)
(* missed. Afterwards nothing is, until the end of the subscription, which    *)
(* overtakes only events that the switch then routes before anything else:   *)
(* the last ones of the counter. *)
Between(x, m, y) ==
    /\ Tells(x) /\ Tells(m) /\ Tells(y)
    /\ Payload(m).epoch = Payload(x).epoch /\ Fresh(Payload(x).epoch)
    /\ Payload(m).epoch = Payload(y).epoch
    /\ Nth(x) < Nth(m) /\ Nth(m) < Nth(y)

RoutingInv ==
    /\ \A x \in Range(new_event) : Tells(x) /\ Payload(x).epoch > 0 =>
         \/ Handled < 2 * Payload(x).epoch
         \/ Handled = 2 * Payload(x).epoch /\ event_first
    /\ \A x \in Delivered : Tells(x) /\ Fresh(Payload(x).epoch) =>
         /\ Handled >= 2 * Payload(x).epoch - 1
         /\ \A m \in missed : Tells(m) /\ Payload(m).epoch = Payload(x).epoch =>
              Nth(m) < Nth(x) \/ Handled >= 2 * Payload(x).epoch
    /\ \A x, y \in Delivered : \A m \in missed : ~Between(x, m, y)

SessionInv ==
    /\ TypeOK /\ CallsInv /\ LockInv /\ AskedInv /\ HandledInv
    /\ ChainInv /\ LoggedInv /\ OrderInv /\ RoutingInv
=============================================================================
