------------------------ MODULE CounterSessionProofs ------------------------
(***************************************************************************)
(* Proofs about CounterSession.                                            *)
(***************************************************************************)
EXTENDS CounterSession, QueueLemmas

LEMMA CallIds == \A c \in Calls : c \in Nat /\ c # NoCall
PROOF BY SessionBounds DEF Calls, NoCall

LEMMA TypeInit == Init => TypeOK
PROOF
<1> SUFFICES ASSUME Init PROVE TypeOK
    OBVIOUS
<1>1. 0 \in Values /\ Default \in State
    BY SessionBounds DEF Values, Default, State, AnyTopic
<1>2. AppTypeOK
    BY <1>1, ScriptsAssumption DEF Init, AppTypeOK
<1>3. ServerTypeOK
    <2>1. first \in 1..5
        BY DEF Init, Branches
    <2> QED BY <1>1, <2>1 DEF Init, ServerTypeOK
<1>4. SwitchTypeOK
    <2>1. event_first \in BOOLEAN
        BY DEF Init
    <2> QED BY <2>1 DEF Init, SwitchTypeOK
<1> QED BY <1>2, <1>3, <1>4 DEF TypeOK

LEMMA UpdateType ==
    ASSUME NEW F \in (SUBSET {"counter", "topic"}) \ {{}}, NEW s \in State
    PROVE  [f \in F |-> s[f]] \in Update
PROOF
<1>1. [f \in F |-> s[f]] \in {[f \in F |-> r[f]] : r \in State}
    BY Zenon
<1>2. {[f \in F |-> r[f]] : r \in State}
        \in {{[f \in G |-> r[f]] : r \in State} : G \in (SUBSET {"counter", "topic"}) \ {{}}}
    BY Zenon
<1> QED BY <1>1, <1>2 DEF Update

LEMMA AppliedType ==
    ASSUME NEW u \in Update, NEW s \in State
    PROVE  [f \in DOMAIN s |-> IF f \in DOMAIN u THEN u[f] ELSE s[f]] \in State
PROOF
<1>1. PICK F \in (SUBSET {"counter", "topic"}) \ {{}}, r \in State :
        u = [f \in F |-> r[f]]
    BY ZenonT(40) DEF Update
<1>2. DOMAIN s = {"counter", "topic"} /\ DOMAIN u = F
    BY <1>1 DEF State
<1> DEFINE n == [f \in DOMAIN s |-> IF f \in DOMAIN u THEN u[f] ELSE s[f]]
<1>3. \A f \in {"counter", "topic"} : n[f] \in {r[f], s[f]}
    BY <1>1, <1>2
<1>4. n["counter"] \in Values /\ n["topic"] \in AnyTopic
    BY <1>1, <1>3 DEF State
<1>5. n = [counter |-> n["counter"], topic |-> n["topic"]]
    BY <1>2
<1> QED BY <1>4, <1>5 DEF State

LEMMA RemovedType ==
    ASSUME NEW S, NEW q \in Seq(S), NEW i \in DOMAIN q
    PROVE  RemoveAt(q, i) \in Seq(S)
PROOF
<1>1. i \in 1..Len(q) /\ Len(q) \in Nat /\ \A j \in 1..Len(q) : q[j] \in S
    BY LenProperties, ElementOfSeq
<1>2. SubSeq(q, 1, i - 1) \in Seq(S) /\ SubSeq(q, i + 1, Len(q)) \in Seq(S)
    BY <1>1, SubSeqProperties
<1> QED BY <1>2, ConcatProperties DEF RemoveAt

(* What the connection loop finds when it comes back to its select!. *)
LEMMA FirstReady == ComesBack => first' \in 1..5
PROOF
<1>1. Len(Branches) = 4
    BY DEF Branches
<1> QED BY <1>1 DEF ComesBack

USE DEF SubOps

LEMMA AppTypes ==
    ASSUME TypeOK, (\E c \in Calls : Make(c)) \/ AppStep \/ ClientStep
    PROVE  TypeOK'
PROOF
<1>1. ASSUME NEW c \in Calls, Make(c) PROVE TypeOK'
    <2>1. Append(c2s, c) \in Seq(Calls)
        BY AppendRange DEF TypeOK, ServerTypeOK
    <2> QED BY <1>1, <2>1 DEF Make, TypeOK, AppTypeOK, ServerTypeOK, SwitchTypeOK, clientVars,
                wireVars, loopVars, handlerVars, switchVars
<1>2. CASE AppStep
    BY <1>2 DEF AppStep, PollState, DropReadGuard, TypeOK, AppTypeOK, ServerTypeOK,
           SwitchTypeOK, clientVars, wireVars, loopVars, handlerVars, switchVars
<1>3. ASSUME NEW k, Receive(k)
      PROVE  /\ Head(s2c) \in Message /\ Head(s2c) \in Range(s2c) /\ Head(s2c).kind = k
             /\ s2c' \in Seq(Message) /\ s2c # <<>> /\ s2c' = Tail(s2c)
             /\ UNCHANGED <<script, poll, client_state, c2s, rpc_rx, events, proxied, first, local, lock,
                  starting_state, state, emission, sending, epochs, changes, new_event,
                  notifications, subscriptions, topic_notif, event_first, missed>>
    BY <1>3, TailRange DEF Receive, TypeOK, ServerTypeOK, loopVars, handlerVars, switchVars
<1>4. CASE ReceiveResponse
    <2>1. Head(s2c).msg \in Calls
        BY <1>3, <1>4 DEF ReceiveResponse, Message
    <2> QED BY <1>3, <1>4, <2>1 DEF ReceiveResponse, TypeOK, AppTypeOK, ServerTypeOK,
                SwitchTypeOK
<1>5. CASE ReceiveEvent
    <2>1. Head(s2c).msg \in Event
        BY <1>3, <1>5 DEF ReceiveEvent, Message
    <2>2. seen' \in Seq(Event)
        BY <1>5, <2>1, AppendRange DEF ReceiveEvent, TypeOK, AppTypeOK
    <2> QED BY <1>3, <1>5, <2>2 DEF ReceiveEvent, TypeOK, AppTypeOK, ServerTypeOK,
                SwitchTypeOK
<1>6. CASE ReceiveChanges
    <2>1. Head(s2c).msg \in Update
        BY <1>3, <1>6 DEF ReceiveChanges, Message
    <2> QED BY <1>3, <1>6, <2>1 DEF ReceiveChanges, TypeOK, AppTypeOK, ServerTypeOK,
                SwitchTypeOK
<1>7. CASE ApplyChanges
    <2>1. client_state' \in State
        BY <1>7, AppliedType DEF ApplyChanges, TypeOK, AppTypeOK
    <2> QED BY <1>7, <2>1 DEF ApplyChanges, TypeOK, AppTypeOK, ServerTypeOK, SwitchTypeOK,
                appVars, wireVars, loopVars, handlerVars, switchVars
<1> QED BY <1>1, <1>2, <1>4, <1>5, <1>6, <1>7 DEF ClientStep

LEMMA SentMessages ==
    ASSUME TypeOK, NEW k, NEW m, [kind |-> k, msg |-> m] \in Message, SendMsg(k, m)
    PROVE  s2c' \in Seq(Message) /\ s2c' = Append(s2c, [kind |-> k, msg |-> m])
PROOF BY AppendRange DEF SendMsg, TypeOK, ServerTypeOK

LEMMA LoopTypes ==
    ASSUME TypeOK, LoopStep
    PROVE  TypeOK'
PROOF
<1>1. CASE SendResponse
    <2>1. Selects(1) => rpc_rx # <<>>
        BY DEF Selects, Branches
    <2>2. Head(rpc_rx) \in Calls /\ rpc_rx' \in Seq(Calls)
        BY <1>1, <2>1, TailRange DEF TypeOK, ServerTypeOK, SendResponse
    <2>3. [kind |-> "response", msg |-> Head(rpc_rx)] \in Message
        BY <2>2 DEF Message
    <2>4. s2c' \in Seq(Message)
        BY <1>1, <2>3, SentMessages DEF SendResponse
    <2>5. first' \in 1..5
        BY <1>1, FirstReady DEF SendResponse
    <2> QED BY <1>1, <2>2, <2>4, <2>5 DEF SendResponse, TypeOK, AppTypeOK, ServerTypeOK, SwitchTypeOK,
                appVars, clientVars, handlerVars, switchVars
<1>2. ASSUME NEW i \in DOMAIN sending, SendChanges(i) PROVE TypeOK'
    <2>1. sending[i] \in Update /\ sending' \in Seq(Update)
        BY <1>2, RemovedType DEF TypeOK, ServerTypeOK, SendChanges
    <2>2. [kind |-> "state", msg |-> sending[i]] \in Message
        BY <2>1 DEF Message
    <2>3. s2c' \in Seq(Message)
        BY <1>2, <2>2, SentMessages DEF SendChanges
    <2>4. first' \in 1..5
        BY <1>2, FirstReady DEF SendChanges
    <2> QED BY <1>2, <2>1, <2>3, <2>4 DEF SendChanges, TypeOK, AppTypeOK, ServerTypeOK, SwitchTypeOK,
                appVars, clientVars, switchVars
<1>3. CASE SendEvent
    <2>1. Selects(2) => events # <<>>
        BY DEF Selects, Branches
    <2>2. Head(events) \in Event /\ events' \in Seq(Event)
        BY <1>3, <2>1, TailRange DEF TypeOK, ServerTypeOK, SendEvent
    <2>3. [kind |-> "event", msg |-> Head(events)] \in Message
        BY <2>2 DEF Message
    <2>4. s2c' \in Seq(Message)
        BY <1>3, <2>3, SentMessages DEF SendEvent
    <2>5. first' \in 1..5
        BY <1>3, FirstReady DEF SendEvent
    <2> QED BY <1>3, <2>2, <2>4, <2>5 DEF SendEvent, TypeOK, AppTypeOK, ServerTypeOK, SwitchTypeOK,
                appVars, clientVars, handlerVars, switchVars
<1>4. CASE HandleProxied
    <2> DEFINE p == Head(proxied)
               id == IF p.op = "Subscribe" THEN p.epoch ELSE local[p.topic]
               w == IF p.op = "Subscribe" THEN id ELSE 0
               n == [op |-> p.op, topic |-> p.topic, id |-> id]
    <2>1. Selects(3) => proxied # <<>>
        BY DEF Selects, Branches
    <2>2. /\ proxied' \in Seq([op : SubOps, topic : AnyTopic, epoch : Nat])
          /\ p \in [op : SubOps, topic : AnyTopic, epoch : Nat]
        BY <1>4, <2>1, TailRange DEF TypeOK, ServerTypeOK, HandleProxied
    <2>3. /\ local \in [AnyTopic -> Nat]
          /\ notifications \in Seq([op : SubOps, topic : AnyTopic, id : Nat])
        BY DEF TypeOK, ServerTypeOK, SwitchTypeOK
    <2>4. id \in Nat /\ w \in Nat /\ p.op \in SubOps /\ p.topic \in AnyTopic
        BY <2>3, <2>2
    <2>5. /\ local' = local \/ local' = [local EXCEPT ![p.topic] = w]
          /\ notifications' = notifications \/ notifications' = Append(notifications, n)
        BY <1>4 DEF HandleProxied
    <2>6. n \in [op : SubOps, topic : AnyTopic, id : Nat]
        BY <2>4
    <2> HIDE DEF p, id, w, n
    <2>7. local' \in [AnyTopic -> Nat]
        <3>1. p.topic \in AnyTopic /\ w \in Nat
            BY <2>4
        <3>2. [local EXCEPT ![p.topic] = w] \in [AnyTopic -> Nat]
            BY <2>3, <3>1
        <3> QED BY <2>3, <2>5, <3>2
    <2>8. notifications' \in Seq([op : SubOps, topic : AnyTopic, id : Nat])
        <3>1. Append(notifications, n) \in Seq([op : SubOps, topic : AnyTopic, id : Nat])
            BY <2>3, <2>6, AppendRange
        <3> QED BY <2>3, <2>5, <3>1
    <2>9. first' \in 1..5
        BY <1>4, FirstReady DEF HandleProxied
    <2> QED BY <1>4, <2>2, <2>7, <2>8, <2>9 DEF HandleProxied, TypeOK, AppTypeOK, ServerTypeOK,
                SwitchTypeOK, appVars, clientVars, wireVars, handlerVars
<1>5. CASE ReceiveRequest
    <2>1. Selects(4) => c2s # <<>>
        BY DEF Selects, Branches
    <2>2. Head(c2s) \in Calls /\ c2s' \in Seq(Calls)
        BY <1>5, <2>1, TailRange DEF TypeOK, ServerTypeOK, ReceiveRequest
    <2>3. first' \in 1..5
        BY <1>5, FirstReady DEF ReceiveRequest
    <2> QED BY <1>5, <2>2, <2>3 DEF ReceiveRequest, TypeOK, AppTypeOK, ServerTypeOK, SwitchTypeOK,
                clientVars, handlerVars, switchVars
<1> QED BY <1>1, <1>2, <1>3, <1>4, <1>5 DEF LoopStep

LEMMA HandlerTypes ==
    ASSUME TypeOK, NEW c \in Calls, HandlerStep(c)
    PROVE  TypeOK'
PROOF
<1>1. /\ Len(epochs) \in Nat /\ Len(changes) \in Nat
      /\ state.counter \in Values /\ state.topic \in AnyTopic
    BY LenProperties DEF TypeOK, ServerTypeOK, State
<1>2. CASE NewCounter(c)
    <2> DEFINE P == [op : SubOps, topic : AnyTopic, epoch : Nat]
    <2>1. PICK t \in Topics :
            /\ Change(c, [counter |-> 0, topic |-> t], "subscribing")
            /\ epochs' = Append(epochs, t)
            /\ proxied' = Append(proxied, Resubscribe(state.topic, t, Len(epochs) + 1)[1])
        BY <1>2 DEF NewCounter
    <2>2. [counter |-> 0, topic |-> t] \in State
        BY SessionBounds DEF State, Values, AnyTopic
    <2>3. epochs' \in Seq(Topics)
        BY <2>1, AppendRange DEF TypeOK, ServerTypeOK
    <2>4. Resubscribe(state.topic, t, Len(epochs) + 1)[1] \in P
        BY <1>1 DEF Resubscribe, Proxy, AnyTopic
    <2>5. proxied' \in Seq(P)
        <3>1. proxied \in Seq(P)
            BY DEF TypeOK, ServerTypeOK
        <3> HIDE DEF P
        <3> QED BY <2>1, <2>4, <3>1, AppendRange
    <2> QED BY <1>2, <2>1, <2>2, <2>3, <2>5 DEF NewCounter, Change, GuardHeld, TypeOK, AppTypeOK,
                ServerTypeOK, SwitchTypeOK, clientVars, wireVars, switchVars
<1>9. CASE AddSubscription(c)
    <2> DEFINE P == [op : SubOps, topic : AnyTopic, epoch : Nat]
               r == Resubscribe(starting_state.topic, state.topic, Len(epochs))[2]
    <2>1. r \in P
        BY <1>1 DEF Resubscribe, Proxy
    <2>2. proxied' \in Seq(P)
        <3>1. proxied \in Seq(P)
            BY DEF TypeOK, ServerTypeOK
        <3>2. proxied' = Append(proxied, r)
            BY <1>9 DEF AddSubscription
        <3> HIDE DEF P, r
        <3> QED BY <2>1, <3>1, <3>2, AppendRange
    <2> QED BY <1>9, <2>2 DEF AddSubscription, TypeOK, AppTypeOK, ServerTypeOK, SwitchTypeOK,
                clientVars, wireVars, handlerVars, switchVars
<1>3. ASSUME NEW new \in Values, Assign(c, new), NEW o, Adjust(c, o)
      PROVE  TypeOK'
    <2>1. Changed(new) \in ChangedEvent
        BY <1>1 DEF Changed, ChangedEvent
    <2>2. changes' \in Seq(ChangedEvent) /\ <<Changed(new)>> \in Seq(ChangedEvent)
        BY <1>3, <2>1, AppendRange DEF Assign, TypeOK, ServerTypeOK
    <2>3. [state EXCEPT !.counter = new] \in State
        BY DEF TypeOK, ServerTypeOK, State
    <2> QED BY <1>3, <2>2, <2>3 DEF Adjust, Assign, Change, GuardHeld, TypeOK, AppTypeOK,
                ServerTypeOK, SwitchTypeOK, clientVars, wireVars, loopVars, switchVars
<1>4. ASSUME NEW new \in Int, Adjust(c, new) PROVE TypeOK'
    <2>1. new % (MaxU32 + 1) \in Values
        BY SessionBounds DEF Values
    <2>2. CASE Panic(c)
        BY <1>4, <2>2 DEF Adjust, Panic, TypeOK, AppTypeOK, ServerTypeOK, SwitchTypeOK, clientVars,
             wireVars, loopVars, switchVars
    <2> QED BY <1>3, <1>4, <2>1, <2>2 DEF Adjust, Values
<1>5. CASE Increment(c) \/ Decrement(c)
    <2>1. state.counter + 1 \in Int /\ state.counter - 1 \in Int
        BY <1>1, SessionBounds DEF Values
    <2> QED BY <1>4, <1>5, <2>1 DEF Increment, Decrement
<1>6. CASE Get(c)
    <2>1. rpc_rx' \in Seq(Calls)
        BY <1>6, AppendRange DEF Get, Respond, TypeOK, ServerTypeOK
    <2> QED BY <1>6, <2>1 DEF Get, Respond, TypeOK, AppTypeOK, ServerTypeOK, SwitchTypeOK,
                clientVars, wireVars, handlerVars, switchVars
<1>7. CASE Emit(c)
    <2>1. emission[c] \in Seq(Event) /\ new_event \in Seq(Event)
        BY DEF TypeOK, ServerTypeOK, SwitchTypeOK, Event
    <2>2. new_event' \in Seq(Event)
        BY <1>7, <2>1, ConcatProperties DEF Emit
    <2> QED BY <1>7, <2>2 DEF Emit, TypeOK, AppTypeOK, ServerTypeOK, SwitchTypeOK, clientVars,
                wireVars, loopVars, handlerVars
<1>8. CASE Return(c)
    <2> DEFINE F == {f \in DOMAIN starting_state : starting_state[f] # state[f]}
    <2>1. rpc_rx' \in Seq(Calls)
        BY <1>8, AppendRange DEF Return, Respond, TypeOK, ServerTypeOK
    <2>2. sending' \in Seq(Update)
        <3>1. DOMAIN starting_state = {"counter", "topic"}
            BY DEF TypeOK, ServerTypeOK, State
        <3>2. CASE F = {}
            BY <1>8, <3>2 DEF Return, SpawnUpdate, TypeOK, ServerTypeOK
        <3>3. CASE F # {}
            <4>1. F \in (SUBSET {"counter", "topic"}) \ {{}}
                BY <3>1, <3>3
            <4>2. [f \in F |-> state[f]] \in Update
                BY <4>1, UpdateType DEF TypeOK, ServerTypeOK
            <4>3. sending' = Append(sending, [f \in F |-> state[f]])
                BY <1>8, <3>3 DEF Return, SpawnUpdate
            <4> HIDE DEF F
            <4> QED BY <4>2, <4>3, AppendRange DEF TypeOK, ServerTypeOK
        <3> QED BY <3>2, <3>3
    <2>3. Default \in State /\ emission' \in [Calls -> Seq(ChangedEvent)]
        BY <1>8, SessionBounds DEF Return, Default, State, Values, AnyTopic, TypeOK, ServerTypeOK
    <2> QED BY <1>8, <2>1, <2>2, <2>3 DEF Return, Respond, TypeOK, AppTypeOK, ServerTypeOK,
                SwitchTypeOK, clientVars, wireVars, switchVars
<1> QED BY <1>2, <1>5, <1>6, <1>7, <1>8, <1>9 DEF HandlerStep

LEMMA SwitchTypes ==
    ASSUME TypeOK, SwitchStep \/ FollowTopics
    PROVE  TypeOK'
PROOF
<1>1. CASE RouteEvent
    <2>1. new_event' \in Seq(Event) /\ Head(new_event) \in Event
        BY <1>1, TailRange DEF RouteEvent, TypeOK, SwitchTypeOK
    <2>2. Append(events, Head(new_event)) \in Seq(Event)
        BY <2>1, AppendRange DEF TypeOK, ServerTypeOK
    <2>3. events' \in Seq(Event) /\ missed' \subseteq Event
        BY <1>1, <2>1, <2>2 DEF RouteEvent, TypeOK, ServerTypeOK, SwitchTypeOK
    <2>4. event_first' \in BOOLEAN
        BY <1>1 DEF RouteEvent
    <2> QED BY <1>1, <2>1, <2>3, <2>4 DEF RouteEvent, TypeOK, AppTypeOK, ServerTypeOK, SwitchTypeOK,
                appVars, clientVars, wireVars, handlerVars
<1>2. CASE HandleNotification
    <2> DEFINE n == Head(notifications)
               N == [op : SubOps, topic : AnyTopic, id : Nat]
               T == [kind : {"Created", "Removed"}, topic : AnyTopic]
               Notify(kind) == Append(topic_notif, [kind |-> kind, topic |-> n.topic])
    <2>1. n \in N /\ notifications' \in Seq(N)
        BY <1>2, TailRange DEF HandleNotification, TypeOK, SwitchTypeOK
    <2>2. n.topic \in AnyTopic /\ n.id \in Nat
        BY <2>1
    <2>3. [topic |-> n.topic, id |-> n.id] \in [topic : AnyTopic, id : Nat]
        BY <2>2
    <2>4. \/ subscriptions' = subscriptions \cup {[topic |-> n.topic, id |-> n.id]}
          \/ subscriptions' = subscriptions \ {[topic |-> n.topic, id |-> n.id]}
        BY <1>2 DEF HandleNotification
    <2>5. topic_notif' \in {topic_notif, Notify("Created"), Notify("Removed")}
        BY <1>2 DEF HandleNotification
    <2>6. topic_notif \in Seq(T) /\ Notify("Created") \in Seq(T) /\ Notify("Removed") \in Seq(T)
        <3>1. \A k \in {"Created", "Removed"} : [kind |-> k, topic |-> n.topic] \in T
            BY <2>2
        <3>2. topic_notif \in Seq(T)
            BY DEF TypeOK, SwitchTypeOK
        <3> HIDE DEF n, T
        <3> QED BY <3>1, <3>2, AppendRange
    <2>7. subscriptions' \subseteq [topic : AnyTopic, id : Nat]
        BY <2>3, <2>4 DEF TypeOK, SwitchTypeOK
    <2>8. topic_notif' \in Seq(T)
        BY <2>5, <2>6
    <2>9. event_first' \in BOOLEAN
        BY <1>2 DEF HandleNotification
    <2> HIDE DEF n, Notify
    <2> QED BY <1>2, <2>1, <2>7, <2>8, <2>9 DEF HandleNotification, TypeOK, AppTypeOK, ServerTypeOK,
                SwitchTypeOK, appVars, clientVars, wireVars, loopVars, handlerVars
<1>3. CASE FollowTopics
    <2> DEFINE T == [kind : {"Created", "Removed"}, topic : AnyTopic]
               e == [kind |-> "ServerSentTest", topic |-> Head(topic_notif).topic]
    <2>1. topic_notif' \in Seq(T) /\ Head(topic_notif) \in T
        BY <1>3, TailRange DEF FollowTopics, TypeOK, SwitchTypeOK
    <2>2. e \in Event
        BY <2>1 DEF Event
    <2>3. Append(new_event, e) \in Seq(Event)
        BY <2>2, AppendRange DEF TypeOK, SwitchTypeOK
    <2>4. new_event' \in Seq(Event)
        BY <1>3, <2>3 DEF FollowTopics, TypeOK, SwitchTypeOK
    <2> HIDE DEF e
    <2> QED BY <1>3, <2>1, <2>4 DEF FollowTopics, TypeOK, AppTypeOK, ServerTypeOK, SwitchTypeOK,
                appVars, clientVars, wireVars, loopVars, handlerVars
<1> QED BY <1>1, <1>2, <1>3 DEF SwitchStep

LEMMA TypeNext ==
    ASSUME TypeOK, [Next]_vars
    PROVE  TypeOK'
PROOF
<1>1. CASE UNCHANGED vars
    BY <1>1 DEF vars, appVars, clientVars, wireVars, loopVars, handlerVars, switchVars, TypeOK,
        AppTypeOK, ServerTypeOK, SwitchTypeOK
<1> QED BY <1>1, AppTypes, LoopTypes, HandlerTypes, SwitchTypes DEF Next, ServerStep

(* The session keeps its types, whatever the application calls and in       *)
(* whatever order its tasks run.                                            *)
THEOREM TypeCorrect == Spec => []TypeOK
PROOF BY TypeInit, TypeNext, PTL DEF Spec

-----------------------------------------------------------------------------
(* Calls and the lock.                                                       *)

(* A step that changes no call, and adds and takes no request or response. *)
LEMMA CallsFrame ==
    ASSUME CallsInv, UNCHANGED <<c2s, rpc_rx, call>>,
           \A m \in Range(s2c') : m.kind = "response" => m \in Range(s2c)
    PROVE  CallsInv'
PROOF BY DEF CallsInv

(* A handler's step: no call that is queued changes its state. *)
LEMMA CallsHandler ==
    ASSUME TypeOK, CallsInv, UNCHANGED <<c2s, s2c>>, NEW c \in Calls,
           call[c] \in {"running", "subscribing", "emitting", "returning"},
           NEW new, call' = [call EXCEPT ![c] = new],
           rpc_rx' = rpc_rx \/ (rpc_rx' = Append(rpc_rx, c) /\ new = "responded")
    PROVE  CallsInv'
PROOF
<1>1. /\ Range(c2s) \subseteq Calls /\ Range(rpc_rx) \subseteq Calls
      /\ Range(s2c) \subseteq Message
      /\ call \in [Calls -> {"idle", "requested", "running", "subscribing", "emitting",
                             "returning", "responded", "answered", "panicked"}]
    BY RangeType DEF TypeOK, ServerTypeOK, AppTypeOK
<1>2. \A d \in Calls \ {c} : call'[d] = call[d]
    BY <1>1
<1>3. c \notin Range(c2s) /\ c \notin Range(rpc_rx)
    BY DEF CallsInv
<1>4. \A d \in Range(rpc_rx') : call'[d] \in {"responded", "answered"}
    <2>1. Range(Append(rpc_rx, c)) = Range(rpc_rx) \cup {c}
        BY AppendRange DEF TypeOK, ServerTypeOK
    <2>2. \A d \in Range(rpc_rx) : call'[d] \in {"responded", "answered"}
        BY <1>1, <1>2, <1>3 DEF CallsInv
    <2>3. new = "responded" => call'[c] = "responded"
        BY <1>1
    <2> QED BY <2>1, <2>2, <2>3
<1>5. ASSUME NEW m \in Range(s2c), m.kind = "response"
      PROVE  call'[m.msg] \in {"responded", "answered"}
    <2>1. m.msg \in Calls
        BY <1>1, <1>5 DEF Message
    <2> QED BY <1>2, <1>5, <2>1 DEF CallsInv
<1> QED BY <1>1, <1>2, <1>3, <1>4, <1>5 DEF CallsInv

LEMMA CallsNext ==
    ASSUME TypeOK, CallsInv, [Next]_vars
    PROVE  CallsInv'
PROOF
<1> DEFINE CS == {"idle", "requested", "running", "subscribing", "emitting", "returning",
                  "responded", "answered", "panicked"}
<1>1. /\ Range(c2s) \subseteq Calls /\ Range(rpc_rx) \subseteq Calls
      /\ Range(s2c) \subseteq Message /\ c2s \in Seq(Calls) /\ rpc_rx \in Seq(Calls)
      /\ s2c \in Seq(Message) /\ call \in [Calls -> CS]
    BY RangeType DEF TypeOK, ServerTypeOK, AppTypeOK
<1>2. ASSUME NEW c \in Calls, Make(c) PROVE CallsInv'
    <2>1. /\ call[c] = "idle" /\ call' = [call EXCEPT ![c] = "requested"]
          /\ c2s' = Append(c2s, c) /\ UNCHANGED <<s2c, rpc_rx>>
        BY <1>2 DEF Make, loopVars
    <2>2. c \notin Range(c2s) /\ c \notin Range(rpc_rx)
        BY <2>1 DEF CallsInv
    <2>3. IsInjective(c2s') /\ Range(c2s') = Range(c2s) \cup {c}
        BY <1>1, <2>1, <2>2, AppendRange DEF CallsInv
    <2>4. \A d \in Calls : call'[d] = IF d = c THEN "requested" ELSE call[d]
        BY <1>1, <2>1
    <2>5. ASSUME NEW m \in Range(s2c), m.kind = "response"
          PROVE  call'[m.msg] \in {"responded", "answered"}
        <3>1. m.msg \in Calls
            BY <1>1, <2>5 DEF Message
        <3> QED BY <2>1, <2>4, <2>5, <3>1 DEF CallsInv
    <2> QED BY <1>1, <2>1, <2>2, <2>3, <2>4, <2>5 DEF CallsInv
<1>3. CASE AppStep \/ ApplyChanges \/ HandleProxied \/ SwitchStep \/ FollowTopics \/ UNCHANGED vars
    <2>1. UNCHANGED <<c2s, rpc_rx, call, s2c>>
        BY <1>3 DEF AppStep, PollState, DropReadGuard, ApplyChanges, HandleProxied, SwitchStep,
            RouteEvent, HandleNotification, FollowTopics, vars, appVars, clientVars, wireVars,
            loopVars, handlerVars, switchVars
    <2> QED BY <2>1, CallsFrame
<1>4. CASE ReceiveEvent \/ ReceiveChanges
    <2>1. UNCHANGED <<c2s, rpc_rx, call>> /\ s2c # <<>> /\ s2c' = Tail(s2c)
        BY <1>4 DEF ReceiveEvent, ReceiveChanges, Receive, loopVars
    <2>2. Range(s2c') \subseteq Range(s2c)
        BY <1>1, <2>1, TailRange
    <2> QED BY <2>1, <2>2, CallsFrame
<1>5. CASE ReceiveResponse
    <2> DEFINE c == Head(s2c).msg
    <2>1. /\ UNCHANGED <<c2s, rpc_rx>> /\ s2c # <<>> /\ s2c' = Tail(s2c)
          /\ Head(s2c).kind = "response" /\ call' = [call EXCEPT ![c] = "answered"]
        BY <1>5 DEF ReceiveResponse, Receive, loopVars
    <2>2. Range(s2c') \subseteq Range(s2c) /\ Head(s2c) \in Range(s2c)
        BY <1>1, <2>1, TailRange
    <2>3. c \in Calls /\ call[c] \in {"responded", "answered"}
        BY <1>1, <2>1, <2>2 DEF CallsInv, Message
    <2> HIDE DEF c
    <2>4. \A d \in Calls : call'[d] = IF d = c THEN "answered" ELSE call[d]
        BY <1>1, <2>1
    <2>5. ASSUME NEW m \in Range(s2c'), m.kind = "response"
          PROVE  call'[m.msg] \in {"responded", "answered"}
        <3>1. m.msg \in Calls
            BY <1>1, <2>2, <2>5 DEF Message
        <3> QED BY <2>2, <2>4, <2>5, <3>1 DEF CallsInv
    <2> QED BY <1>1, <2>1, <2>3, <2>4, <2>5 DEF CallsInv
<1>6. ASSUME NEW k, NEW x, SendMsg(k, x), k # "response", UNCHANGED <<c2s, rpc_rx, call>>,
             [kind |-> k, msg |-> x] \in Message
      PROVE  CallsInv'
    <2>1. Range(s2c') = Range(s2c) \cup {[kind |-> k, msg |-> x]}
        BY <1>1, <1>6, AppendRange DEF SendMsg
    <2> QED BY <1>6, <2>1, CallsFrame
<1>7. CASE SendResponse
    <2> DEFINE c == Head(rpc_rx)
               r == [kind |-> "response", msg |-> c]
    <2>1. /\ UNCHANGED <<c2s, call>> /\ rpc_rx # <<>> /\ rpc_rx' = Tail(rpc_rx)
          /\ s2c' = Append(s2c, r)
        BY <1>7 DEF SendResponse, Selects, Branches, SendMsg, appVars
    <2>2. Range(rpc_rx') \subseteq Range(rpc_rx) /\ c \in Range(rpc_rx) /\ r \in Message
        BY <1>1, <2>1, TailRange DEF Message
    <2>3. Range(s2c') = Range(s2c) \cup {r}
        BY <1>1, <2>1, <2>2, AppendRange
    <2> QED BY <1>1, <2>1, <2>2, <2>3 DEF CallsInv
<1>8. CASE SendEvent
    <2>1. events # <<>> /\ SendMsg("event", Head(events)) /\ UNCHANGED <<c2s, rpc_rx, call>>
        BY <1>8 DEF SendEvent, Selects, Branches, appVars
    <2>2. Head(events) \in Event
        BY <2>1, TailRange DEF TypeOK, ServerTypeOK
    <2>3. [kind |-> "event", msg |-> Head(events)] \in Message
        BY <2>2 DEF Message
    <2> QED BY <1>6, <2>1, <2>3
<1>9. ASSUME NEW i \in DOMAIN sending, SendChanges(i) PROVE CallsInv'
    <2>1. SendMsg("state", sending[i]) /\ UNCHANGED <<c2s, rpc_rx, call>>
        BY <1>9 DEF SendChanges, appVars
    <2>2. sending[i] \in Update
        BY DEF TypeOK, ServerTypeOK
    <2>3. [kind |-> "state", msg |-> sending[i]] \in Message
        BY <2>2 DEF Message
    <2> QED BY <1>6, <2>1, <2>3
<1>10. CASE ReceiveRequest
    <2> DEFINE c == Head(c2s)
    <2>1. /\ UNCHANGED <<s2c, rpc_rx>> /\ c2s # <<>> /\ c2s' = Tail(c2s)
          /\ call' = [call EXCEPT ![c] = "running"]
        BY <1>10 DEF ReceiveRequest, Selects, Branches
    <2>2. /\ Range(c2s') \subseteq Range(c2s) /\ c \in Range(c2s) /\ c \notin Range(c2s')
          /\ IsInjective(c2s')
        BY <1>1, <2>1, TailRange DEF CallsInv
    <2>3. c \in Calls /\ call[c] = "requested"
        BY <1>1, <2>2 DEF CallsInv
    <2> HIDE DEF c
    <2>4. \A d \in Calls : call'[d] = IF d = c THEN "running" ELSE call[d]
        BY <1>1, <2>1
    <2>5. ASSUME NEW m \in Range(s2c), m.kind = "response"
          PROVE  call'[m.msg] \in {"responded", "answered"}
        <3>1. m.msg \in Calls
            BY <1>1, <2>5 DEF Message
        <3> QED BY <2>3, <2>4, <2>5, <3>1 DEF CallsInv
    <2> QED BY <1>1, <2>1, <2>2, <2>3, <2>4, <2>5 DEF CallsInv
<1>11. ASSUME NEW c \in Calls, HandlerStep(c) PROVE CallsInv'
    <2>1. CASE NewCounter(c)
        BY <2>1, CallsHandler DEF NewCounter, Runs, Change, wireVars
    <2>2. CASE Increment(c) \/ Decrement(c)
        BY <2>2, CallsHandler DEF Increment, Decrement, Adjust, Assign, Panic, Runs, Change,
            wireVars, loopVars
    <2>3. CASE Get(c)
        BY <2>3, CallsHandler DEF Get, Runs, Respond, wireVars
    <2>4. CASE Emit(c)
        BY <2>4, CallsHandler DEF Emit, wireVars, loopVars
    <2>5. CASE Return(c)
        BY <2>5, CallsHandler DEF Return, Respond, wireVars
    <2>6. CASE AddSubscription(c)
        BY <2>6, CallsHandler DEF AddSubscription, wireVars
    <2> QED BY <1>11, <2>1, <2>2, <2>3, <2>4, <2>5, <2>6 DEF HandlerStep
<1> QED BY <1>2, <1>3, <1>4, <1>5, <1>7, <1>8, <1>9, <1>10, <1>11
    DEF Next, ClientStep, ServerStep, LoopStep

LEMMA LockFrame ==
    ASSUME LockInv, UNCHANGED <<lock, changes, emission, epochs>>,
           \A c \in Calls :
               \/ call'[c] = call[c]
               \/ /\ call[c] \notin {"subscribing", "emitting", "returning"}
                  /\ call'[c] \notin {"subscribing", "emitting", "returning"}
    PROVE  LockInv'
PROOF BY DEF LockInv

LEMMA LockNext ==
    ASSUME TypeOK, CallsInv, LockInv, [Next]_vars
    PROVE  LockInv'
PROOF
<1> DEFINE CS == {"idle", "requested", "running", "subscribing", "emitting", "returning",
                  "responded", "answered", "panicked"}
<1>1. /\ call \in [Calls -> CS] /\ changes \in Seq(ChangedEvent)
      /\ c2s \in Seq(Calls) /\ s2c \in Seq(Message)
      /\ emission \in [Calls -> Seq(ChangedEvent)]
    BY DEF TypeOK, ServerTypeOK, AppTypeOK
<1>2. ASSUME NEW c \in Calls, Make(c) PROVE LockInv'
    <2>1. /\ call[c] = "idle" /\ call' = [call EXCEPT ![c] = "requested"]
          /\ UNCHANGED <<lock, changes, emission, epochs>>
        BY <1>2 DEF Make, handlerVars
    <2> QED BY <1>1, <2>1, LockFrame
<1>3. CASE \/ AppStep \/ ApplyChanges \/ HandleProxied \/ SwitchStep \/ FollowTopics
           \/ UNCHANGED vars \/ ReceiveEvent \/ ReceiveChanges \/ SendResponse \/ SendEvent
           \/ \E i \in DOMAIN sending : SendChanges(i)
    <2>1. UNCHANGED <<lock, changes, emission, epochs, call>>
        BY <1>3 DEF AppStep, PollState, DropReadGuard, ApplyChanges, HandleProxied, SwitchStep,
            RouteEvent, HandleNotification, FollowTopics, ReceiveEvent, ReceiveChanges, Receive,
            SendResponse, SendEvent, SendChanges, vars, appVars, clientVars, wireVars,
            loopVars, handlerVars, switchVars
    <2> QED BY <2>1, LockFrame
<1>4. CASE ReceiveResponse
    <2> DEFINE c == Head(s2c).msg
    <2>1. /\ s2c # <<>> /\ Head(s2c).kind = "response" /\ call' = [call EXCEPT ![c] = "answered"]
          /\ UNCHANGED <<lock, changes, emission, epochs>>
        BY <1>4 DEF ReceiveResponse, Receive, handlerVars
    <2>2. Head(s2c) \in Range(s2c) /\ Head(s2c) \in Message
        BY <1>1, <2>1, TailRange
    <2>3. c \in Calls /\ call[c] \in {"responded", "answered"}
        BY <2>1, <2>2 DEF CallsInv, Message
    <2> HIDE DEF c
    <2> QED BY <1>1, <2>1, <2>3, LockFrame
<1>5. CASE ReceiveRequest
    <2> DEFINE c == Head(c2s)
    <2>1. /\ c2s # <<>> /\ call' = [call EXCEPT ![c] = "running"]
          /\ UNCHANGED <<lock, changes, emission, epochs>>
        BY <1>5 DEF ReceiveRequest, Selects, Branches, handlerVars
    <2>2. c \in Calls /\ call[c] = "requested"
        BY <1>1, <2>1, TailRange DEF CallsInv
    <2> HIDE DEF c
    <2> QED BY <1>1, <2>1, <2>2, LockFrame
<1>6. ASSUME NEW c \in Calls, HandlerStep(c) PROVE LockInv'
    <2>1. c # NoCall /\ \A d \in Calls : d # NoCall
        BY CallIds
    <2>2. CASE NewCounter(c)
        <3>1. /\ lock = NoCall /\ lock' = c /\ call' = [call EXCEPT ![c] = "subscribing"]
              /\ UNCHANGED <<changes, emission>>
            BY <2>2 DEF NewCounter, Runs, Change, GuardHeld
        <3>2. \A d \in Calls : call'[d] = IF d = c THEN "subscribing" ELSE call[d]
            BY <1>1, <3>1
        <3>3. \A d \in Calls : call'[d] # "emitting"
            BY <2>1, <3>1, <3>2 DEF LockInv
        <3>4. \A d \in Calls : call'[d] \in {"subscribing", "emitting", "returning"} <=> lock' = d
            BY <2>1, <3>1, <3>2 DEF LockInv
        <3>5. epochs' # <<>>
            <4>1. PICK t \in Topics : epochs' = Append(epochs, t)
                BY <2>2 DEF NewCounter
            <4> QED BY <4>1, AppendRange DEF TypeOK, ServerTypeOK
        <3> QED BY <3>3, <3>4, <3>5 DEF LockInv
    <2>8. CASE AddSubscription(c)
        <3>1. /\ call[c] = "subscribing" /\ call' = [call EXCEPT ![c] = "returning"]
              /\ UNCHANGED <<lock, changes, emission, epochs>>
            BY <2>8 DEF AddSubscription, handlerVars
        <3>2. \A d \in Calls : call'[d] = IF d = c THEN "returning" ELSE call[d]
            BY <1>1, <3>1
        <3> QED BY <3>1, <3>2 DEF LockInv
    <2>3. ASSUME NEW new \in Values, Assign(c, new), lock = NoCall,
                 epochs' = epochs
          PROVE  LockInv'
        <3>1. /\ lock' = c /\ call' = [call EXCEPT ![c] = "emitting"]
              /\ emission' = [emission EXCEPT ![c] = <<Changed(new)>>]
              /\ changes' = Append(changes, Changed(new))
            BY <2>3 DEF Assign, Change, GuardHeld
        <3>2. \A d \in Calls : call'[d] = IF d = c THEN "emitting" ELSE call[d]
            BY <1>1, <3>1
        <3>3. Changed(new) \in ChangedEvent
            <4>1. /\ Len(epochs) \in Nat /\ Len(changes) \in Nat
                  /\ state.counter \in Values /\ state.topic \in AnyTopic
                BY LenProperties DEF TypeOK, ServerTypeOK, State
            <4> QED BY <4>1 DEF Changed, ChangedEvent
        <3>4. changes' # <<>> /\ changes'[Len(changes')] = Changed(new)
            <4> DEFINE e == Changed(new)
            <4>1. e \in ChangedEvent
                BY <3>3
            <4> HIDE DEF e
            <4>2. Append(changes, e) # <<>> /\ Len(Append(changes, e)) = Len(changes) + 1
                BY <1>1, <4>1, AppendRange
            <4>3. Append(changes, e)[Len(changes) + 1] = e
                BY <1>1, <4>1, AppendProperties
            <4> QED BY <3>1, <4>2, <4>3 DEF e
        <3>5. emission'[c] = <<Changed(new)>>
            BY <1>1, <3>1
        <3>6. \A d \in Calls : call'[d] = "emitting" => d = c
            BY <2>1, <2>3, <3>2 DEF LockInv
        <3>7. \A d \in Calls : call'[d] \in {"subscribing", "emitting", "returning"} <=> lock' = d
            BY <2>1, <2>3, <3>1, <3>2 DEF LockInv
        <3>8. Changed(new).epoch = Len(epochs)
            BY DEF Changed
        <3>9. \A d \in Calls : call'[d] # "subscribing"
            BY <2>1, <2>3, <3>2 DEF LockInv
        <3> QED BY <2>3, <3>4, <3>5, <3>6, <3>7, <3>8, <3>9 DEF LockInv
    <2>4. CASE Increment(c) \/ Decrement(c)
        <3>1. lock = NoCall /\ call[c] = "running"
            BY <2>4 DEF Increment, Decrement, Runs
        <3>2. \A o \in Int : o % (MaxU32 + 1) \in Values
            BY SessionBounds DEF Values
        <3>3. state.counter \in Int
            BY SessionBounds DEF TypeOK, ServerTypeOK, State, Values
        <3>4. Panic(c) \/ \E new \in Values : Assign(c, new)
            BY <2>4, <3>2, <3>3 DEF Increment, Decrement, Adjust, Values
        <3>6. epochs' = epochs
            BY <2>4 DEF Increment, Decrement, Adjust
        <3>5. CASE Panic(c)
            <4>1. call' = [call EXCEPT ![c] = "panicked"] /\ UNCHANGED <<lock, changes, emission, epochs>>
                BY <2>4, <3>5 DEF Increment, Decrement, Adjust, Panic
            <4> QED BY <1>1, <3>1, <4>1, LockFrame
        <3> QED BY <2>3, <3>1, <3>4, <3>5, <3>6
    <2>5. CASE Get(c)
        <3>1. /\ call[c] = "running" /\ call' = [call EXCEPT ![c] = "responded"]
              /\ UNCHANGED <<lock, changes, emission, epochs>>
            BY <2>5 DEF Get, Runs, Respond, handlerVars
        <3> QED BY <1>1, <3>1, LockFrame
    <2>6. CASE Emit(c)
        <3>1. /\ call[c] = "emitting" /\ call' = [call EXCEPT ![c] = "returning"]
              /\ UNCHANGED <<lock, changes, emission, epochs>>
            BY <2>6 DEF Emit, handlerVars
        <3>2. \A d \in Calls : call'[d] = IF d = c THEN "returning" ELSE call[d]
            BY <1>1, <3>1
        <3> QED BY <3>1, <3>2 DEF LockInv
    <2>7. CASE Return(c)
        <3>1. /\ call[c] = "returning" /\ call' = [call EXCEPT ![c] = "responded"]
              /\ lock' = NoCall /\ UNCHANGED <<changes, epochs>>
              /\ emission' = [emission EXCEPT ![c] = <<>>]
            BY <2>7 DEF Return, Respond
        <3>2. \A d \in Calls : call'[d] = IF d = c THEN "responded" ELSE call[d]
            BY <1>1, <3>1
        <3>3. lock = c
            BY <3>1 DEF LockInv
        <3> QED BY <1>1, <2>1, <3>1, <3>2, <3>3 DEF LockInv
    <2> QED BY <1>6, <2>2, <2>4, <2>5, <2>6, <2>7, <2>8 DEF HandlerStep
<1> QED BY <1>2, <1>3, <1>4, <1>5, <1>6 DEF Next, ClientStep, ServerStep, LoopStep

-----------------------------------------------------------------------------
(* The way of a subscription.                                                *)

LEMMA Parity == \A j \in Nat : \E k \in Nat : j = 2 * k \/ j = 2 * k + 1
PROOF
<1> SUFFICES ASSUME NEW j \in Nat PROVE \E k \in Nat : j = 2 * k \/ j = 2 * k + 1
    OBVIOUS
<1>1. j \div 2 \in Nat /\ (j = 2 * (j \div 2) \/ j = 2 * (j \div 2) + 1)
    OBVIOUS
<1> QED BY <1>1

(* How many requests have been made. *)
LEMMA RequestedIs ==
    ASSUME Len(epochs) \in Nat
    PROVE  /\ Midway => Requested = 2 * Len(epochs) - 1
           /\ ~Midway => Requested = 2 * Len(epochs)
           /\ Requested \in Int
           /\ Requested <= 2 * Len(epochs) /\ Requested >= 2 * Len(epochs) - 1
PROOF
<1>1. CASE Midway
    BY <1>1 DEF Requested
<1>2. CASE ~Midway
    BY <1>2 DEF Requested
<1> QED BY <1>1, <1>2

LEMMA RequestedFrame ==
    ASSUME epochs' = epochs,
           \A c \in Calls : call'[c] = "subscribing" <=> call[c] = "subscribing"
    PROVE  Requested' = Requested
PROOF
<1>1. Midway' <=> Midway
    BY DEF Midway
<1>2. CASE Midway
    BY <1>1, <1>2 DEF Requested
<1>3. CASE ~Midway
    BY <1>1, <1>3 DEF Requested
<1> QED BY <1>2, <1>3

(* Only a handler that creates a counter is between two requests. *)
LEMMA RequestedSame ==
    ASSUME TypeOK, epochs' = epochs, NEW c \in Calls, NEW new,
           call' = [call EXCEPT ![c] = new],
           call[c] # "subscribing", new # "subscribing"
    PROVE  Requested' = Requested
PROOF
<1>1. \A d \in Calls : call'[d] = IF d = c THEN new ELSE call[d]
    BY DEF TypeOK, AppTypeOK
<1> QED BY <1>1, RequestedFrame

(* What the counts of the way are, and that a counter that is drawn changes  *)
(* no topic of an earlier one.                                               *)
LEMMA Counts ==
    ASSUME TypeOK, AskedInv
    PROVE  /\ Len(epochs) \in Nat /\ Len(proxied) \in Nat /\ Len(notifications) \in Nat
           /\ DOMAIN proxied = 1..Len(proxied)
           /\ DOMAIN notifications = 1..Len(notifications)
           /\ Asked \in Nat /\ Asked = Requested - Len(proxied)
           /\ Requested \in Int
           /\ Requested <= 2 * Len(epochs) /\ Requested >= 2 * Len(epochs) - 1
           /\ Sent \in Nat /\ Sent = IF Asked = 0 THEN 0 ELSE Asked - 1
           /\ Handled \in Int /\ Handled = Sent - Len(notifications)
PROOF
<1>1. /\ Len(epochs) \in Nat /\ Len(proxied) \in Nat /\ Len(notifications) \in Nat
      /\ DOMAIN proxied = 1..Len(proxied) /\ DOMAIN notifications = 1..Len(notifications)
    BY LenProperties DEF TypeOK, ServerTypeOK, SwitchTypeOK
<1>8. /\ Requested \in Int
      /\ Requested <= 2 * Len(epochs) /\ Requested >= 2 * Len(epochs) - 1
    BY <1>1, RequestedIs
<1>2. Asked \in Nat
    BY <1>1, <1>8 DEF Asked, AskedInv
<1>3. Asked = Requested - Len(proxied)
    BY DEF Asked
<1>4. Sent = IF Asked = 0 THEN 0 ELSE Asked - 1
    BY DEF Sent
<1>5. Sent \in Nat
    BY <1>2, <1>4
<1>6. Handled = Sent - Len(notifications)
    BY DEF Handled
<1>7. Handled \in Int
    BY <1>1, <1>5, <1>6
<1> QED BY <1>1, <1>2, <1>3, <1>4, <1>5, <1>6, <1>7, <1>8

LEMMA Topic ==
    ASSUME TypeOK, NEW k \in 0..Len(epochs)
    PROVE  TopicOf(k) \in AnyTopic /\ (TopicOf(k) = NoTopic <=> k = 0)
PROOF
<1>1. \A i \in 1..Len(epochs) : epochs[i] \in Topics /\ Len(epochs) \in Nat
    BY ElementOfSeq, LenProperties DEF TypeOK, ServerTypeOK
<1> QED BY <1>1, NoTopicAssumption DEF TopicOf, AnyTopic

LEMMA NewTopic ==
    ASSUME TypeOK, NEW t \in Topics, epochs' = Append(epochs, t)
    PROVE  /\ Len(epochs') = Len(epochs) + 1
           /\ \A k \in 0..Len(epochs) : TopicOf(k)' = TopicOf(k)
           /\ \A k : k = Len(epochs) + 1 => TopicOf(k)' = t
PROOF
<1>1. /\ Len(epochs) \in Nat /\ Len(epochs') = Len(epochs) + 1
      /\ epochs'[Len(epochs) + 1] = t
      /\ \A i \in 1..Len(epochs) : epochs'[i] = epochs[i]
    BY AppendProperties, LenProperties DEF TypeOK, ServerTypeOK
<1>2. ASSUME NEW k \in 0..Len(epochs) PROVE TopicOf(k)' = TopicOf(k)
    <2>1. CASE k = 0
        BY <2>1 DEF TopicOf
    <2>2. CASE k # 0
        <3>1. k \in 1..Len(epochs)
            BY <1>1, <2>2
        <3>2. epochs'[k] = epochs[k]
            BY <1>1, <3>1
        <3> QED BY <2>2, <3>2 DEF TopicOf
    <2> QED BY <2>1, <2>2
<1>3. ASSUME NEW k, k = Len(epochs) + 1 PROVE TopicOf(k)' = t
    <2>1. k # 0 /\ epochs'[k] = t
        BY <1>1, <1>3
    <2> QED BY <2>1 DEF TopicOf
<1> QED BY <1>1, <1>2, <1>3

LEMMA SubscriptionFrame ==
    ASSUME AskedInv, HandledInv, state'.topic = state.topic, Requested' = Requested,
           UNCHANGED <<epochs, proxied, local, notifications, subscriptions>>
    PROVE  AskedInv' /\ HandledInv'
PROOF
<1>1. Asked' = Asked /\ Sent' = Sent /\ Handled' = Handled
    BY DEF Asked, Sent, Handled
<1>2. \A k : TopicOf(k)' = TopicOf(k)
    BY DEF TopicOf
<1>3. AskedInv'
    BY <1>1, <1>2 DEF AskedInv
<1>4. HandledInv'
    BY <1>1, <1>2 DEF HandledInv
<1> QED BY <1>3, <1>4

LEMMA SubscriptionNewCounter ==
    ASSUME TypeOK, LockInv, AskedInv, HandledInv, NEW c \in Calls, NewCounter(c)
    PROVE  AskedInv' /\ HandledInv' /\ Handled' = Handled
PROOF
<1>0. PICK n \in Nat, L \in Nat : n = Len(epochs) /\ L = Len(proxied)
    BY Counts
<1>1. PICK t \in Topics :
        /\ Change(c, [counter |-> 0, topic |-> t], "subscribing")
        /\ epochs' = Append(epochs, t)
        /\ proxied' = Append(proxied, Resubscribe(state.topic, t, Len(epochs) + 1)[1])
    BY DEF NewCounter
<1>2. state'.topic = t /\ UNCHANGED <<local, notifications, subscriptions>>
    BY <1>1 DEF NewCounter, Change, switchVars
<1>3. /\ n = Len(epochs) /\ L = Len(proxied)
      /\ n \in Nat /\ L \in Nat /\ DOMAIN proxied = 1..L
      /\ Asked \in Nat /\ Asked = 2 * n - L
      /\ Sent = IF Asked = 0 THEN 0 ELSE Asked - 1
      /\ Handled \in Int /\ Handled = Sent - Len(notifications) /\ Len(notifications) \in Nat
      /\ DOMAIN notifications = 1..Len(notifications)
    <2>1. ~Midway
        BY CallIds DEF NewCounter, Runs, LockInv, Midway
    <2>2. Requested = 2 * n
        BY <1>0, <2>1, RequestedIs
    <2> QED BY <1>0, <2>2, Counts
<1>4. /\ Len(epochs') = n + 1 /\ TopicOf(n + 1)' = t
      /\ \A k \in 0..n : TopicOf(k)' = TopicOf(k)
    BY <1>0, <1>1, NewTopic
<1>5. /\ Len(proxied') = L + 1 /\ DOMAIN proxied' = 1..(L + 1)
      /\ \A i \in 1..L : proxied'[i] = proxied[i]
      /\ proxied'[L + 1] = [op |-> "Unsubscribe", topic |-> state.topic, epoch |-> n + 1]
    <2> DEFINE r == Resubscribe(state.topic, t, Len(epochs) + 1)[1]
               P == [op : SubOps, topic : AnyTopic, epoch : Nat]
    <2>1. r = [op |-> "Unsubscribe", topic |-> state.topic, epoch |-> n + 1]
        BY <1>0 DEF Resubscribe, Proxy
    <2>2. proxied \in Seq(P) /\ state.topic \in AnyTopic
        BY DEF TypeOK, ServerTypeOK, State
    <2>3. r \in P
        BY <1>3, <2>1, <2>2
    <2>4. proxied' = Append(proxied, r)
        BY <1>1
    <2> HIDE DEF r, P
    <2>5. /\ proxied' \in Seq(P) /\ Len(proxied') = L + 1
          /\ \A i \in 1..L : proxied'[i] = proxied[i]
          /\ proxied'[L + 1] = r
        BY <1>0, <2>2, <2>3, <2>4, AppendProperties
    <2>6. DOMAIN proxied' = 1..(L + 1)
        BY <2>5, LenProperties
    <2> QED BY <2>1, <2>5, <2>6
<1>6. Asked' = Asked /\ Sent' = Sent /\ Handled' = Handled
    <2>1. Requested' = 2 * (n + 1) - 1
        <3>1. call'[c] = "subscribing"
            BY <1>1 DEF Change, TypeOK, AppTypeOK
        <3>2. Midway'
            BY <3>1 DEF Midway
        <3> QED BY <1>4, <3>2 DEF Requested
    <2>2. Asked' = (2 * (n + 1) - 1) - (L + 1)
        BY <1>5, <2>1 DEF Asked
    <2>3. Asked' = Asked
        BY <1>3, <2>2
    <2> QED BY <1>2, <2>3 DEF Sent, Handled
<1>7. AskedInv'
    <2>1. ASSUME NEW i \in 1..(L + 1), NEW k \in 1..(n + 1)
          PROVE  /\ Asked + i = 2 * k - 1 => proxied'[i] =
                      [op |-> "Unsubscribe", topic |-> TopicOf(k - 1)', epoch |-> k]
                 /\ Asked + i = 2 * k => proxied'[i] =
                      [op |-> "Subscribe", topic |-> TopicOf(k)', epoch |-> k]
        <3>1. CASE i <= L /\ k <= n
            <4>1. i \in 1..L /\ k \in 1..n /\ k \in 0..n /\ k - 1 \in 0..n
                BY <1>3, <3>1
            <4>2. TopicOf(k - 1)' = TopicOf(k - 1) /\ TopicOf(k)' = TopicOf(k)
                BY <1>4, <4>1
            <4>3. i \in DOMAIN proxied /\ k \in 1..Len(epochs) /\ proxied'[i] = proxied[i]
                BY <1>0, <1>3, <1>5, <4>1
            <4>4. /\ Asked + i = 2 * k - 1 => proxied[i] =
                       [op |-> "Unsubscribe", topic |-> TopicOf(k - 1), epoch |-> k]
                  /\ Asked + i = 2 * k => proxied[i] =
                       [op |-> "Subscribe", topic |-> TopicOf(k), epoch |-> k]
                BY <4>3, Zenon DEF AskedInv
            <4> QED BY <4>2, <4>3, <4>4, Zenon
        <3>2. CASE i <= L /\ k = n + 1
            BY <1>3, <3>2
        <3>3. CASE i = L + 1
            <4>1. Asked + i # 2 * k /\ (Asked + i = 2 * k - 1 => k = n + 1 /\ k - 1 = n)
                BY <1>3, <3>3
            <4>2. TopicOf(n)' = state.topic
                BY <1>3, <1>4 DEF AskedInv
            <4> QED BY <1>5, <3>3, <4>1, <4>2
        <3>4. (i <= L \/ i = L + 1) /\ (k <= n \/ k = n + 1)
            BY <1>0
        <3> QED BY <3>1, <3>2, <3>3, <3>4, Zenon
    <2>2. ASSUME NEW k \in 0..(n + 1), NEW u \in AnyTopic
          PROVE  /\ Asked = 2 * k => local[u] = IF u = TopicOf(k)' THEN k ELSE 0
                 /\ Asked = 2 * k + 1 => local[u] = 0
        <3>1. CASE k = n + 1
            BY <1>3, <3>1
        <3>2. CASE k # n + 1
            <4>1. k \in 0..n /\ k \in 0..Len(epochs)
                BY <1>0, <3>2
            <4>2. TopicOf(k)' = TopicOf(k)
                BY <1>4, <4>1
            <4>3. /\ Asked = 2 * k => local[u] = IF u = TopicOf(k) THEN k ELSE 0
                  /\ Asked = 2 * k + 1 => local[u] = 0
                BY <4>1, Zenon DEF AskedInv
            <4> QED BY <4>2, <4>3, Zenon
        <3> QED BY <3>1, <3>2
    <2>3. state'.topic = TopicOf(Len(epochs))'
        <3>1. Len(epochs') # 0 /\ n + 1 # 0 /\ Len(epochs') = n + 1
            BY <1>0, <1>4
        <3> QED BY <1>2, <1>4, <3>1 DEF TopicOf
    <2>4. Asked' >= 0
        BY <1>3, <1>6
    <2>5. \A i \in DOMAIN proxied' : \A k \in 1..Len(epochs') :
            /\ Asked' + i = 2 * k - 1 => proxied'[i] =
                 [op |-> "Unsubscribe", topic |-> TopicOf(k - 1)', epoch |-> k]
            /\ Asked' + i = 2 * k => proxied'[i] =
                 [op |-> "Subscribe", topic |-> TopicOf(k)', epoch |-> k]
        BY <1>4, <1>5, <1>6, <2>1, ZenonT(40)
    <2>6. \A k \in 0..Len(epochs') : \A u \in AnyTopic :
            /\ Asked' = 2 * k => local'[u] = IF u = TopicOf(k)' THEN k ELSE 0
            /\ Asked' = 2 * k + 1 => local'[u] = 0
        BY <1>2, <1>4, <1>6, <2>2, Zenon
    <2> QED BY <2>3, <2>4, <2>5, <2>6, Zenon DEF AskedInv
<1>8. HandledInv'
    <2>1. ASSUME NEW i \in DOMAIN notifications, NEW k \in 1..(n + 1)
          PROVE  /\ Handled + i = 2 * k - 1 => notifications[i] =
                      [op |-> "Subscribe", topic |-> TopicOf(k)', id |-> k]
                 /\ Handled + i = 2 * k => notifications[i] =
                      [op |-> "Unsubscribe", topic |-> TopicOf(k)', id |-> k]
        <3>1. CASE k = n + 1
            BY <1>3, <3>1
        <3>2. CASE k # n + 1
            <4>1. k \in 1..Len(epochs) /\ k \in 0..n
                BY <1>0, <3>2
            <4>2. TopicOf(k)' = TopicOf(k)
                BY <1>4, <4>1
            <4>3. /\ Handled + i = 2 * k - 1 => notifications[i] =
                       [op |-> "Subscribe", topic |-> TopicOf(k), id |-> k]
                  /\ Handled + i = 2 * k => notifications[i] =
                       [op |-> "Unsubscribe", topic |-> TopicOf(k), id |-> k]
                BY <4>1, Zenon DEF HandledInv
            <4> QED BY <4>2, <4>3, Zenon
        <3> QED BY <3>1, <3>2
    <2>2. ASSUME NEW k \in 0..(n + 1)
          PROVE  /\ Handled = 2 * k - 1 => subscriptions = {[topic |-> TopicOf(k)', id |-> k]}
                 /\ Handled = 2 * k => subscriptions = {}
        <3>1. CASE k = n + 1
            BY <1>3, <3>1
        <3>2. CASE k # n + 1
            <4>1. k \in 0..n /\ k \in 0..Len(epochs)
                BY <1>0, <3>2
            <4>2. TopicOf(k)' = TopicOf(k)
                BY <1>4, <4>1
            <4>3. /\ Handled = 2 * k - 1 => subscriptions = {[topic |-> TopicOf(k), id |-> k]}
                  /\ Handled = 2 * k => subscriptions = {}
                BY <4>1, Zenon DEF HandledInv
            <4> QED BY <4>2, <4>3, Zenon
        <3> QED BY <3>1, <3>2
    <2>3. Handled >= 0
        BY DEF HandledInv
    <2> QED BY <1>2, <1>4, <1>6, <2>1, <2>2, <2>3 DEF HandledInv
<1> QED BY <1>6, <1>7, <1>8

LEMMA SubscriptionAdded ==
    ASSUME TypeOK, LockInv, AskedInv, HandledInv, NEW c \in Calls, AddSubscription(c)
    PROVE  AskedInv' /\ HandledInv' /\ Handled' = Handled
PROOF
<1>0. PICK n \in Nat, L \in Nat : n = Len(epochs) /\ L = Len(proxied)
    BY Counts
<1>1. /\ call[c] = "subscribing" /\ call' = [call EXCEPT ![c] = "returning"]
      /\ proxied' = Append(proxied,
                           Resubscribe(starting_state.topic, state.topic, Len(epochs))[2])
      /\ UNCHANGED <<state, epochs, local, notifications, subscriptions>>
    BY DEF AddSubscription, handlerVars, switchVars
<1>2. /\ DOMAIN proxied = 1..L /\ Asked \in Nat /\ Asked = (2 * n - 1) - L /\ n >= 1
    <2>1. Midway /\ epochs # <<>>
        BY <1>1 DEF Midway, LockInv
    <2>2. Requested = 2 * n - 1
        BY <1>0, <2>1, RequestedIs
    <2>3. Len(epochs) # 0
        BY <2>1, EmptySeq DEF TypeOK, ServerTypeOK
    <2> QED BY <1>0, <2>2, <2>3, Counts
<1>3. /\ Len(proxied') = L + 1 /\ DOMAIN proxied' = 1..(L + 1)
      /\ \A i \in 1..L : proxied'[i] = proxied[i]
      /\ proxied'[L + 1] = [op |-> "Subscribe", topic |-> state.topic, epoch |-> n]
    <2> DEFINE r == Resubscribe(starting_state.topic, state.topic, Len(epochs))[2]
               P == [op : SubOps, topic : AnyTopic, epoch : Nat]
    <2>1. r = [op |-> "Subscribe", topic |-> state.topic, epoch |-> n]
        BY <1>0 DEF Resubscribe, Proxy
    <2>2. proxied \in Seq(P) /\ state.topic \in AnyTopic
        BY DEF TypeOK, ServerTypeOK, State
    <2>3. r \in P
        BY <2>1, <2>2
    <2>4. proxied' = Append(proxied, r)
        BY <1>1
    <2> HIDE DEF r, P
    <2>5. /\ proxied' \in Seq(P) /\ Len(proxied') = L + 1
          /\ \A i \in 1..L : proxied'[i] = proxied[i]
          /\ proxied'[L + 1] = r
        BY <1>0, <2>2, <2>3, <2>4, AppendProperties
    <2>6. DOMAIN proxied' = 1..(L + 1)
        BY <2>5, LenProperties
    <2> QED BY <2>1, <2>5, <2>6
<1>4. Asked' = Asked /\ Sent' = Sent /\ Handled' = Handled
    <2>1. Requested' = 2 * n
        <3>1. \A d \in Calls : call[d] = "subscribing" => d = c
            BY <1>1 DEF LockInv
        <3>2. \A d \in Calls : call'[d] = IF d = c THEN "returning" ELSE call[d]
            BY <1>1 DEF TypeOK, AppTypeOK
        <3>3. ~Midway'
            BY <3>1, <3>2 DEF Midway
        <3> QED BY <1>0, <1>1, <3>3 DEF Requested
    <2>2. Asked' = 2 * n - (L + 1)
        BY <1>3, <2>1 DEF Asked
    <2>3. Asked' = Asked
        BY <1>2, <2>2
    <2> QED BY <1>1, <2>3 DEF Sent, Handled
<1>5. \A k : TopicOf(k)' = TopicOf(k)
    BY <1>1 DEF TopicOf
<1>6. ASSUME NEW i \in DOMAIN proxied', NEW k \in 1..Len(epochs)
      PROVE  /\ Asked + i = 2 * k - 1 => proxied'[i] =
                  [op |-> "Unsubscribe", topic |-> TopicOf(k - 1), epoch |-> k]
             /\ Asked + i = 2 * k => proxied'[i] =
                  [op |-> "Subscribe", topic |-> TopicOf(k), epoch |-> k]
    <2>1. CASE i = L + 1
        <3>1. Asked + i # 2 * k - 1 /\ (Asked + i = 2 * k => k = n)
            BY <1>0, <1>2, <2>1
        <3>2. state.topic = TopicOf(n)
            BY <1>0 DEF AskedInv
        <3> QED BY <1>3, <2>1, <3>1, <3>2
    <2>2. CASE i # L + 1
        <3>1. i \in DOMAIN proxied /\ proxied'[i] = proxied[i]
            BY <1>0, <1>2, <1>3, <2>2
        <3>2. /\ Asked + i = 2 * k - 1 => proxied[i] =
                   [op |-> "Unsubscribe", topic |-> TopicOf(k - 1), epoch |-> k]
              /\ Asked + i = 2 * k => proxied[i] =
                   [op |-> "Subscribe", topic |-> TopicOf(k), epoch |-> k]
            BY <3>1, Zenon DEF AskedInv
        <3> QED BY <3>1, <3>2, Zenon
    <2> QED BY <2>1, <2>2
<1>7. AskedInv'
    <2>1. \A i \in DOMAIN proxied' : \A k \in 1..Len(epochs') :
            /\ Asked' + i = 2 * k - 1 => proxied'[i] =
                 [op |-> "Unsubscribe", topic |-> TopicOf(k - 1)', epoch |-> k]
            /\ Asked' + i = 2 * k => proxied'[i] =
                 [op |-> "Subscribe", topic |-> TopicOf(k)', epoch |-> k]
        BY <1>1, <1>4, <1>5, <1>6, Zenon
    <2>2. \A k \in 0..Len(epochs') : \A u \in AnyTopic :
            /\ Asked' = 2 * k => local'[u] = IF u = TopicOf(k)' THEN k ELSE 0
            /\ Asked' = 2 * k + 1 => local'[u] = 0
        BY <1>1, <1>4, <1>5, Zenon DEF AskedInv
    <2>3. state'.topic = TopicOf(Len(epochs))' /\ Asked' >= 0
        BY <1>1, <1>4, <1>5 DEF AskedInv
    <2> QED BY <2>1, <2>2, <2>3, Zenon DEF AskedInv
<1>8. HandledInv'
    BY <1>1, <1>4, <1>5 DEF HandledInv
<1> QED BY <1>4, <1>7, <1>8

(* The k-th counter's subscription and its end, as the loop is asked for     *)
(* them and as it passes them on.                                            *)
LEMMA SubscriptionProxied ==
    ASSUME TypeOK, AskedInv, HandledInv, HandleProxied
    PROVE  AskedInv' /\ HandledInv' /\ Handled' = Handled
PROOF
<1>0. PICK n \in Nat, L \in Nat, a \in Nat, M \in Nat :
        /\ n = Len(epochs) /\ L = Len(proxied) /\ a = Asked /\ M = Len(notifications)
    BY Counts
<1>1. /\ DOMAIN proxied = 1..L /\ DOMAIN notifications = 1..M /\ a = Requested - L
      /\ Requested \in Int /\ Requested <= 2 * n
      /\ Sent = IF a = 0 THEN 0 ELSE a - 1
      /\ Handled \in Int /\ Handled = Sent - M
    BY <1>0, Counts
<1> DEFINE p == Head(proxied)
           id == IF p.op = "Subscribe" THEN p.epoch ELSE local[p.topic]
           msg == [op |-> p.op, topic |-> p.topic, id |-> id]
           passed == (p.op = "Subscribe") = (local[p.topic] = 0)
           R == [op : SubOps, topic : AnyTopic, epoch : Nat]
           N == [op : SubOps, topic : AnyTopic, id : Nat]
<1>2. /\ proxied # <<>> /\ proxied' = Tail(proxied) /\ UNCHANGED <<state, epochs, subscriptions>>
      /\ IF passed
         THEN /\ local' = [local EXCEPT ![p.topic] = IF p.op = "Subscribe" THEN id ELSE 0]
              /\ notifications' = Append(notifications, msg)
         ELSE local' = local /\ notifications' = notifications
    BY DEF HandleProxied, Selects, Branches, handlerVars
<1>18. Requested' = Requested
    <2>1. call' = call /\ epochs' = epochs
        BY DEF HandleProxied, appVars, handlerVars
    <2> QED BY <2>1, RequestedFrame
<1>3. /\ proxied \in Seq(R) /\ notifications \in Seq(N) /\ local \in [AnyTopic -> Nat]
    BY DEF TypeOK, ServerTypeOK, SwitchTypeOK
<1>4. /\ L >= 1 /\ Len(proxied') = L - 1 /\ DOMAIN proxied' = 1..(L - 1)
      /\ \A i \in 1..(L - 1) : proxied'[i] = proxied[i + 1]
      /\ p = proxied[1] /\ p \in R
    <2> HIDE DEF R
    <2> QED BY <1>0, <1>2, <1>3, TailItems
<1>5. id \in Nat /\ msg \in N
    <2>1. p.op \in SubOps /\ p.topic \in AnyTopic /\ p.epoch \in Nat
        BY <1>4
    <2>2. id \in Nat
        BY <1>3, <2>1
    <2> HIDE DEF id, p
    <2> QED BY <2>1, <2>2
<1>6. Asked' = a + 1 /\ Sent' = a
    <2>1. Asked' = Requested - (L - 1)
        BY <1>4, <1>18 DEF Asked
    <2>2. Asked' = a + 1
        BY <1>0, <1>1, <2>1
    <2> QED BY <1>0, <2>2 DEF Sent
<1>7. \A k : TopicOf(k)' = TopicOf(k)
    BY <1>2 DEF TopicOf
<1> HIDE DEF p, id, msg, passed
(* What is left to ask is unchanged, one place further on. *)
<1>8. ASSUME NEW i \in DOMAIN proxied', NEW k \in 1..Len(epochs')
      PROVE  /\ Asked' + i = 2 * k - 1 => proxied'[i] =
                  [op |-> "Unsubscribe", topic |-> TopicOf(k - 1)', epoch |-> k]
             /\ Asked' + i = 2 * k => proxied'[i] =
                  [op |-> "Subscribe", topic |-> TopicOf(k)', epoch |-> k]
    <2>1. /\ i + 1 \in DOMAIN proxied /\ proxied'[i] = proxied[i + 1] /\ k \in 1..Len(epochs)
          /\ Asked' + i = Asked + (i + 1)
        <3>1. i \in 1..(L - 1)
            BY <1>4
        <3>2. i + 1 \in 1..L /\ (a + 1) + i = a + (i + 1)
            BY <1>0, <3>1
        <3> QED BY <1>0, <1>1, <1>2, <1>4, <1>6, <3>1, <3>2
    <2>2. /\ Asked + (i + 1) = 2 * k - 1 => proxied[i + 1] =
               [op |-> "Unsubscribe", topic |-> TopicOf(k - 1), epoch |-> k]
          /\ Asked + (i + 1) = 2 * k => proxied[i + 1] =
               [op |-> "Subscribe", topic |-> TopicOf(k), epoch |-> k]
        BY <2>1, Zenon DEF AskedInv
    <2> QED BY <1>7, <2>1, <2>2, Zenon
<1>9. state'.topic = TopicOf(Len(epochs))' /\ Asked' >= 0
    BY <1>2, <1>6, <1>7 DEF AskedInv
(* A step that leaves the notifications of the switch as they are. *)
<1>10. ASSUME NEW i \in DOMAIN notifications, NEW k \in 1..Len(epochs)
       PROVE  /\ Handled + i = 2 * k - 1 => notifications[i] =
                   [op |-> "Subscribe", topic |-> TopicOf(k), id |-> k]
              /\ Handled + i = 2 * k => notifications[i] =
                   [op |-> "Unsubscribe", topic |-> TopicOf(k), id |-> k]
    BY Zenon DEF HandledInv
<1>11. ASSUME Handled' = Handled,
              \A i \in DOMAIN notifications' : \A k \in 1..Len(epochs) :
                /\ Handled + i = 2 * k - 1 => notifications'[i] =
                     [op |-> "Subscribe", topic |-> TopicOf(k), id |-> k]
                /\ Handled + i = 2 * k => notifications'[i] =
                     [op |-> "Unsubscribe", topic |-> TopicOf(k), id |-> k]
       PROVE  HandledInv' /\ Handled' = Handled
    <2>1. /\ Handled' >= 0
          /\ \A k \in 0..Len(epochs') :
               /\ Handled' = 2 * k - 1 => subscriptions' = {[topic |-> TopicOf(k)', id |-> k]}
               /\ Handled' = 2 * k => subscriptions' = {}
        BY <1>2, <1>7, <1>11, Zenon DEF HandledInv
    <2>2. \A i \in DOMAIN notifications' : \A k \in 1..Len(epochs') :
            /\ Handled' + i = 2 * k - 1 => notifications'[i] =
                 [op |-> "Subscribe", topic |-> TopicOf(k)', id |-> k]
            /\ Handled' + i = 2 * k => notifications'[i] =
                 [op |-> "Unsubscribe", topic |-> TopicOf(k)', id |-> k]
        BY <1>2, <1>7, <1>11, Zenon
    <2>3. HandledInv'
        BY <2>1, <2>2, Zenon DEF HandledInv
    <2> QED BY <1>11, <2>3
(* A notification is passed on, the one that is due. *)
<1>12. ASSUME notifications' = Append(notifications, msg), a > 0,
              \A k \in 1..Len(epochs) :
                /\ a = 2 * k - 1 => msg =
                     [op |-> "Subscribe", topic |-> TopicOf(k), id |-> k]
                /\ a = 2 * k => msg =
                     [op |-> "Unsubscribe", topic |-> TopicOf(k), id |-> k]
       PROVE  HandledInv' /\ Handled' = Handled
    <2>1. /\ Len(notifications') = M + 1 /\ DOMAIN notifications' = 1..(M + 1)
          /\ \A i \in 1..M : notifications'[i] = notifications[i]
          /\ notifications'[M + 1] = msg
        BY <1>0, <1>3, <1>5, <1>12, AppendProperties, LenProperties
    <2>2. Handled' = Handled /\ Handled + (M + 1) = a
        <3>1. Handled' = Sent' - (M + 1)
            BY <2>1 DEF Handled
        <3> QED BY <1>1, <1>6, <1>12, <3>1
    <2>3. ASSUME NEW i \in DOMAIN notifications', NEW k \in 1..Len(epochs)
          PROVE  /\ Handled + i = 2 * k - 1 => notifications'[i] =
                      [op |-> "Subscribe", topic |-> TopicOf(k), id |-> k]
                 /\ Handled + i = 2 * k => notifications'[i] =
                      [op |-> "Unsubscribe", topic |-> TopicOf(k), id |-> k]
        <3>1. CASE i = M + 1
            BY <1>12, <2>1, <2>2, <3>1, Zenon
        <3>2. CASE i # M + 1
            <4>1. i \in DOMAIN notifications /\ notifications'[i] = notifications[i]
                BY <1>0, <1>1, <2>1, <3>2
            <4> QED BY <1>10, <4>1, Zenon
        <3> QED BY <3>1, <3>2
    <2> QED BY <1>11, <2>2, <2>3
<1>13. PICK k \in Nat : a = 2 * k \/ a = 2 * k + 1
    BY Parity
<1>14. k + 1 \in 1..Len(epochs) /\ k \in 0..Len(epochs) /\ 1 \in DOMAIN proxied
    <2>1. a <= 2 * n - 1 /\ 1 \in 1..L
        BY <1>0, <1>1, <1>4
    <2>2. k + 1 \in 1..n /\ k \in 0..n
        BY <1>0, <1>13, <2>1
    <2> QED BY <1>0, <1>1, <2>1, <2>2
<1>15. TopicOf(k) \in AnyTopic /\ (TopicOf(k) = NoTopic <=> k = 0) /\ TopicOf(k + 1) \in AnyTopic
    BY <1>14, Topic
<1>16. CASE a = 2 * k
    <2>1. p = [op |-> "Unsubscribe", topic |-> TopicOf(k), epoch |-> k + 1]
        <3>1. Asked + 1 = 2 * (k + 1) - 1 /\ (k + 1) - 1 = k
            BY <1>0, <1>16
        <3>2. Asked + 1 = 2 * (k + 1) - 1 => proxied[1] =
                [op |-> "Unsubscribe", topic |-> TopicOf((k + 1) - 1), epoch |-> k + 1]
            BY <1>14, Zenon DEF AskedInv
        <3> QED BY <1>4, <3>1, <3>2
    <2>2. \A t \in AnyTopic : local[t] = IF t = TopicOf(k) THEN k ELSE 0
        <3>1. Asked = 2 * k
            BY <1>0, <1>16
        <3> QED BY <1>14, <3>1, Zenon DEF AskedInv
    <2>3. p.op = "Unsubscribe" /\ p.topic = TopicOf(k) /\ p.topic \in AnyTopic
        BY <1>15, <2>1
    <2>4. local[p.topic] = k
        BY <2>2, <2>3
    <2>5. \A t \in AnyTopic : local'[t] = 0
        <3>1. CASE k = 0
            <4>1. ~passed
                BY <2>3, <2>4, <3>1 DEF passed
            <4> QED BY <1>2, <2>2, <3>1, <4>1
        <3>2. CASE k # 0
            <4>1. passed
                BY <2>3, <2>4, <3>2 DEF passed
            <4>2. local' = [local EXCEPT ![p.topic] = 0]
                BY <1>2, <2>3, <4>1
            <4> QED BY <1>3, <2>2, <2>3, <4>2
        <3> QED BY <3>1, <3>2
    <2>6. AskedInv'
        <3>1. \A j \in 0..Len(epochs') : \A t \in AnyTopic :
                /\ Asked' = 2 * j => local'[t] = IF t = TopicOf(j)' THEN j ELSE 0
                /\ Asked' = 2 * j + 1 => local'[t] = 0
            <4>1. \A j \in 0..Len(epochs') : Asked' # 2 * j
                BY <1>0, <1>2, <1>6, <1>16
            <4> QED BY <2>5, <4>1, Zenon
        <3> QED BY <1>8, <1>9, <3>1, Zenon DEF AskedInv
    <2>7. HandledInv' /\ Handled' = Handled
        <3>1. CASE k = 0
            <4>1. ~passed
                BY <2>3, <2>4, <3>1 DEF passed
            <4>2. notifications' = notifications
                BY <1>2, <4>1
            <4>3. Handled' = Handled
                <5>1. Sent' = Sent
                    BY <1>1, <1>6, <1>16, <3>1
                <5> QED BY <4>2, <5>1 DEF Handled
            <4> QED BY <1>10, <1>11, <4>2, <4>3, Zenon
        <3>2. CASE k # 0
            <4>1. passed
                BY <2>3, <2>4, <3>2 DEF passed
            <4>2. id = k
                BY <2>3, <2>4 DEF id
            <4>3. msg = [op |-> "Unsubscribe", topic |-> TopicOf(k), id |-> k]
                BY <2>3, <4>2 DEF msg
            <4>4. ASSUME NEW j \in 1..Len(epochs)
                  PROVE  a # 2 * j - 1 /\ (a = 2 * j => j = k)
                BY <1>0, <1>16
            <4>5. notifications' = Append(notifications, msg) /\ a > 0
                BY <1>2, <1>16, <3>2, <4>1
            <4> QED BY <1>12, <4>3, <4>4, <4>5, Zenon
        <3> QED BY <3>1, <3>2
    <2> QED BY <2>6, <2>7
<1>17. CASE a = 2 * k + 1
    <2>1. p = [op |-> "Subscribe", topic |-> TopicOf(k + 1), epoch |-> k + 1]
        <3>1. Asked + 1 = 2 * (k + 1)
            BY <1>0, <1>17
        <3>2. Asked + 1 = 2 * (k + 1) => proxied[1] =
                [op |-> "Subscribe", topic |-> TopicOf(k + 1), epoch |-> k + 1]
            BY <1>14, Zenon DEF AskedInv
        <3> QED BY <1>4, <3>1, <3>2
    <2>2. \A t \in AnyTopic : local[t] = 0
        <3>1. Asked = 2 * k + 1
            BY <1>0, <1>17
        <3> QED BY <1>14, <3>1, Zenon DEF AskedInv
    <2>3. /\ p.op = "Subscribe" /\ p.topic = TopicOf(k + 1) /\ p.topic \in AnyTopic
          /\ p.epoch = k + 1
        BY <1>15, <2>1
    <2>4. passed /\ id = k + 1
        BY <2>2, <2>3 DEF passed, id
    <2>5. local' = [local EXCEPT ![p.topic] = id]
        BY <1>2, <2>3, <2>4
    <2>6. \A t \in AnyTopic : local'[t] = IF t = TopicOf(k + 1) THEN k + 1 ELSE 0
        BY <1>3, <2>2, <2>3, <2>4, <2>5
    <2>7. AskedInv'
        <3>1. ASSUME NEW j \in 0..Len(epochs'), NEW t \in AnyTopic
              PROVE  /\ Asked' = 2 * j => local'[t] = IF t = TopicOf(j)' THEN j ELSE 0
                     /\ Asked' = 2 * j + 1 => local'[t] = 0
            <4>1. (Asked' = 2 * j => j = k + 1) /\ Asked' # 2 * j + 1
                BY <1>0, <1>2, <1>6, <1>17
            <4> QED BY <1>7, <2>6, <4>1, Zenon
        <3> QED BY <1>8, <1>9, <3>1, Zenon DEF AskedInv
    <2>8. HandledInv' /\ Handled' = Handled
        <3>1. msg = [op |-> "Subscribe", topic |-> TopicOf(k + 1), id |-> k + 1]
            BY <2>3, <2>4 DEF msg
        <3>2. ASSUME NEW j \in 1..Len(epochs)
              PROVE  a # 2 * j /\ (a = 2 * j - 1 => j = k + 1)
            BY <1>0, <1>17
        <3>3. notifications' = Append(notifications, msg) /\ a > 0
            BY <1>2, <1>17, <2>4
        <3> QED BY <1>12, <3>1, <3>2, <3>3, Zenon
    <2> QED BY <2>7, <2>8
<1> QED BY <1>13, <1>16, <1>17

LEMMA SubscriptionHandled ==
    ASSUME TypeOK, AskedInv, HandledInv, HandleNotification
    PROVE  AskedInv' /\ HandledInv' /\ Handled' = Handled + 1
PROOF
<1>0. PICK n \in Nat, M \in Nat, h \in Int :
        n = Len(epochs) /\ M = Len(notifications) /\ h = Handled
    BY Counts
<1>1. /\ DOMAIN notifications = 1..M /\ Len(proxied) \in Nat /\ Asked \in Nat
      /\ Asked = Requested - Len(proxied) /\ Sent = IF Asked = 0 THEN 0 ELSE Asked - 1
      /\ Requested \in Int /\ Requested <= 2 * n /\ h = Sent - M /\ Sent \in Nat
    BY <1>0, Counts
<1> DEFINE e == Head(notifications)
           sub == [topic |-> e.topic, id |-> e.id]
           N == [op : SubOps, topic : AnyTopic, id : Nat]
<1>2. /\ notifications # <<>> /\ notifications' = Tail(notifications)
      /\ UNCHANGED <<state, epochs, proxied, local>>
      /\ \/ e.op = "Subscribe" /\ subscriptions' = subscriptions \cup {sub}
         \/ e.op = "Unsubscribe" /\ subscriptions' = subscriptions \ {sub}
    BY DEF HandleNotification, loopVars, handlerVars
<1>3. /\ M >= 1 /\ Len(notifications') = M - 1 /\ DOMAIN notifications' = 1..(M - 1)
      /\ \A i \in 1..(M - 1) : notifications'[i] = notifications[i + 1]
      /\ e = notifications[1] /\ notifications \in Seq(N)
    <2>1. notifications \in Seq(N)
        BY DEF TypeOK, SwitchTypeOK
    <2> HIDE DEF N
    <2> QED BY <1>0, <1>2, <2>1, TailItems
<1>4. Asked' = Asked /\ Sent' = Sent /\ Handled' = h + 1
    <2>4. call' = call /\ epochs' = epochs
        BY DEF HandleNotification, appVars, handlerVars
    <2>5. Requested' = Requested
        BY <2>4, RequestedFrame
    <2>1. Asked' = Asked
        BY <1>2, <2>5 DEF Asked
    <2>2. Sent' = Sent
        BY <2>1 DEF Sent
    <2>3. Handled' = Sent - (M - 1)
        BY <1>3, <2>2 DEF Handled
    <2> QED BY <1>1, <2>1, <2>2, <2>3
<1>5. \A k : TopicOf(k)' = TopicOf(k)
    BY <1>2 DEF TopicOf
<1>6. AskedInv'
    BY <1>2, <1>4, <1>5 DEF AskedInv
<1> HIDE DEF e, sub
<1>7. ASSUME NEW i \in DOMAIN notifications', NEW k \in 1..Len(epochs')
      PROVE  /\ Handled' + i = 2 * k - 1 => notifications'[i] =
                  [op |-> "Subscribe", topic |-> TopicOf(k)', id |-> k]
             /\ Handled' + i = 2 * k => notifications'[i] =
                  [op |-> "Unsubscribe", topic |-> TopicOf(k)', id |-> k]
    <2>1. /\ i + 1 \in DOMAIN notifications /\ notifications'[i] = notifications[i + 1]
          /\ k \in 1..Len(epochs) /\ Handled' + i = Handled + (i + 1)
        <3>1. i \in 1..(M - 1)
            BY <1>3
        <3>2. i + 1 \in 1..M /\ (h + 1) + i = h + (i + 1)
            BY <1>0, <3>1
        <3> QED BY <1>0, <1>1, <1>2, <1>3, <1>4, <3>1, <3>2
    <2>2. /\ Handled + (i + 1) = 2 * k - 1 => notifications[i + 1] =
               [op |-> "Subscribe", topic |-> TopicOf(k), id |-> k]
          /\ Handled + (i + 1) = 2 * k => notifications[i + 1] =
               [op |-> "Unsubscribe", topic |-> TopicOf(k), id |-> k]
        BY <2>1, Zenon DEF HandledInv
    <2> QED BY <1>5, <2>1, <2>2, Zenon
<1>8. h >= 0
    BY <1>0 DEF HandledInv
<1>9. PICK k \in Nat : h = 2 * k \/ h = 2 * k + 1
    <2>1. h \in Nat
        BY <1>0, <1>8
    <2> QED BY <2>1, Parity
<1>10. k + 1 \in 1..Len(epochs) /\ k \in 0..Len(epochs) /\ 1 \in DOMAIN notifications
    <2>1. h + 1 <= 2 * n - 1
        BY <1>0, <1>1, <1>3, <1>8, SMTT(30)
    <2>2. k + 1 <= n /\ 1 \in 1..M
        BY <1>3, <1>9, <2>1
    <2> QED BY <1>0, <1>1, <2>2
<1>11. ASSUME \A j \in 0..Len(epochs) :
                /\ h + 1 = 2 * j - 1 => subscriptions' = {[topic |-> TopicOf(j), id |-> j]}
                /\ h + 1 = 2 * j => subscriptions' = {}
       PROVE  HandledInv'
    <2>1. \A j \in 0..Len(epochs') :
            /\ Handled' = 2 * j - 1 => subscriptions' = {[topic |-> TopicOf(j)', id |-> j]}
            /\ Handled' = 2 * j => subscriptions' = {}
        BY <1>2, <1>4, <1>5, <1>11, Zenon
    <2>2. Handled' >= 0
        BY <1>0, <1>4, <1>8
    <2> QED BY <1>7, <2>1, <2>2, Zenon DEF HandledInv
<1>12. CASE h = 2 * k
    <2>1. subscriptions = {}
        <3>1. Handled = 2 * k
            BY <1>0, <1>12
        <3> QED BY <1>10, <3>1, Zenon DEF HandledInv
    <2>2. e = [op |-> "Subscribe", topic |-> TopicOf(k + 1), id |-> k + 1]
        <3>1. Handled + 1 = 2 * (k + 1) - 1
            BY <1>0, <1>12
        <3>2. Handled + 1 = 2 * (k + 1) - 1 => notifications[1] =
                [op |-> "Subscribe", topic |-> TopicOf(k + 1), id |-> k + 1]
            BY <1>10, Zenon DEF HandledInv
        <3> QED BY <1>3, <3>1, <3>2
    <2>3. subscriptions' = {[topic |-> TopicOf(k + 1), id |-> k + 1]}
        <3>1. e.op = "Subscribe" /\ sub = [topic |-> TopicOf(k + 1), id |-> k + 1]
            BY <2>2 DEF sub
        <3> QED BY <1>2, <2>1, <3>1
    <2>4. ASSUME NEW j \in 0..Len(epochs)
          PROVE  (h + 1 = 2 * j - 1 => j = k + 1) /\ h + 1 # 2 * j
        BY <1>0, <1>12
    <2> QED BY <1>6, <1>11, <1>0, <1>4, <2>3, <2>4, Zenon
<1>13. CASE h = 2 * k + 1
    <2>1. subscriptions = {[topic |-> TopicOf(k + 1), id |-> k + 1]}
        <3>1. Handled = 2 * (k + 1) - 1 /\ k + 1 \in 0..Len(epochs)
            BY <1>0, <1>10, <1>13
        <3> QED BY <3>1, Zenon DEF HandledInv
    <2>2. e = [op |-> "Unsubscribe", topic |-> TopicOf(k + 1), id |-> k + 1]
        <3>1. Handled + 1 = 2 * (k + 1)
            BY <1>0, <1>13
        <3>2. Handled + 1 = 2 * (k + 1) => notifications[1] =
                [op |-> "Unsubscribe", topic |-> TopicOf(k + 1), id |-> k + 1]
            BY <1>10, Zenon DEF HandledInv
        <3> QED BY <1>3, <3>1, <3>2
    <2>3. subscriptions' = {}
        <3>1. e.op = "Unsubscribe" /\ sub = [topic |-> TopicOf(k + 1), id |-> k + 1]
            BY <2>2 DEF sub
        <3> QED BY <1>2, <2>1, <3>1
    <2>4. ASSUME NEW j \in 0..Len(epochs)
          PROVE  h + 1 # 2 * j - 1
        BY <1>0, <1>13
    <2> QED BY <1>6, <1>11, <1>0, <1>4, <2>3, <2>4, Zenon
<1> QED BY <1>9, <1>12, <1>13

(* The other steps leave it alone. *)
LEMMA SubscriptionIdle ==
    ASSUME TypeOK, CallsInv, LockInv,
           \/ AppStep \/ ClientStep \/ SendResponse \/ SendEvent \/ ReceiveRequest
           \/ RouteEvent \/ FollowTopics \/ UNCHANGED vars
           \/ \E i \in DOMAIN sending : SendChanges(i)
           \/ \E c \in Calls : \/ Make(c) \/ Get(c) \/ Emit(c) \/ Return(c)
                               \/ Increment(c) \/ Decrement(c)
    PROVE  /\ UNCHANGED <<epochs, proxied, local, notifications, subscriptions>>
           /\ state'.topic = state.topic /\ Requested' = Requested
PROOF
<1>1. CASE \/ AppStep \/ ApplyChanges \/ ReceiveEvent \/ ReceiveChanges \/ SendResponse
           \/ SendEvent \/ RouteEvent \/ FollowTopics \/ UNCHANGED vars
           \/ \E i \in DOMAIN sending : SendChanges(i)
    <2>1. UNCHANGED <<state, epochs, proxied, local, notifications, subscriptions, call>>
        BY <1>1 DEF AppStep, PollState, DropReadGuard, ReceiveEvent, ReceiveChanges, Receive,
            ApplyChanges, SendResponse, SendEvent, RouteEvent, FollowTopics, SendChanges, vars,
            appVars, clientVars, wireVars, loopVars, handlerVars, switchVars
    <2> QED BY <2>1, RequestedFrame
<1>2. CASE ReceiveResponse
    <2> DEFINE c == Head(s2c).msg
    <2>1. /\ UNCHANGED <<state, epochs, proxied, local, notifications, subscriptions>>
          /\ s2c # <<>> /\ Head(s2c).kind = "response" /\ call' = [call EXCEPT ![c] = "answered"]
        BY <1>2 DEF ReceiveResponse, Receive, loopVars, handlerVars, switchVars
    <2>2. Head(s2c) \in Range(s2c) /\ Head(s2c) \in Message
        BY <2>1, TailRange DEF TypeOK, ServerTypeOK
    <2>3. c \in Calls /\ call[c] # "subscribing"
        BY <2>1, <2>2 DEF CallsInv, Message
    <2> HIDE DEF c
    <2> QED BY <2>1, <2>3, RequestedSame
<1>3. CASE ReceiveRequest
    <2> DEFINE c == Head(c2s)
    <2>1. /\ UNCHANGED <<state, epochs, proxied, local, notifications, subscriptions>>
          /\ c2s # <<>> /\ call' = [call EXCEPT ![c] = "running"]
        BY <1>3 DEF ReceiveRequest, Selects, Branches, handlerVars, switchVars
    <2>2. c \in Calls /\ call[c] # "subscribing"
        BY <2>1, TailRange DEF CallsInv, TypeOK, ServerTypeOK
    <2> HIDE DEF c
    <2> QED BY <2>1, <2>2, RequestedSame
<1>4. ASSUME NEW c \in Calls, Make(c) \/ Get(c) \/ Emit(c) \/ Return(c)
      PROVE  /\ UNCHANGED <<epochs, proxied, local, notifications, subscriptions>>
             /\ state'.topic = state.topic /\ Requested' = Requested
    <2>1. UNCHANGED <<state, epochs, proxied, local, notifications, subscriptions>>
        BY <1>4 DEF Make, Get, Emit, Return, loopVars, handlerVars, switchVars
    <2>2. /\ call[c] # "subscribing"
          /\ \E new \in {"requested", "responded", "returning"} :
               call' = [call EXCEPT ![c] = new]
        BY <1>4 DEF Make, Get, Emit, Return, Respond, Runs
    <2> QED BY <2>1, <2>2, RequestedSame
<1>5. ASSUME NEW c \in Calls, Increment(c) \/ Decrement(c)
      PROVE  /\ UNCHANGED <<epochs, proxied, local, notifications, subscriptions>>
             /\ state'.topic = state.topic /\ Requested' = Requested
    <2>1. UNCHANGED <<epochs, proxied, local, notifications, subscriptions>>
        BY <1>5 DEF Increment, Decrement, Adjust, loopVars, switchVars
    <2>2. state' = state \/ \E v : state' = [state EXCEPT !.counter = v]
        BY <1>5 DEF Increment, Decrement, Adjust, Panic, Assign, Change
    <2>3. state'.topic = state.topic
        BY <2>2 DEF TypeOK, ServerTypeOK, State
    <2>4. /\ call[c] # "subscribing"
          /\ \E new \in {"emitting", "panicked"} : call' = [call EXCEPT ![c] = new]
        BY <1>5 DEF Increment, Decrement, Adjust, Panic, Assign, Change, Runs
    <2> QED BY <2>1, <2>3, <2>4, RequestedSame
<1> QED BY <1>1, <1>2, <1>3, <1>4, <1>5 DEF ClientStep

LEMMA SubscriptionNext ==
    ASSUME TypeOK, CallsInv, LockInv, AskedInv, HandledInv, [Next]_vars
    PROVE  AskedInv' /\ HandledInv'
PROOF
<1>1. CASE \/ AppStep \/ ClientStep \/ SendResponse \/ SendEvent \/ ReceiveRequest
           \/ RouteEvent \/ FollowTopics \/ UNCHANGED vars
           \/ \E i \in DOMAIN sending : SendChanges(i)
           \/ \E c \in Calls : \/ Make(c) \/ Get(c) \/ Emit(c) \/ Return(c)
                               \/ Increment(c) \/ Decrement(c)
    BY <1>1, SubscriptionIdle, SubscriptionFrame
<1> QED BY <1>1, SubscriptionNewCounter, SubscriptionAdded, SubscriptionProxied,
        SubscriptionHandled
    DEF Next, ServerStep, LoopStep, HandlerStep, SwitchStep

LEMMA AtRest ==
    ASSUME TypeOK, AskedInv, HandledInv
    PROVE  SubscribedToItsCounter
PROOF
<1> SUFFICES ASSUME ~Midway, proxied = <<>>, notifications = <<>>
             PROVE  {s.topic : s \in subscriptions} = {state.topic} \ {NoTopic}
    BY DEF SubscribedToItsCounter
<1>0. PICK n \in Nat : n = Len(epochs)
    BY Counts
<1>1. n \in 0..n /\ TopicOf(n) \in AnyTopic /\ (TopicOf(n) = NoTopic <=> n = 0)
    BY <1>0, Topic
<1>2. state.topic = TopicOf(n)
    BY <1>0 DEF AskedInv
<1>3. Asked = 2 * n
    <2>1. Requested = 2 * n
        BY <1>0, RequestedIs
    <2> QED BY <2>1 DEF Asked
<1>4. Handled = IF n = 0 THEN 0 ELSE 2 * n - 1
    <2>1. Sent = IF n = 0 THEN 0 ELSE 2 * n - 1
        BY <1>0, <1>3 DEF Sent
    <2> QED BY <1>0, <2>1 DEF Handled
<1>5. CASE n = 0
    <2>1. Handled = 2 * n
        BY <1>4, <1>5
    <2>2. subscriptions = {}
        BY <1>0, <1>1, <2>1, Zenon DEF HandledInv
    <2> QED BY <1>1, <1>2, <1>5, <2>2
<1>6. CASE n # 0
    <2>1. Handled = 2 * n - 1
        BY <1>4, <1>6
    <2>2. subscriptions = {[topic |-> TopicOf(n), id |-> n]}
        BY <1>0, <1>1, <2>1, Zenon DEF HandledInv
    <2>3. {s.topic : s \in subscriptions} = {TopicOf(n)}
        BY <2>2
    <2> QED BY <1>1, <1>2, <1>6, <2>3
<1> QED BY <1>5, <1>6

-----------------------------------------------------------------------------
(* The way of an event.                                                      *)

LEMMA ChainNext ==
    ASSUME TypeOK, AskedInv, ChainInv, [Next]_vars
    PROVE  ChainInv'
PROOF
<1>0. PICK n \in Nat, N \in Nat :
        n = Len(epochs) /\ N = Len(changes) /\ DOMAIN changes = 1..N
    BY LenProperties DEF TypeOK, ServerTypeOK
<1>1. /\ \A i \in 1..N :
           /\ changes[i] \in ChangedEvent /\ changes[i].nth = i /\ changes[i].epoch \in 0..n
           /\ changes[i].topic = TopicOf(changes[i].epoch)
           /\ changes[i].epoch = n /\ i = N => changes[i].to = state.counter
      /\ \A i, j \in 1..N :
           /\ i < j => changes[i].epoch <= changes[j].epoch
           /\ j = i + 1 /\ changes[i].epoch = changes[j].epoch
                => changes[i].to = changes[j].from
    <2>1. \A i \in 1..N : changes[i] \in ChangedEvent
        BY <1>0, ElementOfSeq DEF TypeOK, ServerTypeOK
    <2>2. \A i \in 1..N : changes[i].epoch \in Nat
        BY <2>1 DEF ChangedEvent
    <2> QED BY <1>0, <2>1, <2>2 DEF ChainInv
<1>2. CASE UNCHANGED <<epochs, changes, state>>
    BY <1>2 DEF ChainInv, TopicOf
<1>3. ASSUME NEW c \in Calls, NewCounter(c) PROVE ChainInv'
    <2>1. PICK t \in Topics : epochs' = Append(epochs, t)
        BY <1>3 DEF NewCounter
    <2>2. changes' = changes /\ Len(epochs') = n + 1 /\ \A k \in 0..n : TopicOf(k)' = TopicOf(k)
        BY <1>0, <1>3, <2>1, NewTopic DEF NewCounter
    <2>3. ASSUME NEW i \in DOMAIN changes'
          PROVE  /\ changes'[i].nth = i /\ changes'[i].epoch <= Len(epochs')
                 /\ changes'[i].topic = TopicOf(changes[i].epoch)'
                 /\ changes'[i].epoch # Len(epochs')
        <3>1. changes[i].epoch \in 0..n /\ changes[i].nth = i
            BY <1>0, <1>1, <2>2
        <3>2. changes[i].topic = TopicOf(changes[i].epoch)
            BY <1>0, <1>1, <2>2
        <3>3. changes[i].epoch # n + 1 /\ changes[i].epoch <= n + 1
            BY <3>1
        <3>4. \A k : k = changes[i].epoch => TopicOf(k)' = TopicOf(changes[i].epoch)
            BY <2>2, <3>1
        <3> QED BY <2>2, <3>1, <3>2, <3>3, <3>4 DEF TopicOf
    <2> QED BY <1>0, <1>1, <2>2, <2>3 DEF ChainInv
<1>4. ASSUME NEW c \in Calls, NEW new \in Values, Assign(c, new), epochs' = epochs
      PROVE  ChainInv'
    <2> DEFINE e == Changed(new)
    <2>1. /\ state' = [state EXCEPT !.counter = new] /\ changes' = Append(changes, e)
        BY <1>4 DEF Assign, Change
    <2>2. state.counter \in Values /\ state.topic \in AnyTopic /\ state'.counter = new
        BY <2>1 DEF TypeOK, ServerTypeOK, State
    <2>3. /\ e.nth = N + 1 /\ e.epoch = n /\ e.topic = state.topic /\ e.to = new
          /\ e.from = state.counter
        BY <1>0 DEF Changed
    <2>4. e \in ChangedEvent
        BY <1>0, <2>2 DEF Changed, ChangedEvent
    <2> HIDE DEF e
    <2>5. /\ Len(changes') = N + 1 /\ DOMAIN changes' = 1..(N + 1)
          /\ \A i \in 1..N : changes'[i] = changes[i]
          /\ changes'[N + 1] = e
        <3>1. changes \in Seq(ChangedEvent)
            BY DEF TypeOK, ServerTypeOK
        <3>2. /\ Append(changes, e) \in Seq(ChangedEvent)
              /\ Len(Append(changes, e)) = N + 1
              /\ \A i \in 1..N : Append(changes, e)[i] = changes[i]
              /\ Append(changes, e)[N + 1] = e
            BY <1>0, <2>4, <3>1, AppendProperties
        <3>3. DOMAIN Append(changes, e) = 1..(N + 1)
            BY <3>2, LenProperties
        <3> QED BY <2>1, <3>2, <3>3
    <2>6. \A k : TopicOf(k)' = TopicOf(k)
        BY <1>4 DEF TopicOf
    <2>7. state.topic = TopicOf(n)
        BY <1>0 DEF AskedInv
    <2>8. ASSUME NEW i \in 1..(N + 1)
          PROVE  /\ changes'[i].nth = i /\ changes'[i].epoch <= n
                 /\ changes'[i].topic = TopicOf(changes'[i].epoch)
                 /\ changes'[i].epoch = n /\ i = N + 1 => changes'[i].to = new
        <3>1. CASE i = N + 1
            BY <1>0, <2>3, <2>5, <2>7, <3>1
        <3>2. CASE i # N + 1
            <4>1. i \in 1..N
                BY <1>0, <3>2
            <4> QED BY <1>1, <2>5, <3>2, <4>1
        <3> QED BY <3>1, <3>2
    <2>9. ASSUME NEW i \in 1..(N + 1), NEW j \in 1..(N + 1)
          PROVE  /\ i < j => changes'[i].epoch <= changes'[j].epoch
                 /\ j = i + 1 /\ changes'[i].epoch = changes'[j].epoch
                      => changes'[i].to = changes'[j].from
        <3>1. CASE j = N + 1
            <4>1. i < j => changes'[i].epoch <= changes'[j].epoch
                BY <2>3, <2>5, <2>8, <3>1
            <4>2. ASSUME j = i + 1, changes'[i].epoch = changes'[j].epoch
                  PROVE  changes'[i].to = changes'[j].from
                <5>1. i = N /\ i \in 1..N
                    BY <1>0, <3>1, <4>2
                <5>2. changes'[i] = changes[i] /\ changes[i].epoch = n
                    BY <2>3, <2>5, <3>1, <4>2, <5>1
                <5>3. changes[i].to = state.counter
                    BY <1>1, <5>1, <5>2
                <5> QED BY <2>3, <2>5, <3>1, <5>2, <5>3
            <4> QED BY <4>1, <4>2
        <3>2. CASE j # N + 1 /\ i # N + 1
            <4>1. i \in 1..N /\ j \in 1..N
                BY <1>0, <3>2
            <4> QED BY <1>1, <2>5, <4>1
        <3>3. CASE i = N + 1 /\ j # N + 1
            <4>1. ~(i < j) /\ j # i + 1
                BY <1>0, <3>3
            <4> QED BY <4>1
        <3> QED BY <3>1, <3>2, <3>3
    <2>10. \A i \in 1..(N + 1) : TopicOf(changes[i].epoch)' = TopicOf(changes'[i].epoch)
        BY <1>4 DEF TopicOf
    <2> QED BY <1>0, <1>4, <2>2, <2>5, <2>8, <2>9, <2>10 DEF ChainInv
<1>5. ASSUME NEW c \in Calls, Increment(c) \/ Decrement(c) PROVE ChainInv'
    <2>1. \A o \in Int : o % (MaxU32 + 1) \in Values
        BY SessionBounds DEF Values
    <2>2. state.counter \in Int
        BY SessionBounds DEF TypeOK, ServerTypeOK, State, Values
    <2>3. epochs' = epochs /\ (Panic(c) \/ \E new \in Values : Assign(c, new))
        BY <1>5, <2>1, <2>2 DEF Increment, Decrement, Adjust, Values
    <2> QED BY <1>2, <1>4, <2>3 DEF Panic
<1>6. CASE \/ AppStep \/ ClientStep \/ LoopStep \/ SwitchStep \/ FollowTopics \/ UNCHANGED vars
           \/ \E c \in Calls : \/ Make(c) \/ AddSubscription(c) \/ Get(c) \/ Emit(c)
                               \/ Return(c)
    <2>1. UNCHANGED <<state, epochs, changes>>
        BY <1>6 DEF AppStep, PollState, DropReadGuard, ClientStep, ReceiveResponse, ReceiveEvent,
            ReceiveChanges, Receive, ApplyChanges, LoopStep, SendResponse, SendEvent,
            HandleProxied, ReceiveRequest, SwitchStep, RouteEvent, HandleNotification,
            FollowTopics, SendChanges, Make, AddSubscription, Get, Emit, Return, Respond, vars,
            appVars, clientVars, wireVars, loopVars, handlerVars, switchVars
    <2> QED BY <1>2, <2>1
<1> QED BY <1>3, <1>5, <1>6 DEF Next, ServerStep, HandlerStep

(* Every change that items of X tell is told by an item of Y. *)
Within(X, Y) == \A x \in X : Tells(x) => \E y \in Y : Payload(y) = Payload(x)

LEMMA WithinSubset == \A X, Y : X \subseteq Y => Within(X, Y)
PROOF BY DEF Within

LEMMA BeforeWithin ==
    ASSUME NEW X, NEW Y, NEW V, NEW W, Before(X, Y), Within(V, X), Within(W, Y)
    PROVE  Before(V, W)
PROOF
<1> SUFFICES ASSUME NEW v \in V, NEW w \in W, Tells(v), Tells(w)
             PROVE  Nth(v) < Nth(w)
    BY DEF Before, Precedes
<1>1. PICK x \in X : Payload(x) = Payload(v)
    BY DEF Within
<1>2. PICK y \in Y : Payload(y) = Payload(w)
    BY DEF Within
<1>3. Tells(x) /\ Tells(y)
    BY <1>1, <1>2 DEF Tells
<1>4. Nth(x) < Nth(y)
    BY <1>3 DEF Before, Precedes
<1> QED BY <1>1, <1>2, <1>4 DEF Nth

LEMMA BeforeUnion ==
    \A X, Y, Z : /\ Before(X \cup Y, Z) <=> Before(X, Z) /\ Before(Y, Z)
                 /\ Before(X, Y \cup Z) <=> Before(X, Y) /\ Before(X, Z)
PROOF BY Zenon DEF Before

LEMMA BeforeAdded ==
    ASSUME NEW R, NEW X, NEW x, R = X \cup {x}
    PROVE  /\ \A Y : Before(R, Y) <=> Before(X, Y) /\ Before({x}, Y)
           /\ \A Y : Before(Y, R) <=> Before(Y, X) /\ Before(Y, {x})
PROOF BY BeforeUnion

LEMMA SilentBefore ==
    ASSUME NEW X, \A x \in X : ~Tells(x)
    PROVE  \A Y : Before(X, Y) /\ Before(Y, X)
PROOF BY DEF Before, Precedes

LEMMA OrderTail ==
    ASSUME NEW S, NEW q \in Seq(S), q # <<>>, InOrder(q)
    PROVE  InOrder(Tail(q)) /\ Before({Head(q)}, Range(Tail(q)))
PROOF
<1>1. /\ Tail(q) \in Seq(S) /\ Len(q) \in Nat /\ Len(q) >= 1
      /\ DOMAIN q = 1..Len(q) /\ DOMAIN Tail(q) = 1..(Len(q) - 1)
      /\ \A i \in 1..(Len(q) - 1) : Tail(q)[i] = q[i + 1]
      /\ Head(q) = q[1]
    BY TailItems
<1>2. ASSUME NEW i \in DOMAIN Tail(q), NEW j \in DOMAIN Tail(q), i < j
      PROVE  Precedes(Tail(q)[i], Tail(q)[j])
    <2>1. i + 1 \in DOMAIN q /\ j + 1 \in DOMAIN q /\ i + 1 < j + 1
        BY <1>1, <1>2
    <2>2. Tail(q)[i] = q[i + 1] /\ Tail(q)[j] = q[j + 1]
        BY <1>1
    <2> QED BY <2>1, <2>2 DEF InOrder
<1>3. ASSUME NEW j \in DOMAIN Tail(q) PROVE Precedes(Head(q), Tail(q)[j])
    <2>1. 1 \in DOMAIN q /\ j + 1 \in DOMAIN q /\ 1 < j + 1 /\ Tail(q)[j] = q[j + 1]
        BY <1>1
    <2> QED BY <1>1, <2>1 DEF InOrder
<1>4. Before({Head(q)}, Range(Tail(q)))
    BY <1>3 DEF Before, Range
<1> QED BY <1>2, <1>4 DEF InOrder

LEMMA OrderAppend ==
    ASSUME NEW S, NEW q \in Seq(S), NEW x \in S, InOrder(q), Before(Range(q), {x})
    PROVE  InOrder(Append(q, x))
PROOF
<1>1. /\ Append(q, x) \in Seq(S) /\ Len(Append(q, x)) = Len(q) + 1 /\ Len(q) \in Nat
      /\ DOMAIN q = 1..Len(q) /\ DOMAIN Append(q, x) = 1..(Len(q) + 1)
      /\ \A i \in 1..Len(q) : Append(q, x)[i] = q[i]
      /\ Append(q, x)[Len(q) + 1] = x
    BY AppendProperties, LenProperties
<1>2. ASSUME NEW i \in 1..(Len(q) + 1), NEW j \in 1..(Len(q) + 1), i < j
      PROVE  Precedes(Append(q, x)[i], Append(q, x)[j])
    <2>1. i \in 1..Len(q) /\ Append(q, x)[i] = q[i] /\ i \in DOMAIN q
        BY <1>1, <1>2
    <2>2. CASE j = Len(q) + 1
        <3>1. q[i] \in Range(q)
            BY <2>1 DEF Range
        <3> QED BY <1>1, <2>1, <2>2, <3>1 DEF Before
    <2>3. CASE j # Len(q) + 1
        <3>1. j \in DOMAIN q /\ Append(q, x)[j] = q[j]
            BY <1>1, <2>3
        <3> QED BY <1>2, <2>1, <3>1 DEF InOrder
    <2> QED BY <2>2, <2>3
<1> QED BY <1>1, <1>2 DEF InOrder

(* Which items tell of a change. *)
LEMMA Items ==
    /\ \A e \in Event : Payload(e) = e
    /\ \A e \in ChangedEvent : e \in Event /\ Tells(e) /\ Nth(e) = e.nth
    /\ \A e \in Event : Tells(e) => e \in ChangedEvent
    /\ \A m \in Message : m.kind = "event" => m.msg \in Event /\ Payload(m) = m.msg
    /\ \A m \in Message : m.kind # "event" => ~Tells(m)
PROOF
<1>1. \A e \in Event : e.kind \in {"changed", "ServerSentTest"}
    BY DEF Event, ChangedEvent
<1>2. \A e \in Event : Payload(e) = e
    BY <1>1 DEF Payload
<1>3. \A e \in Event : e.kind = "changed" => e \in ChangedEvent
    BY DEF Event
<1>4. \A m \in Message : m.kind = "event" => m.msg \in Event
    BY DEF Message
<1>5. \A m \in Message : m.kind # "event" => m.kind \in {"response", "state"}
    BY DEF Message
<1>6. \A e \in ChangedEvent : e.kind = "changed" /\ e \in Event
    BY DEF ChangedEvent, Event
<1> QED BY <1>2, <1>3, <1>4, <1>5, <1>6 DEF Tells, Nth, Payload

(* OrderInv, queue by queue: what the client has seen, the stream, the       *)
(* connection loop's channel, what was missed, the switch's channel and what *)
(* is about to be emitted.                                                   *)
Order(sn, sc, ev, ms, ne, pd) ==
    /\ InOrder(sn) /\ InOrder(sc) /\ InOrder(ev) /\ InOrder(ne)
    /\ Before(Range(sn), Range(sc)) /\ Before(Range(sn), Range(ev))
    /\ Before(Range(sc), Range(ev))
    /\ Before(Range(sn), Range(ne)) /\ Before(Range(sc), Range(ne))
    /\ Before(Range(ev), Range(ne)) /\ Before(ms, Range(ne))
    /\ Before(Range(sn), pd) /\ Before(Range(sc), pd) /\ Before(Range(ev), pd)
    /\ Before(ms, pd) /\ Before(Range(ne), pd)

LEMMA OrderIs ==
    /\ OrderInv <=> Order(seen, s2c, events, missed, new_event, Pending)
    /\ OrderInv' <=> Order(seen', s2c', events', missed', new_event', Pending')
PROOF
<1>1. ASSUME NEW sn, NEW sc, NEW ev, NEW ms, NEW ne, NEW pd
      PROVE  Order(sn, sc, ev, ms, ne, pd) <=>
               /\ InOrder(sn) /\ InOrder(sc) /\ InOrder(ev) /\ InOrder(ne)
               /\ Before(Range(sn), Range(sc) \cup Range(ev))
               /\ Before(Range(sc), Range(ev))
               /\ Before(((Range(sn) \cup Range(sc)) \cup Range(ev)) \cup ms, Range(ne))
               /\ Before((((Range(sn) \cup Range(sc)) \cup Range(ev)) \cup ms) \cup Range(ne), pd)
    <2> DEFINE A == Range(sn)
               B == Range(sc)
               C == Range(ev)
               D == Range(ne)
    <2>1. Before(A, B \cup C) <=> Before(A, B) /\ Before(A, C)
        BY BeforeUnion
    <2>2. \A Z : Before(((A \cup B) \cup C) \cup ms, Z) <=>
                   Before(A, Z) /\ Before(B, Z) /\ Before(C, Z) /\ Before(ms, Z)
        <3> SUFFICES ASSUME NEW Z
                     PROVE  Before(((A \cup B) \cup C) \cup ms, Z) <=>
                              Before(A, Z) /\ Before(B, Z) /\ Before(C, Z) /\ Before(ms, Z)
            OBVIOUS
        <3> DEFINE U == A \cup B
                   V == U \cup C
                   W == V \cup ms
        <3>1. Before(U, Z) <=> Before(A, Z) /\ Before(B, Z)
            BY BeforeUnion
        <3> HIDE DEF U
        <3>2. Before(V, Z) <=> Before(U, Z) /\ Before(C, Z)
            BY BeforeUnion
        <3> HIDE DEF V
        <3>3. Before(W, Z) <=> Before(V, Z) /\ Before(ms, Z)
            BY BeforeUnion
        <3>4. W = ((A \cup B) \cup C) \cup ms
            BY DEF U, V
        <3> HIDE DEF W
        <3> QED BY <3>1, <3>2, <3>3, <3>4
    <2>3. Before((((A \cup B) \cup C) \cup ms) \cup D, pd) <=>
            Before(((A \cup B) \cup C) \cup ms, pd) /\ Before(D, pd)
        <3> DEFINE W == ((A \cup B) \cup C) \cup ms
        <3> HIDE DEF W
        <3>1. Before(W \cup D, pd) <=> Before(W, pd) /\ Before(D, pd)
            BY BeforeUnion
        <3> QED BY <3>1, Zenon DEF W
    <2> HIDE DEF A, B, C, D
    <2> QED BY <2>1, <2>2, <2>3 DEF Order, A, B, C, D
<1> QED BY <1>1, Zenon DEF OrderInv, Emitted, Routed, Delivered

LEMMA SamePayload ==
    ASSUME NEW x, NEW X, NEW y \in X, Payload(x) = Payload(y), NEW Y
    PROVE  /\ Before(X, Y) => Before({x}, Y)
           /\ Before(Y, X) => Before(Y, {x})
PROOF
<1>1. Within({x}, X)
    BY DEF Within
<1>2. Within(Y, Y)
    BY WithinSubset
<1> QED BY <1>1, <1>2, BeforeWithin

LEMMA BeforeSmaller ==
    ASSUME NEW X, NEW Y, NEW Z, Y \subseteq X
    PROVE  /\ Before(X, Z) => Before(Y, Z)
           /\ Before(Z, X) => Before(Z, Y)
PROOF BY DEF Before

(* The client takes the first message off the stream: it sees the event, or *)
(* there was none.                                                          *)
LEMMA OrderReceived ==
    ASSUME NEW sn \in Seq(Event), NEW sc \in Seq(Message), NEW ev, NEW ms, NEW ne, NEW pd,
           Order(sn, sc, ev, ms, ne, pd), sc # <<>>
    PROVE  /\ Order(sn, Tail(sc), ev, ms, ne, pd)
           /\ \A x \in Event : Payload(x) = Payload(Head(sc))
                => Order(Append(sn, x), Tail(sc), ev, ms, ne, pd)
PROOF
<1>1. /\ Range(Tail(sc)) \subseteq Range(sc) /\ Head(sc) \in Range(sc)
      /\ InOrder(Tail(sc)) /\ Before({Head(sc)}, Range(Tail(sc)))
    BY TailRange, OrderTail DEF Order
<1>2. Order(sn, Tail(sc), ev, ms, ne, pd)
    BY <1>1, BeforeSmaller DEF Order
<1>3. ASSUME NEW x \in Event, Payload(x) = Payload(Head(sc))
      PROVE  Order(Append(sn, x), Tail(sc), ev, ms, ne, pd)
    <2>1. Range(Append(sn, x)) = Range(sn) \cup {x}
        BY AppendRange
    <2>2. \A Y : Before(Range(sc), Y) => Before({x}, Y)
        BY <1>1, <1>3, SamePayload
    <2>3. Before(Range(sn), {x})
        BY <1>1, <1>3, SamePayload DEF Order
    <2>4. Before({x}, Range(Tail(sc)))
        BY <1>1, <1>3, SamePayload
    <2>5. InOrder(Append(sn, x))
        BY <2>3, OrderAppend DEF Order
    <2>6. \A Y : Before(Range(Append(sn, x)), Y) <=> Before(Range(sn), Y) /\ Before({x}, Y)
        BY <2>1, BeforeAdded
    <2> QED BY <1>2, <2>2, <2>4, <2>5, <2>6 DEF Order
<1> QED BY <1>2, <1>3

LEMMA OrderSent ==
    ASSUME NEW sn, NEW sc \in Seq(Message), NEW ev \in Seq(Event), NEW ms, NEW ne, NEW pd,
           Order(sn, sc, ev, ms, ne, pd), NEW m \in Message
    PROVE  /\ ~Tells(m) => Order(sn, Append(sc, m), ev, ms, ne, pd)
           /\ ev # <<>> /\ Payload(m) = Payload(Head(ev))
                => Order(sn, Append(sc, m), Tail(ev), ms, ne, pd)
PROOF
<1>1. Range(Append(sc, m)) = Range(sc) \cup {m}
    BY AppendRange
<1>4. /\ \A Y : Before(Range(Append(sc, m)), Y) <=> Before(Range(sc), Y) /\ Before({m}, Y)
      /\ \A Y : Before(Y, Range(Append(sc, m))) <=> Before(Y, Range(sc)) /\ Before(Y, {m})
    BY <1>1, BeforeAdded
<1>2. ASSUME ~Tells(m) PROVE Order(sn, Append(sc, m), ev, ms, ne, pd)
    <2>1. \A Y : Before({m}, Y) /\ Before(Y, {m})
        BY <1>2, SilentBefore
    <2>2. InOrder(Append(sc, m))
        BY <2>1, OrderAppend DEF Order
    <2> QED BY <1>4, <2>1, <2>2 DEF Order
<1>3. ASSUME ev # <<>>, Payload(m) = Payload(Head(ev))
      PROVE  Order(sn, Append(sc, m), Tail(ev), ms, ne, pd)
    <2>1. /\ Range(Tail(ev)) \subseteq Range(ev) /\ Head(ev) \in Range(ev)
          /\ InOrder(Tail(ev)) /\ Before({Head(ev)}, Range(Tail(ev)))
        BY <1>3, TailRange, OrderTail DEF Order
    <2>2. /\ \A Y : Before(Range(ev), Y) => Before({m}, Y)
          /\ \A Y : Before(Y, Range(ev)) => Before(Y, {m})
        BY <1>3, <2>1, SamePayload
    <2>3. Before({m}, Range(Tail(ev)))
        BY <1>3, <2>1, SamePayload
    <2>4. InOrder(Append(sc, m))
        BY <2>2, OrderAppend DEF Order
    <2>5. /\ \A Y : Before(Range(ev), Y) => Before(Range(Tail(ev)), Y)
          /\ \A Y : Before(Y, Range(ev)) => Before(Y, Range(Tail(ev)))
        BY <2>1, BeforeSmaller
    <2> QED BY <1>4, <2>1, <2>2, <2>3, <2>4, <2>5 DEF Order
<1> QED BY <1>2, <1>3

LEMMA OrderRouted ==
    ASSUME NEW sn, NEW sc, NEW ev \in Seq(Event), NEW ms, NEW ne \in Seq(Event), NEW pd,
           Order(sn, sc, ev, ms, ne, pd), ne # <<>>
    PROVE  /\ Order(sn, sc, Append(ev, Head(ne)), ms, Tail(ne), pd)
           /\ Order(sn, sc, ev, ms \cup {Head(ne)}, Tail(ne), pd)
PROOF
<1>1. /\ Range(Tail(ne)) \subseteq Range(ne) /\ Head(ne) \in Range(ne) /\ Head(ne) \in Event
      /\ InOrder(Tail(ne)) /\ Before({Head(ne)}, Range(Tail(ne)))
    BY TailRange, OrderTail DEF Order
<1>2. Range(Append(ev, Head(ne))) = Range(ev) \cup {Head(ne)}
    BY <1>1, AppendRange
<1>3. {Head(ne)} \subseteq Range(ne)
    BY <1>1
<1>4. /\ \A Y : Before(Range(ne), Y) => Before({Head(ne)}, Y)
      /\ \A Y : Before(Y, Range(ne)) => Before(Y, {Head(ne)})
      /\ \A Y : Before(Range(ne), Y) => Before(Range(Tail(ne)), Y)
      /\ \A Y : Before(Y, Range(ne)) => Before(Y, Range(Tail(ne)))
    BY <1>1, <1>3, BeforeSmaller
<1>5. InOrder(Append(ev, Head(ne)))
    BY <1>1, <1>4, OrderAppend DEF Order
<1>6. /\ \A Y : Before(Range(Append(ev, Head(ne))), Y) <=>
                 Before(Range(ev), Y) /\ Before({Head(ne)}, Y)
      /\ \A Y : Before(Y, Range(Append(ev, Head(ne)))) <=>
                 Before(Y, Range(ev)) /\ Before(Y, {Head(ne)})
      /\ \A Y : Before(ms \cup {Head(ne)}, Y) <=> Before(ms, Y) /\ Before({Head(ne)}, Y)
    BY <1>2, BeforeAdded
<1> QED BY <1>1, <1>4, <1>5, <1>6 DEF Order

LEMMA OrderEmitted ==
    ASSUME NEW sn, NEW sc, NEW ev, NEW ms, NEW ne \in Seq(Event), NEW pd,
           Order(sn, sc, ev, ms, ne, pd), NEW x \in Event
    PROVE  /\ ~Tells(x) => Order(sn, sc, ev, ms, Append(ne, x), pd)
           /\ pd = {x} => Order(sn, sc, ev, ms, Append(ne, x), {})
PROOF
<1>1. Range(Append(ne, x)) = Range(ne) \cup {x}
    BY AppendRange
<1>4. /\ \A Y : Before(Range(Append(ne, x)), Y) <=> Before(Range(ne), Y) /\ Before({x}, Y)
      /\ \A Y : Before(Y, Range(Append(ne, x))) <=> Before(Y, Range(ne)) /\ Before(Y, {x})
    BY <1>1, BeforeAdded
<1>2. ASSUME ~Tells(x) PROVE Order(sn, sc, ev, ms, Append(ne, x), pd)
    <2>1. \A Y : Before({x}, Y) /\ Before(Y, {x})
        BY <1>2, SilentBefore
    <2>2. InOrder(Append(ne, x))
        BY <2>1, OrderAppend DEF Order
    <2> QED BY <1>4, <2>1, <2>2 DEF Order
<1>3. ASSUME pd = {x} PROVE Order(sn, sc, ev, ms, Append(ne, x), {})
    <2>1. InOrder(Append(ne, x))
        BY <1>3, OrderAppend DEF Order
    <2>2. \A Y : Before(Y, {})
        BY DEF Before
    <2> QED BY <1>3, <1>4, <2>1, <2>2 DEF Order
<1> QED BY <1>2, <1>3

LEMMA PendingIs ==
    ASSUME TypeOK, LockInv, ChainInv
    PROVE  /\ (\A c \in Calls : call[c] # "emitting") => Pending = {}
           /\ \A c \in Calls : call[c] = "emitting" =>
                /\ emission[c] = <<changes[Len(changes)]>>
                /\ Pending = {changes[Len(changes)]}
           /\ \A x \in Pending : /\ x \in ChangedEvent /\ Tells(x) /\ Payload(x) = x
                                 /\ Nth(x) \in DOMAIN changes /\ changes[Nth(x)] = x
                                 /\ x.epoch = Len(epochs) /\ x = changes[Len(changes)]
PROOF
<1>1. (\A c \in Calls : call[c] # "emitting") => Pending = {}
    BY DEF Pending
<1>2. ASSUME NEW c \in Calls, call[c] = "emitting"
      PROVE  /\ emission[c] = <<changes[Len(changes)]>>
             /\ Pending = {changes[Len(changes)]}
    BY <1>2 DEF Pending, LockInv
<1>3. ASSUME NEW x \in Pending
      PROVE  /\ x \in ChangedEvent /\ Tells(x) /\ Payload(x) = x
             /\ Nth(x) \in DOMAIN changes /\ changes[Nth(x)] = x
             /\ x.epoch = Len(epochs) /\ x = changes[Len(changes)]
    <2>1. PICK c \in Calls : call[c] = "emitting"
        BY <1>3 DEF Pending
    <2>2. /\ changes # <<>> /\ x = changes[Len(changes)] /\ x.epoch = Len(epochs)
          /\ changes \in Seq(ChangedEvent)
        BY <1>3, <2>1 DEF Pending, LockInv, TypeOK, ServerTypeOK
    <2>3. Len(changes) \in DOMAIN changes /\ x \in ChangedEvent
        BY <2>2, LenProperties, EmptySeq, ElementOfSeq
    <2>4. x.nth = Len(changes)
        BY <2>2, <2>3 DEF ChainInv
    <2> QED BY <2>2, <2>3, <2>4, Items
<1> QED BY <1>1, <1>2, <1>3

LEMMA PendingSame ==
    ASSUME UNCHANGED changes, \A c \in Calls : call'[c] = "emitting" <=> call[c] = "emitting"
    PROVE  Pending' = Pending
PROOF BY DEF Pending

(* A step that makes no change: what was told before is told after it, and   *)
(* nothing else.                                                             *)
LEMMA LoggedKept ==
    ASSUME TypeOK, LockInv, ChainInv, LoggedInv, UNCHANGED changes,
           Within(Emitted', Emitted \cup Pending),
           Within(Emitted \cup Pending, Emitted' \cup Pending')
    PROVE  LoggedInv'
PROOF
<1>1. ASSUME NEW x \in Emitted', Tells(x)
      PROVE  Nth(x) \in DOMAIN changes' /\ changes'[Nth(x)] = Payload(x)
    <2>1. PICK y \in Emitted \cup Pending : Payload(y) = Payload(x)
        BY <1>1 DEF Within
    <2>2. Tells(y) /\ Nth(y) = Nth(x)
        BY <1>1, <2>1 DEF Tells, Nth
    <2>3. Nth(y) \in DOMAIN changes /\ changes[Nth(y)] = Payload(y)
        BY <2>1, <2>2, PendingIs DEF LoggedInv
    <2> QED BY <2>1, <2>2, <2>3
<1>2. ASSUME NEW i \in DOMAIN changes'
      PROVE  \E x \in Emitted' \cup Pending' : Payload(x) = changes'[i]
    <2>1. PICK x \in Emitted \cup Pending : Payload(x) = changes[i]
        BY DEF LoggedInv
    <2>2. changes[i] \in ChangedEvent
        BY ElementOfSeq, LenProperties DEF TypeOK, ServerTypeOK
    <2>3. Tells(x)
        BY <2>1, <2>2 DEF Tells, ChangedEvent
    <2> QED BY <2>1, <2>3 DEF Within
<1> QED BY <1>1, <1>2 DEF LoggedInv

LEMMA WayReceived ==
    ASSUME TypeOK, LockInv, CallsInv, ChainInv, LoggedInv, OrderInv,
           ReceiveResponse \/ ReceiveEvent \/ ReceiveChanges
    PROVE  LoggedInv' /\ OrderInv' /\ Within(Delivered', Delivered)
PROOF
<1> DEFINE m == Head(s2c)
<1>1. /\ s2c # <<>> /\ s2c' = Tail(s2c) /\ UNCHANGED <<events, missed, new_event, changes>>
      /\ \/ m.kind = "event" /\ seen' = Append(seen, m.msg) /\ call' = call
         \/ m.kind # "event" /\ seen' = seen
    BY DEF ReceiveResponse, ReceiveEvent, ReceiveChanges, Receive, loopVars, handlerVars,
        switchVars
<1>2. /\ s2c \in Seq(Message) /\ seen \in Seq(Event)
      /\ call \in [Calls -> {"idle", "requested", "running", "subscribing", "emitting",
                             "returning", "responded", "answered", "panicked"}]
    BY DEF TypeOK, AppTypeOK, ServerTypeOK
<1>3. /\ m \in Message /\ m \in Range(s2c) /\ Range(s2c) = {m} \cup Range(s2c')
    BY <1>1, <1>2, TailRange, SplitRange
<1>4. Pending' = Pending
    <2>1. CASE ReceiveResponse
        <3>1. m.kind = "response" /\ call' = [call EXCEPT ![m.msg] = "answered"]
            BY <2>1 DEF ReceiveResponse, Receive
        <3>2. m.msg \in Calls /\ call[m.msg] # "emitting"
            BY <1>3, <3>1 DEF Message, CallsInv
        <3>3. \A c \in Calls : call'[c] = "emitting" <=> call[c] = "emitting"
            BY <1>2, <3>1, <3>2
        <3> QED BY <1>1, <3>3, PendingSame
    <2>2. CASE ReceiveEvent \/ ReceiveChanges
        BY <1>1, <2>2, PendingSame DEF ReceiveEvent, ReceiveChanges
    <2> QED BY <2>1, <2>2
<1>5. Order(seen, s2c, events, missed, new_event, Pending)
    BY OrderIs
<1>6. CASE m.kind = "event"
    <2> DEFINE x == m.msg
    <2>1. x \in Event /\ Payload(x) = Payload(m) /\ seen' = Append(seen, x)
        BY <1>1, <1>3, <1>6, Items
    <2>2. Range(seen') = Range(seen) \cup {x}
        BY <1>2, <2>1, AppendRange
    <2> HIDE DEF m, x
    <2>3. Order(seen', s2c', events', missed', new_event', Pending')
        BY <1>1, <1>2, <1>4, <1>5, <2>1, OrderReceived DEF m
    <2>4. Within(Delivered', Delivered) /\ Within(Delivered, Delivered')
        BY <1>1, <1>3, <2>1, <2>2 DEF Within, Delivered
    <2>5. Within(Emitted', Emitted \cup Pending) /\ Within(Emitted \cup Pending, Emitted' \cup Pending')
        BY <1>1, <1>4, <2>4 DEF Within, Emitted, Routed
    <2> QED BY <1>1, <2>3, <2>4, <2>5, OrderIs, LoggedKept
<1>7. CASE m.kind # "event"
    <2>1. ~Tells(m) /\ seen' = seen
        BY <1>1, <1>3, <1>7, Items
    <2> HIDE DEF m
    <2>2. Order(seen', s2c', events', missed', new_event', Pending')
        BY <1>1, <1>2, <1>4, <1>5, <2>1, OrderReceived DEF m
    <2>3. Within(Delivered', Delivered) /\ Within(Delivered, Delivered')
        BY <1>1, <1>3, <2>1 DEF Within, Delivered
    <2>4. Within(Emitted', Emitted \cup Pending) /\ Within(Emitted \cup Pending, Emitted' \cup Pending')
        BY <1>1, <1>4, <2>3 DEF Within, Emitted, Routed
    <2> QED BY <1>1, <2>2, <2>3, <2>4, OrderIs, LoggedKept
<1> QED BY <1>6, <1>7

LEMMA WaySent ==
    ASSUME TypeOK, LockInv, ChainInv, LoggedInv, OrderInv,
           SendResponse \/ SendEvent \/ \E i \in DOMAIN sending : SendChanges(i)
    PROVE  LoggedInv' /\ OrderInv' /\ Within(Delivered', Delivered)
PROOF
<1>1. UNCHANGED <<seen, missed, new_event, changes, call>>
    BY DEF SendResponse, SendEvent, SendChanges, appVars, clientVars, handlerVars, switchVars
<1>2. s2c \in Seq(Message) /\ events \in Seq(Event)
    BY DEF TypeOK, ServerTypeOK
<1>3. Pending' = Pending /\ Order(seen, s2c, events, missed, new_event, Pending)
    BY <1>1, PendingSame, OrderIs
<1>4. ASSUME NEW m \in Message, s2c' = Append(s2c, m), m.kind # "event", events' = events
      PROVE  LoggedInv' /\ OrderInv' /\ Within(Delivered', Delivered)
    <2>1. ~Tells(m) /\ Range(s2c') = Range(s2c) \cup {m}
        BY <1>2, <1>4, Items, AppendRange
    <2>2. Order(seen', s2c', events', missed', new_event', Pending')
        BY <1>1, <1>2, <1>3, <1>4, <2>1, OrderSent
    <2>3. Within(Delivered', Delivered) /\ Within(Delivered, Delivered')
        BY <1>1, <1>4, <2>1 DEF Within, Delivered
    <2>4. Within(Emitted', Emitted \cup Pending) /\ Within(Emitted \cup Pending, Emitted' \cup Pending')
        BY <1>1, <1>3, <2>3 DEF Within, Emitted, Routed
    <2> QED BY <1>1, <2>2, <2>3, <2>4, OrderIs, LoggedKept
<1>5. CASE SendResponse
    <2>1. rpc_rx # <<>>
        BY <1>5 DEF SendResponse, Selects, Branches
    <2>2. Head(rpc_rx) \in Calls
        BY <2>1, TailRange DEF TypeOK, ServerTypeOK
    <2>3. [kind |-> "response", msg |-> Head(rpc_rx)] \in Message
        BY <2>2 DEF Message
    <2> QED BY <1>4, <1>5, <2>3 DEF SendResponse, SendMsg
<1>6. ASSUME NEW i \in DOMAIN sending, SendChanges(i)
      PROVE  LoggedInv' /\ OrderInv' /\ Within(Delivered', Delivered)
    <2>1. sending[i] \in Update
        BY DEF TypeOK, ServerTypeOK
    <2>2. [kind |-> "state", msg |-> sending[i]] \in Message
        BY <2>1 DEF Message
    <2> QED BY <1>4, <1>6, <2>2 DEF SendChanges, SendMsg
<1>7. CASE SendEvent
    <2> DEFINE e == Head(events)
               m == [kind |-> "event", msg |-> e]
    <2>1. events # <<>> /\ events' = Tail(events) /\ s2c' = Append(s2c, m)
        BY <1>7 DEF SendEvent, SendMsg, Selects, Branches
    <2>2. e \in Event /\ e \in Range(events) /\ Range(events) = {e} \cup Range(events')
        BY <1>2, <2>1, TailRange, SplitRange
    <2>3. m \in Message
        BY <2>2 DEF Message
    <2>4. Payload(m) = Payload(e)
        BY <2>2, <2>3, Items
    <2> HIDE DEF m, e
    <2>5. Range(s2c') = Range(s2c) \cup {m}
        BY <1>2, <2>1, <2>3, AppendRange
    <2>6. Order(seen', s2c', events', missed', new_event', Pending')
        BY <1>1, <1>2, <1>3, <2>1, <2>3, <2>4, OrderSent DEF e
    <2>7. Within(Delivered', Delivered) /\ Within(Delivered, Delivered')
        BY <1>1, <2>2, <2>4, <2>5 DEF Within, Delivered
    <2>8. Within(Emitted', Emitted \cup Pending) /\ Within(Emitted \cup Pending, Emitted' \cup Pending')
        BY <1>1, <1>3, <2>7 DEF Within, Emitted, Routed
    <2> QED BY <1>1, <2>6, <2>7, <2>8, OrderIs, LoggedKept
<1> QED BY <1>5, <1>6, <1>7

LEMMA WayRouted ==
    ASSUME TypeOK, LockInv, ChainInv, LoggedInv, OrderInv, RouteEvent
    PROVE  LoggedInv' /\ OrderInv'
PROOF
<1> DEFINE e == Head(new_event)
<1>1. /\ UNCHANGED <<seen, s2c, changes, call>> /\ new_event # <<>> /\ new_event' = Tail(new_event)
      /\ \/ events' = Append(events, e) /\ missed' = missed
         \/ events' = events /\ missed' = missed \cup {e}
    BY DEF RouteEvent, appVars, clientVars, wireVars, handlerVars
<1>2. new_event \in Seq(Event) /\ events \in Seq(Event)
    BY DEF TypeOK, ServerTypeOK, SwitchTypeOK
<1>3. Pending' = Pending /\ Order(seen, s2c, events, missed, new_event, Pending)
    BY <1>1, PendingSame, OrderIs
<1>4. e \in Event /\ e \in Range(new_event) /\ Range(new_event) = {e} \cup Range(new_event')
    BY <1>1, <1>2, TailRange, SplitRange
<1>5. Order(seen', s2c', events', missed', new_event', Pending')
    <2>1. /\ Order(seen, s2c, Append(events, e), missed, new_event', Pending)
          /\ Order(seen, s2c, events, missed \cup {e}, new_event', Pending)
        BY <1>1, <1>2, <1>3, OrderRouted
    <2>2. CASE events' = Append(events, e) /\ missed' = missed
        BY <1>1, <1>3, <2>1, <2>2, Zenon
    <2>3. CASE events' = events /\ missed' = missed \cup {e}
        BY <1>1, <1>3, <2>1, <2>3, Zenon
    <2> QED BY <1>1, <2>2, <2>3
<1> HIDE DEF e
<1>6. events' = Append(events, e) => Range(events') = Range(events) \cup {e}
    BY <1>2, <1>4, AppendRange
<1>7. Emitted' = Emitted
    <2>1. CASE events' = Append(events, e) /\ missed' = missed
        BY <1>1, <1>4, <1>6, <2>1 DEF Emitted, Routed, Delivered
    <2>2. CASE events' = events /\ missed' = missed \cup {e}
        BY <1>1, <1>4, <2>2 DEF Emitted, Routed, Delivered
    <2> QED BY <1>1, <2>1, <2>2
<1>8. Within(Emitted', Emitted \cup Pending) /\ Within(Emitted \cup Pending, Emitted' \cup Pending')
    BY <1>3, <1>7 DEF Within
<1> QED BY <1>1, <1>5, <1>8, OrderIs, LoggedKept

LEMMA WayEmitted ==
    ASSUME TypeOK, LockInv, ChainInv, LoggedInv, OrderInv,
           FollowTopics \/ \E c \in Calls : Emit(c)
    PROVE  LoggedInv' /\ OrderInv'
PROOF
<1>1. UNCHANGED <<seen, s2c, events, missed, changes>>
    BY DEF FollowTopics, Emit, appVars, clientVars, wireVars, loopVars, handlerVars
<1>2. /\ new_event \in Seq(Event) /\ Order(seen, s2c, events, missed, new_event, Pending)
      /\ call \in [Calls -> {"idle", "requested", "running", "subscribing", "emitting",
                             "returning", "responded", "answered", "panicked"}]
    BY OrderIs DEF TypeOK, AppTypeOK, SwitchTypeOK
<1>3. CASE FollowTopics
    <2> DEFINE e == [kind |-> "ServerSentTest", topic |-> Head(topic_notif).topic]
    <2>1. /\ topic_notif # <<>> /\ call' = call
          /\ new_event' = new_event \/ new_event' = Append(new_event, e)
        BY <1>3 DEF FollowTopics, appVars
    <2>2. Head(topic_notif) \in [kind : {"Created", "Removed"}, topic : AnyTopic]
        BY <2>1, TailRange DEF TypeOK, SwitchTypeOK
    <2>3. e \in Event
        BY <2>2 DEF Event
    <2>4. ~Tells(e)
        BY DEF Tells, Payload
    <2> HIDE DEF e
    <2>5. Pending' = Pending
        BY <1>1, <2>1, PendingSame
    <2>6. Order(seen', s2c', events', missed', new_event', Pending')
        BY <1>1, <1>2, <2>1, <2>3, <2>4, <2>5, OrderEmitted
    <2>7. Range(new_event') = Range(new_event) \/ Range(new_event') = Range(new_event) \cup {e}
        <3>1. Range(Append(new_event, e)) = Range(new_event) \cup {e}
            BY <1>2, <2>3, AppendRange
        <3> QED BY <2>1, <3>1, Zenon
    <2>8. Within(Emitted', Emitted \cup Pending) /\ Within(Emitted \cup Pending, Emitted' \cup Pending')
        <3>1. Emitted' = Emitted \/ Emitted' = Emitted \cup {e}
            BY <1>1, <2>7 DEF Emitted, Routed, Delivered
        <3> QED BY <2>4, <2>5, <3>1 DEF Within
    <2> QED BY <1>1, <2>6, <2>8, OrderIs, LoggedKept
<1>4. ASSUME NEW c \in Calls, Emit(c) PROVE LoggedInv' /\ OrderInv'
    <2> DEFINE e == changes[Len(changes)]
    <2>1. /\ call[c] = "emitting" /\ call' = [call EXCEPT ![c] = "returning"]
          /\ new_event' = new_event \o emission[c]
        BY <1>4 DEF Emit
    <2>2. emission[c] = <<e>> /\ Pending = {e} /\ e \in ChangedEvent
        BY <2>1, PendingIs
    <2>3. e \in Event
        BY <2>2, Items
    <2> HIDE DEF e
    <2>4. new_event' = Append(new_event, e)
        BY <1>2, <2>1, <2>2, <2>3, AppendIsConcat
    <2>5. Pending' = {}
        <3>1. \A d \in Calls : call'[d] # "emitting"
            <4>1. \A d \in Calls : d # c => call[d] # "emitting"
                BY <2>1 DEF LockInv
            <4> QED BY <1>2, <2>1, <4>1
        <3> QED BY <3>1 DEF Pending
    <2>6. Order(seen', s2c', events', missed', new_event', Pending')
        BY <1>1, <1>2, <2>2, <2>3, <2>4, <2>5, OrderEmitted
    <2>7. Range(new_event') = Range(new_event) \cup {e}
        BY <1>2, <2>3, <2>4, AppendRange
    <2>8. Emitted' = Emitted \cup Pending
        BY <1>1, <2>2, <2>7 DEF Emitted, Routed, Delivered
    <2>9. Within(Emitted', Emitted \cup Pending) /\ Within(Emitted \cup Pending, Emitted' \cup Pending')
        BY <2>8 DEF Within
    <2> QED BY <1>1, <2>6, <2>9, OrderIs, LoggedKept
<1> QED BY <1>3, <1>4

LEMMA WayAssigned ==
    ASSUME TypeOK, LockInv, ChainInv, ChainInv', LoggedInv, OrderInv, lock = NoCall,
           NEW c \in Calls, NEW new \in Values, Assign(c, new),
           UNCHANGED <<seen, s2c, events, missed, new_event>>
    PROVE  LoggedInv' /\ OrderInv'
PROOF
<1> DEFINE e == Changed(new)
<1>1. changes' = Append(changes, e) /\ call' = [call EXCEPT ![c] = "emitting"]
    BY DEF Assign, Change
<1>2. /\ changes \in Seq(ChangedEvent) /\ Len(changes) \in Nat /\ DOMAIN changes = 1..Len(changes)
      /\ call \in [Calls -> {"idle", "requested", "running", "subscribing", "emitting",
                             "returning", "responded", "answered", "panicked"}]
    BY LenProperties DEF TypeOK, AppTypeOK, ServerTypeOK
<1>3. e \in ChangedEvent /\ e.nth = Len(changes) + 1
    <2>1. Len(epochs) \in Nat /\ state.counter \in Values /\ state.topic \in AnyTopic
        BY LenProperties DEF TypeOK, ServerTypeOK, State
    <2> QED BY <1>2, <2>1 DEF Changed, ChangedEvent
<1>4. Tells(e) /\ Payload(e) = e /\ Nth(e) = Len(changes) + 1
    BY <1>3, Items
<1> HIDE DEF e
<1>5. /\ Len(changes') = Len(changes) + 1 /\ changes'[Len(changes) + 1] = e
      /\ DOMAIN changes' = 1..(Len(changes) + 1)
      /\ \A i \in 1..Len(changes) : changes'[i] = changes[i]
    BY <1>1, <1>2, <1>3, AppendProperties, LenProperties
<1>6. Pending = {}
    <2>1. \A d \in Calls : call[d] # "emitting"
        BY CallIds DEF LockInv
    <2> QED BY <2>1 DEF Pending
<1>7. Pending' = {e}
    <2>1. call'[c] = "emitting"
        BY <1>1, <1>2
    <2> QED BY <1>5, <2>1 DEF Pending
<1>8. Emitted' = Emitted
    BY DEF Emitted, Routed, Delivered
<1>9. Before(Emitted, {e})
    <2> SUFFICES ASSUME NEW x \in Emitted, Tells(x) PROVE Nth(x) < Nth(e)
        BY DEF Before, Precedes
    <2>1. Nth(x) \in 1..Len(changes)
        BY <1>2 DEF LoggedInv
    <2> QED BY <1>2, <1>4, <2>1
<1>10. OrderInv'
    BY <1>7, <1>8, <1>9 DEF OrderInv, Routed, Delivered
<1>11. ASSUME NEW x \in Emitted', Tells(x)
       PROVE  Nth(x) \in DOMAIN changes' /\ changes'[Nth(x)] = Payload(x)
    <2>1. Nth(x) \in 1..Len(changes) /\ changes[Nth(x)] = Payload(x)
        BY <1>2, <1>8, <1>11 DEF LoggedInv
    <2> QED BY <1>2, <1>5, <2>1
<1>12. ASSUME NEW i \in DOMAIN changes'
       PROVE  \E x \in Emitted' \cup Pending' : Payload(x) = changes'[i]
    <2>1. CASE i = Len(changes) + 1
        BY <1>4, <1>5, <1>7, <2>1
    <2>2. CASE i # Len(changes) + 1
        <3>1. i \in DOMAIN changes /\ changes'[i] = changes[i]
            BY <1>2, <1>5, <2>2
        <3> QED BY <1>6, <1>8, <3>1 DEF LoggedInv
    <2> QED BY <2>1, <2>2
<1> QED BY <1>10, <1>11, <1>12 DEF LoggedInv

LEMMA WayNext ==
    ASSUME TypeOK, CallsInv, LockInv, ChainInv, ChainInv', LoggedInv, OrderInv, [Next]_vars
    PROVE  LoggedInv' /\ OrderInv'
PROOF
<1>0. call \in [Calls -> {"idle", "requested", "running", "subscribing", "emitting",
                          "returning", "responded", "answered", "panicked"}]
    BY DEF TypeOK, AppTypeOK
<1>1. ASSUME UNCHANGED <<seen, s2c, events, missed, new_event, changes>>,
             \A c \in Calls : call'[c] = "emitting" <=> call[c] = "emitting"
      PROVE  LoggedInv' /\ OrderInv'
    <2>1. Pending' = Pending
        BY <1>1, PendingSame
    <2>2. Emitted' = Emitted /\ Routed' = Routed
        BY <1>1 DEF Emitted, Routed, Delivered
    <2> QED BY <1>1, <2>1, <2>2 DEF LoggedInv, OrderInv
<1>2. ASSUME UNCHANGED <<seen, s2c, events, missed, new_event, changes>>,
             NEW c \in Calls, NEW v, call' = [call EXCEPT ![c] = v],
             v # "emitting", call[c] # "emitting"
      PROVE  LoggedInv' /\ OrderInv'
    <2>1. \A d \in Calls : call'[d] = "emitting" <=> call[d] = "emitting"
        BY <1>0, <1>2
    <2> QED BY <1>1, <1>2, <2>1
<1>3. CASE AppStep \/ ApplyChanges \/ HandleProxied \/ HandleNotification \/ UNCHANGED vars
    <2>1. UNCHANGED <<seen, s2c, events, missed, new_event, changes, call>>
        BY <1>3 DEF AppStep, PollState, DropReadGuard, ApplyChanges, HandleProxied,
            HandleNotification, vars, appVars, clientVars, wireVars, loopVars, handlerVars,
            switchVars
    <2> QED BY <1>1, <2>1
<1>4. CASE ReceiveRequest
    <2>1. /\ UNCHANGED <<seen, s2c, events, missed, new_event, changes>> /\ c2s # <<>>
          /\ call' = [call EXCEPT ![Head(c2s)] = "running"]
        BY <1>4 DEF ReceiveRequest, Selects, Branches, clientVars, handlerVars, switchVars
    <2>2. Head(c2s) \in Calls /\ call[Head(c2s)] = "requested"
        BY <2>1, TailRange DEF TypeOK, ServerTypeOK, CallsInv
    <2> QED BY <1>2, <2>1, <2>2
<1>5. ASSUME NEW c \in Calls,
             Make(c) \/ NewCounter(c) \/ AddSubscription(c) \/ Get(c) \/ Return(c)
      PROVE  LoggedInv' /\ OrderInv'
    <2>1. UNCHANGED <<seen, s2c, events, missed, new_event, changes>>
        BY <1>5 DEF Make, NewCounter, AddSubscription, Get, Return, clientVars, wireVars, loopVars,
            handlerVars, switchVars
    <2>2. \E v : v # "emitting" /\ call' = [call EXCEPT ![c] = v]
        BY <1>5 DEF Make, NewCounter, AddSubscription, Change, Get, Return, Respond
    <2>3. call[c] # "emitting"
        BY <1>5 DEF Make, NewCounter, AddSubscription, Get, Runs, Return
    <2> QED BY <1>2, <2>1, <2>2, <2>3
<1>6. ASSUME NEW c \in Calls, Increment(c) \/ Decrement(c) PROVE LoggedInv' /\ OrderInv'
    <2>1. /\ UNCHANGED <<seen, s2c, events, missed, new_event>>
          /\ call[c] = "running" /\ lock = NoCall
        BY <1>6 DEF Increment, Decrement, Runs, Adjust, clientVars, wireVars, loopVars, switchVars
    <2>2. \A o \in Int : o % (MaxU32 + 1) \in Values
        BY SessionBounds DEF Values
    <2>3. state.counter \in Int
        BY SessionBounds DEF TypeOK, ServerTypeOK, State, Values
    <2>4. Panic(c) \/ \E new \in Values : Assign(c, new)
        BY <1>6, <2>2, <2>3 DEF Increment, Decrement, Adjust, Values
    <2>5. CASE Panic(c)
        BY <1>2, <2>1, <2>5 DEF Panic
    <2>6. CASE \E new \in Values : Assign(c, new)
        BY <2>1, <2>6, WayAssigned
    <2> QED BY <2>4, <2>5, <2>6
<1> QED BY <1>3, <1>4, <1>5, <1>6, WayReceived, WaySent, WayRouted, WayEmitted
    DEF Next, ClientStep, ServerStep, LoopStep, HandlerStep, SwitchStep

(* What is known of an event that tells of a change. *)
LEMMA Told ==
    ASSUME TypeOK, ChainInv, LoggedInv, NEW x \in Emitted, Tells(x)
    PROVE  /\ Payload(x) \in ChangedEvent /\ Nth(x) \in Nat
           /\ Payload(x).epoch \in Nat /\ Payload(x).epoch \in 0..Len(epochs)
           /\ Payload(x).topic = TopicOf(Payload(x).epoch)
           /\ Nth(x) \in 1..Len(changes) /\ changes[Nth(x)] = Payload(x)
PROOF
<1>1. Nth(x) \in DOMAIN changes /\ changes[Nth(x)] = Payload(x)
    BY DEF LoggedInv
<1>2. /\ DOMAIN changes = 1..Len(changes) /\ Len(changes) \in Nat /\ Len(epochs) \in Nat
      /\ \A i \in 1..Len(changes) : changes[i] \in ChangedEvent
    BY LenProperties, ElementOfSeq DEF TypeOK, ServerTypeOK
<1>3. Payload(x) \in ChangedEvent /\ Payload(x).epoch \in Nat
    <2>1. Payload(x) \in ChangedEvent
        BY <1>1, <1>2
    <2> QED BY <2>1 DEF ChangedEvent
<1>4. Payload(x).epoch <= Len(epochs) /\ Payload(x).topic = TopicOf(Payload(x).epoch)
    BY <1>1 DEF ChainInv
<1> QED BY <1>1, <1>2, <1>3, <1>4

(* The counter whose subscription the switch has handled last. *)
LEMMA HandledBound ==
    ASSUME TypeOK, AskedInv, HandledInv
    PROVE  /\ Handled \in Nat /\ Len(epochs) \in Nat
           /\ Len(epochs) > 0 => Handled < 2 * Len(epochs)
           /\ Len(epochs) = 0 => Handled = 0
PROOF
<1>1. PICK n \in Nat, L \in Nat, M \in Nat, a \in Nat, z \in Nat, h \in Int :
        /\ n = Len(epochs) /\ L = Len(proxied) /\ M = Len(notifications)
        /\ a = Asked /\ z = Sent /\ h = Handled
    BY Counts
<1>2. a <= 2 * n - L /\ z = (IF a = 0 THEN 0 ELSE a - 1) /\ h = z - M /\ h >= 0
    BY <1>1, Counts DEF HandledInv
<1>3. h \in Nat /\ (n > 0 => h < 2 * n) /\ (n = 0 => h = 0)
    BY <1>1, <1>2
<1> QED BY <1>1, <1>3

(* A counter that is drawn leaves the freshness of earlier ones alone. *)
LEMMA FreshKept ==
    ASSUME TypeOK, epochs' = epochs \/ \E t \in Topics : epochs' = Append(epochs, t)
    PROVE  \A k \in 0..Len(epochs) : Fresh(k)' <=> Fresh(k)
PROOF
<1>1. CASE epochs' = epochs
    BY <1>1 DEF Fresh
<1>2. ASSUME NEW t \in Topics, epochs' = Append(epochs, t), NEW k \in 0..Len(epochs)
      PROVE  Fresh(k)' <=> Fresh(k)
    <2>1. PICK n \in Nat : n = Len(epochs)
        BY LenProperties DEF TypeOK, ServerTypeOK
    <2>2. \A i \in 1..n : epochs'[i] = epochs[i]
        BY <1>2, <2>1, AppendProperties DEF TypeOK, ServerTypeOK
    <2>3. k > 0 => k \in 1..n /\ \A m \in 1..(k - 1) : m \in 1..n
        BY <2>1
    <2>4. k > 0 => epochs'[k] = epochs[k] /\ \A m \in 1..(k - 1) : epochs'[m] = epochs[m]
        BY <2>2, <2>3
    <2> QED BY <2>4 DEF Fresh
<1> QED BY <1>1, <1>2

LEMMA HandledSame ==
    ASSUME Requested' = Requested, UNCHANGED <<proxied, notifications>>
    PROVE  Handled' = Handled
PROOF
<1>1. Asked' = Asked
    BY DEF Asked
<1> QED BY <1>1 DEF Sent, Handled

(* A step that delivers and misses nothing. *)
LEMMA RoutingFrame ==
    ASSUME TypeOK, ChainInv, LoggedInv, RoutingInv,
           \A k \in 0..Len(epochs) : Fresh(k)' <=> Fresh(k),
           Within(Delivered', Delivered), missed' = missed,
           Handled \in Int, Handled' = Handled \/ Handled' = Handled + 1,
           \A x \in Range(new_event)' : Tells(x) /\ Payload(x).epoch > 0 =>
             \/ Handled' < 2 * Payload(x).epoch
             \/ Handled' = 2 * Payload(x).epoch /\ event_first'
    PROVE  RoutingInv'
PROOF
<1>1. ASSUME NEW x \in Delivered', Tells(x)
      PROVE  \E y \in Delivered :
               /\ Payload(y) = Payload(x) /\ Tells(y) /\ Nth(y) = Nth(x)
               /\ Payload(y).epoch \in Nat
               /\ Fresh(Payload(x).epoch)' <=> Fresh(Payload(y).epoch)
    <2>1. PICK y \in Delivered : Payload(y) = Payload(x)
        BY <1>1 DEF Within
    <2>2. Tells(y) /\ Nth(y) = Nth(x) /\ y \in Emitted
        BY <1>1, <2>1 DEF Tells, Nth, Emitted, Routed
    <2>3. Payload(y).epoch \in 0..Len(epochs) /\ Payload(y).epoch \in Nat
        BY <2>2, Told
    <2>4. PICK k \in 0..Len(epochs) : k = Payload(y).epoch
        BY <2>3
    <2>5. Fresh(k)' <=> Fresh(Payload(x).epoch)'
        BY <2>1, <2>4 DEF Fresh
    <2> QED BY <2>1, <2>2, <2>3, <2>4, <2>5
<1>2. ASSUME NEW x \in Delivered', Tells(x), Fresh(Payload(x).epoch)'
      PROVE  /\ Handled' >= 2 * Payload(x).epoch - 1
             /\ \A m \in missed' : Tells(m) /\ Payload(m).epoch = Payload(x).epoch
                  => Nth(m) < Nth(x) \/ Handled' >= 2 * Payload(x).epoch
    <2>1. PICK y \in Delivered :
            /\ Payload(y) = Payload(x) /\ Tells(y) /\ Nth(y) = Nth(x)
            /\ Payload(y).epoch \in Nat /\ Fresh(Payload(y).epoch)
        BY <1>1, <1>2
    <2>2. /\ Handled >= 2 * Payload(y).epoch - 1
          /\ \A m \in missed : Tells(m) /\ Payload(m).epoch = Payload(y).epoch
               => Nth(m) < Nth(y) \/ Handled >= 2 * Payload(y).epoch
        BY <2>1 DEF RoutingInv
    <2>3. PICK k \in Nat : k = Payload(y).epoch
        BY <2>1
    <2>4. Handled' >= 2 * k - 1 /\ (Handled >= 2 * k => Handled' >= 2 * k)
        BY <2>2, <2>3
    <2> QED BY <2>1, <2>2, <2>3, <2>4
<1>3. ASSUME NEW x \in Delivered', NEW y \in Delivered', NEW m \in missed',
             Between(x, m, y)'
      PROVE  FALSE
    <2>1. /\ Tells(x) /\ Tells(m) /\ Tells(y) /\ Fresh(Payload(x).epoch)'
          /\ Payload(m).epoch = Payload(x).epoch /\ Payload(m).epoch = Payload(y).epoch
          /\ Nth(x) < Nth(m) /\ Nth(m) < Nth(y)
        BY <1>3 DEF Between
    <2>2. PICK v \in Delivered :
            /\ Payload(v) = Payload(x) /\ Tells(v) /\ Nth(v) = Nth(x) /\ Fresh(Payload(v).epoch)
        BY <1>1, <2>1
    <2>3. PICK w \in Delivered : Payload(w) = Payload(y) /\ Tells(w) /\ Nth(w) = Nth(y)
        BY <1>1, <2>1
    <2>4. Between(v, m, w)
        BY <2>1, <2>2, <2>3 DEF Between
    <2> QED BY <2>4 DEF RoutingInv
<1> QED BY <1>2, <1>3 DEF RoutingInv

(* Of a counter with a topic of its own, an event is delivered exactly while *)
(* the counter's subscription is the one in force.                           *)
LEMMA InForce ==
    ASSUME TypeOK, AskedInv, HandledInv, NEW k \in 1..Len(epochs), Handled <= 2 * k
    PROVE  /\ Handled = 2 * k - 1 => \E s \in subscriptions : s.topic = TopicOf(k)
           /\ Fresh(k) /\ (\E s \in subscriptions : s.topic = TopicOf(k)) => Handled = 2 * k - 1
PROOF
<1>1. PICK n \in Nat, h \in Nat : n = Len(epochs) /\ h = Handled
    BY HandledBound
<1>2. k \in 0..Len(epochs) /\ k \in 1..n /\ h <= 2 * k
    BY <1>1
<1>3. Handled = 2 * k - 1 => \E s \in subscriptions : s.topic = TopicOf(k)
    <2>1. Handled = 2 * k - 1 => subscriptions = {[topic |-> TopicOf(k), id |-> k]}
        BY <1>2, Zenon DEF HandledInv
    <2>2. [topic |-> TopicOf(k), id |-> k].topic = TopicOf(k)
        OBVIOUS
    <2> QED BY <2>1, <2>2, Zenon
<1>4. ASSUME Fresh(k), NEW s \in subscriptions, s.topic = TopicOf(k)
      PROVE  Handled = 2 * k - 1
    <2>1. PICK i \in Nat : h = 2 * i \/ h = 2 * i + 1
        BY Parity
    <2>3. h # 2 * i
        <3>1. i \in 0..n
            BY <1>2, <2>1
        <3>2. Handled = 2 * i => subscriptions = {}
            BY <1>1, <3>1, Zenon DEF HandledInv
        <3> QED BY <1>1, <1>4, <3>2
    <2>4. h = 2 * (i + 1) - 1
        BY <2>1, <2>3
    <2>2. i + 1 \in 0..n /\ i \in 0..n /\ i + 1 <= k
        BY <1>2, <2>4
    <2>5. TopicOf(i + 1) = TopicOf(k)
        <3>1. Handled = 2 * (i + 1) - 1 => subscriptions = {[topic |-> TopicOf(i + 1), id |-> i + 1]}
            BY <1>1, <2>2, Zenon DEF HandledInv
        <3> QED BY <1>1, <1>4, <2>4, <3>1
    <2>6. i + 1 = k
        <3>1. epochs[i + 1] = epochs[k]
            BY <1>2, <2>1, <2>5 DEF TopicOf
        <3>2. i + 1 # k => i + 1 \in 1..(k - 1)
            BY <1>2, <2>1, <2>2
        <3> QED BY <1>4, <3>1, <3>2 DEF Fresh
    <2> QED BY <1>1, <2>4, <2>6
<1> QED BY <1>3, <1>4

LEMMA RoutingRouted ==
    ASSUME TypeOK, CallsInv, LockInv, AskedInv, HandledInv, ChainInv, LoggedInv, OrderInv,
           RoutingInv, RouteEvent
    PROVE  RoutingInv'
PROOF
<1> DEFINE e == Head(new_event)
           subscribed == \E s \in subscriptions : s.topic = e.topic
<1>1. /\ UNCHANGED <<seen, s2c, epochs, proxied, notifications, subscriptions>>
      /\ new_event # <<>> /\ new_event' = Tail(new_event)
      /\ event_first' = (new_event' # <<>>)
      /\ \/ subscribed /\ events' = Append(events, e) /\ missed' = missed
         \/ ~subscribed /\ events' = events /\ missed' = missed \cup {e}
    BY DEF RouteEvent, clientVars, wireVars, handlerVars
<1>2. new_event \in Seq(Event) /\ events \in Seq(Event)
    BY DEF TypeOK, ServerTypeOK, SwitchTypeOK
<1>3. e \in Event /\ e \in Range(new_event) /\ Range(new_event') \subseteq Range(new_event)
    BY <1>1, <1>2, TailRange
<1>4. e \in Emitted /\ Payload(e) = e
    BY <1>3, Items DEF Emitted
<1>5. Handled' = Handled /\ \A k : Fresh(k)' <=> Fresh(k)
    <2>1. Handled' = Handled
        BY <1>1, SubscriptionIdle, HandledSame
    <2> QED BY <1>1, <2>1 DEF Fresh
<1>6. Handled \in Nat
    BY HandledBound
<1>7. \A x \in Routed : Tells(x) /\ Tells(e) => Nth(x) < Nth(e)
    BY <1>3 DEF OrderInv, Before, Precedes
<1>8. Delivered' = Delivered \/ (subscribed /\ missed' = missed /\ Delivered' = Delivered \cup {e})
    <2> HIDE DEF e, subscribed
    <2>1. Range(Append(events, e)) = Range(events) \cup {e}
        BY <1>2, <1>3, AppendRange
    <2>2. CASE subscribed /\ events' = Append(events, e) /\ missed' = missed
        BY <1>1, <2>1, <2>2 DEF Delivered
    <2>3. CASE events' = events
        BY <1>1, <2>3 DEF Delivered
    <2> QED BY <1>1, <2>2, <2>3
<1>9. missed' = missed \/ (~subscribed /\ missed' = missed \cup {e} /\ Delivered' = Delivered)
    BY <1>1 DEF Delivered
(* The counter the event is about, if it tells of a change. *)
<1>10. ASSUME Tells(e), Fresh(e.epoch)
       PROVE  /\ Handled <= 2 * e.epoch /\ e.epoch \in Nat
              /\ subscribed <=> Handled = 2 * e.epoch - 1
    <2>1. e.epoch \in 0..Len(epochs) /\ e.epoch \in Nat /\ e.topic = TopicOf(e.epoch)
        BY <1>4, <1>10, Told
    <2>2. e.epoch \in 1..Len(epochs) /\ e.epoch > 0
        BY <1>10, <2>1, HandledBound DEF Fresh
    <2>3. Handled < 2 * e.epoch \/ Handled = 2 * e.epoch
        BY <1>3, <1>4, <1>10, <2>2 DEF RoutingInv
    <2>4. Handled <= 2 * e.epoch
        BY <1>6, <2>1, <2>3
    <2> QED BY <1>10, <2>1, <2>2, <2>4, InForce
<1> HIDE DEF e, subscribed
(* The switch goes on with the events it has found. *)
<1>11. ASSUME NEW x \in Range(new_event'), Tells(x), Payload(x).epoch > 0
       PROVE  \/ Handled' < 2 * Payload(x).epoch
              \/ Handled' = 2 * Payload(x).epoch /\ event_first'
    <2>1. Handled < 2 * Payload(x).epoch \/ Handled = 2 * Payload(x).epoch
        BY <1>3, <1>11 DEF RoutingInv
    <2>2. new_event' # <<>>
        BY <1>11 DEF Range
    <2> QED BY <1>1, <1>5, <2>1, <2>2
<1>12. ASSUME NEW x \in Delivered', Tells(x), Fresh(Payload(x).epoch)
       PROVE  /\ Handled >= 2 * Payload(x).epoch - 1
              /\ \A m \in missed' : Tells(m) /\ Payload(m).epoch = Payload(x).epoch
                      => Nth(m) < Nth(x) \/ Handled >= 2 * Payload(x).epoch
    <2>1. CASE x \in Delivered
        <3>1. /\ Handled >= 2 * Payload(x).epoch - 1
              /\ \A m \in missed : Tells(m) /\ Payload(m).epoch = Payload(x).epoch
                      => Nth(m) < Nth(x) \/ Handled >= 2 * Payload(x).epoch
            BY <1>12, <2>1 DEF RoutingInv
        <3>2. ASSUME ~subscribed, missed' = missed \cup {e}, Tells(e),
                     Payload(e).epoch = Payload(x).epoch
              PROVE  Handled >= 2 * Payload(x).epoch
            <4>1. Fresh(e.epoch) /\ Handled >= 2 * e.epoch - 1
                BY <1>4, <1>12, <3>1, <3>2
            <4>2. e.epoch \in Nat /\ Handled # 2 * e.epoch - 1
                BY <1>10, <3>2, <4>1
            <4>3. Handled >= 2 * e.epoch
                BY <1>6, <4>1, <4>2
            <4> QED BY <1>4, <3>2, <4>3
        <3> QED BY <1>9, <3>1, <3>2
    <2>2. CASE x \notin Delivered
        <3>1. x = e /\ subscribed /\ missed' = missed
            BY <1>8, <1>12, <2>2
        <3>2. Payload(x) = e /\ Handled = 2 * e.epoch - 1 /\ e.epoch \in Nat
            BY <1>4, <1>10, <1>12, <3>1
        <3>3. \A m \in missed : Tells(m) => Nth(m) < Nth(x)
            BY <1>7, <1>12, <3>1 DEF Routed
        <3> QED BY <1>6, <3>1, <3>2, <3>3
    <2> QED BY <2>1, <2>2
(* A change that is missed is not between two that are delivered. *)
<1>13. ASSUME NEW x \in Delivered', NEW y \in Delivered', NEW m \in missed', Between(x, m, y)
       PROVE  FALSE
    <2>1. /\ Tells(x) /\ Tells(m) /\ Tells(y) /\ Fresh(Payload(x).epoch)
          /\ Payload(m).epoch = Payload(x).epoch /\ Payload(m).epoch = Payload(y).epoch
          /\ Nth(x) < Nth(m) /\ Nth(m) < Nth(y)
        BY <1>13 DEF Between
    <2>2. x \in Emitted /\ m \in Emitted /\ y \in Emitted
        BY <1>4, <1>8, <1>9 DEF Emitted, Routed
    <2>3. PICK a \in Nat, b \in Nat, d \in Nat : a = Nth(x) /\ b = Nth(m) /\ d = Nth(y)
        BY <2>1, <2>2, Told
    <2>4. a < b /\ b < d
        BY <2>1, <2>3
    <2>5. CASE y \in Delivered
        <3>1. Tells(e) => Nth(y) < Nth(e)
            BY <1>7, <2>1, <2>5 DEF Routed
        <3>2. x # e /\ m # e
            BY <2>1, <2>3, <2>4, <3>1
        <3>3. x \in Delivered /\ m \in missed
            BY <1>8, <1>9, <3>2
        <3> QED BY <1>13, <2>5, <3>3 DEF RoutingInv
    <2>6. CASE y \notin Delivered
        <3>1. y = e /\ subscribed /\ missed' = missed
            BY <1>8, <2>6
        <3>2. x \in Delivered
            BY <1>8, <2>3, <2>4, <3>1
        <3>3. Nth(m) < Nth(x) \/ Handled >= 2 * Payload(x).epoch
            BY <2>1, <3>1, <3>2 DEF RoutingInv
        <3>4. Fresh(e.epoch) /\ Payload(x).epoch = e.epoch
            BY <1>4, <2>1, <3>1
        <3>5. Handled = 2 * e.epoch - 1 /\ e.epoch \in Nat
            BY <1>10, <2>1, <3>1, <3>4
        <3>6. ~(Handled >= 2 * Payload(x).epoch)
            BY <3>4, <3>5
        <3> QED BY <2>3, <2>4, <3>3, <3>6
    <2> QED BY <2>5, <2>6
<1>14. \A x : Fresh(Payload(x).epoch)' <=> Fresh(Payload(x).epoch)
    BY <1>1 DEF Fresh
<1>15. \A x, y, m : Between(x, m, y)' <=> Between(x, m, y)
    BY <1>1 DEF Between, Fresh
<1> QED BY <1>5, <1>11, <1>12, <1>13, <1>14, <1>15 DEF RoutingInv

LEMMA RoutingNext ==
    ASSUME TypeOK, AskedInv, HandledInv, LockInv, CallsInv, ChainInv, LoggedInv, OrderInv,
           RoutingInv, [Next]_vars
    PROVE  RoutingInv'
PROOF
<1>1. Handled \in Nat /\ Handled \in Int
    BY HandledBound
<1>2. ASSUME Within(Delivered', Delivered), UNCHANGED <<missed, new_event, event_first>>,
             Handled' = Handled, epochs' = epochs \/ \E t \in Topics : epochs' = Append(epochs, t)
      PROVE  RoutingInv'
    <2>1. \A x \in Range(new_event)' : Tells(x) /\ Payload(x).epoch > 0 =>
            \/ Handled' < 2 * Payload(x).epoch
            \/ Handled' = 2 * Payload(x).epoch /\ event_first'
        BY <1>2 DEF RoutingInv
    <2> QED BY <1>1, <1>2, <2>1, FreshKept, RoutingFrame
<1>3. CASE \/ ReceiveResponse \/ ReceiveEvent \/ ReceiveChanges
           \/ SendResponse \/ SendEvent \/ \E i \in DOMAIN sending : SendChanges(i)
    <2>1. Within(Delivered', Delivered)
        BY <1>3, WayReceived, WaySent
    <2>2. UNCHANGED <<missed, new_event, event_first, epochs>>
        BY <1>3 DEF ReceiveResponse, ReceiveEvent, ReceiveChanges, Receive, SendResponse,
            SendEvent, SendChanges, loopVars, handlerVars, switchVars
    <2>3. Handled' = Handled
        BY <1>3, SubscriptionIdle, HandledSame DEF ClientStep
    <2> QED BY <1>2, <2>1, <2>2, <2>3
<1>4. CASE \/ AppStep \/ ApplyChanges \/ ReceiveRequest \/ UNCHANGED vars
           \/ \E c \in Calls : Make(c) \/ Get(c) \/ Return(c) \/ Increment(c) \/ Decrement(c)
    <2>1. UNCHANGED <<seen, s2c, events, missed, new_event, event_first, epochs>>
        BY <1>4 DEF AppStep, PollState, DropReadGuard, ApplyChanges, ReceiveRequest, Make, Get,
            Return, Increment, Decrement, Adjust, vars, appVars, clientVars, wireVars, loopVars,
            handlerVars, switchVars
    <2>2. Handled' = Handled
        BY <1>4, SubscriptionIdle, HandledSame DEF ClientStep
    <2>3. Delivered' = Delivered
        BY <2>1 DEF Delivered
    <2> QED BY <1>2, <2>1, <2>2, <2>3, WithinSubset
<1>5. CASE HandleProxied \/ \E c \in Calls : NewCounter(c) \/ AddSubscription(c)
    <2>1. /\ UNCHANGED <<seen, s2c, events, missed, new_event, event_first>>
          /\ epochs' = epochs \/ \E t \in Topics : epochs' = Append(epochs, t)
        BY <1>5 DEF HandleProxied, NewCounter, AddSubscription, clientVars, wireVars,
            handlerVars, switchVars
    <2>2. Handled' = Handled
        BY <1>5, SubscriptionProxied, SubscriptionNewCounter, SubscriptionAdded
    <2>3. Delivered' = Delivered
        BY <2>1 DEF Delivered
    <2> QED BY <1>2, <2>1, <2>2, <2>3, WithinSubset
(* The switch had found no event: those that have come since are next. *)
<1>6. CASE HandleNotification
    <2>1. /\ UNCHANGED <<seen, s2c, events, missed, new_event, epochs>>
          /\ ~event_first /\ event_first' = (new_event # <<>>)
        BY <1>6 DEF HandleNotification, clientVars, wireVars, loopVars, handlerVars
    <2>2. Handled' = Handled + 1
        BY <1>6, SubscriptionHandled
    <2>3. Delivered' = Delivered
        BY <2>1 DEF Delivered
    <2>4. ASSUME NEW x \in Range(new_event)', Tells(x), Payload(x).epoch > 0
          PROVE  \/ Handled' < 2 * Payload(x).epoch
                 \/ Handled' = 2 * Payload(x).epoch /\ event_first'
        <3>1. x \in Range(new_event) /\ new_event # <<>>
            BY <2>1, <2>4 DEF Range
        <3>2. Handled < 2 * Payload(x).epoch
            BY <2>1, <2>4, <3>1 DEF RoutingInv
        <3>3. Payload(x).epoch \in Nat
            BY <2>4, <3>1, Told DEF Emitted
        <3>4. Handled + 1 < 2 * Payload(x).epoch \/ Handled + 1 = 2 * Payload(x).epoch
            BY <1>1, <3>2, <3>3
        <3> QED BY <2>1, <2>2, <3>1, <3>4
    <2>5. \A k \in 0..Len(epochs) : Fresh(k)' <=> Fresh(k)
        BY <2>1, FreshKept
    <2>6. Within(Delivered', Delivered)
        BY <2>3, WithinSubset
    <2> QED BY <1>1, <2>1, <2>2, <2>4, <2>5, <2>6, RoutingFrame
<1>7. ASSUME UNCHANGED <<seen, s2c, events, missed, epochs, event_first>>, Handled' = Handled,
             NEW e \in Event, new_event' = Append(new_event, e),
             Tells(e) => e.epoch = Len(epochs)
      PROVE  RoutingInv'
    <2>1. Delivered' = Delivered
        BY <1>7 DEF Delivered
    <2>2. Range(new_event)' = Range(new_event) \cup {e} /\ Payload(e) = e
        BY <1>7, AppendRange, Items DEF TypeOK, SwitchTypeOK
    <2>3. ASSUME NEW x \in Range(new_event)', Tells(x), Payload(x).epoch > 0
          PROVE  \/ Handled' < 2 * Payload(x).epoch
                 \/ Handled' = 2 * Payload(x).epoch /\ event_first'
        <3>1. CASE x \in Range(new_event)
            BY <1>7, <2>3, <3>1 DEF RoutingInv
        <3>2. CASE x = e
            BY <1>7, <2>2, <2>3, <3>2, HandledBound
        <3> QED BY <2>2, <2>3, <3>1, <3>2
    <2>4. \A k \in 0..Len(epochs) : Fresh(k)' <=> Fresh(k)
        BY <1>7, FreshKept
    <2>5. Within(Delivered', Delivered)
        BY <2>1, WithinSubset
    <2> QED BY <1>1, <1>7, <2>3, <2>4, <2>5, RoutingFrame
<1>8. CASE FollowTopics
    <2> DEFINE e == [kind |-> "ServerSentTest", topic |-> Head(topic_notif).topic]
    <2>7. Handled' = Handled
        BY <1>8, SubscriptionIdle, HandledSame
    <2>1. /\ UNCHANGED <<seen, s2c, events, missed, epochs, event_first>>
          /\ topic_notif # <<>> /\ (new_event' = new_event \/ new_event' = Append(new_event, e))
        BY <1>8 DEF FollowTopics, clientVars, wireVars, loopVars, handlerVars
    <2>2. Head(topic_notif) \in [kind : {"Created", "Removed"}, topic : AnyTopic]
        BY <2>1, TailRange DEF TypeOK, SwitchTypeOK
    <2>3. e \in Event
        BY <2>2 DEF Event
    <2>4. ~Tells(e)
        BY DEF Tells, Payload
    <2> HIDE DEF e
    <2>5. CASE new_event' = new_event
        <3>1. Delivered' = Delivered
            BY <2>1 DEF Delivered
        <3> QED BY <1>2, <2>1, <2>5, <2>7, <3>1, WithinSubset
    <2>6. CASE new_event' = Append(new_event, e)
        BY <1>7, <2>1, <2>3, <2>4, <2>6, <2>7
    <2> QED BY <2>1, <2>5, <2>6
<1>9. ASSUME NEW c \in Calls, Emit(c) PROVE RoutingInv'
    <2> DEFINE e == changes[Len(changes)]
    <2>6. Handled' = Handled
        BY <1>9, SubscriptionIdle, HandledSame
    <2>1. /\ UNCHANGED <<seen, s2c, events, missed, epochs, event_first>>
          /\ call[c] = "emitting" /\ new_event' = new_event \o emission[c]
        BY <1>9 DEF Emit, clientVars, wireVars, loopVars, handlerVars
    <2>2. emission[c] = <<e>> /\ Pending = {e}
        BY <2>1, PendingIs
    <2>3. e \in ChangedEvent /\ e.epoch = Len(epochs)
        BY <2>2, PendingIs
    <2>4. e \in Event
        BY <2>3, Items
    <2> HIDE DEF e
    <2>5. new_event' = Append(new_event, e)
        BY <2>1, <2>2, <2>4, AppendIsConcat DEF TypeOK, SwitchTypeOK
    <2> QED BY <1>7, <2>1, <2>3, <2>4, <2>5, <2>6
<1> QED BY <1>3, <1>4, <1>5, <1>6, <1>8, <1>9, RoutingRouted
    DEF Next, ClientStep, ServerStep, LoopStep, HandlerStep, SwitchStep

-----------------------------------------------------------------------------
LEMMA InitSession == Init => SessionInv
PROOF
<1> SUFFICES ASSUME Init PROVE SessionInv
    OBVIOUS
<1>1. TypeOK
    BY TypeInit
<1>2. /\ c2s = <<>> /\ s2c = <<>> /\ rpc_rx = <<>> /\ events = <<>> /\ proxied = <<>>
      /\ epochs = <<>> /\ changes = <<>> /\ new_event = <<>> /\ notifications = <<>>
      /\ seen = <<>> /\ missed = {} /\ subscriptions = {} /\ lock = NoCall
      /\ local = [t \in AnyTopic |-> 0] /\ state = Default
      /\ \A c \in Calls : call[c] = "idle"
    BY DEF Init
<1>3. CallsInv
    BY <1>2 DEF CallsInv, Range, IsInjective
<1>4. LockInv
    BY <1>2, CallIds DEF LockInv
<1>5. /\ Len(epochs) = 0 /\ Asked = 0 /\ Sent = 0 /\ Handled = 0
      /\ DOMAIN proxied = {} /\ DOMAIN notifications = {} /\ DOMAIN changes = {}
    <2>2. ~Midway /\ Len(epochs) = 0
        BY <1>2 DEF Midway
    <2>1. Requested = 0
        BY <2>2, RequestedIs
    <2>3. Len(proxied) = 0 /\ Len(notifications) = 0
        BY <1>2
    <2>4. Asked = 0
        BY <2>1, <2>3 DEF Asked
    <2>5. Sent = 0
        BY <2>4 DEF Sent
    <2>6. Handled = 0
        BY <2>3, <2>5 DEF Handled
    <2>7. DOMAIN proxied = {} /\ DOMAIN notifications = {} /\ DOMAIN changes = {}
        BY <1>2
    <2> QED BY <2>2, <2>4, <2>5, <2>6, <2>7
<1>6. AskedInv
    BY <1>2, <1>5 DEF AskedInv, TopicOf, Default
<1>7. HandledInv
    BY <1>2, <1>5 DEF HandledInv
<1>8. ChainInv
    BY <1>5 DEF ChainInv
<1>9. Pending = {} /\ Delivered = {} /\ Routed = {} /\ Emitted = {} /\ Range(new_event) = {}
    BY <1>2 DEF Pending, Delivered, Routed, Emitted, Range
<1>10. LoggedInv
    BY <1>5, <1>9 DEF LoggedInv
<1>11. OrderInv
    BY <1>2, <1>9 DEF OrderInv, InOrder, Before, Range
<1>12. RoutingInv
    BY <1>9 DEF RoutingInv
<1> QED BY <1>1, <1>3, <1>4, <1>6, <1>7, <1>8, <1>10, <1>11, <1>12 DEF SessionInv

LEMMA NextSession == SessionInv /\ [Next]_vars => SessionInv'
PROOF
<1> SUFFICES ASSUME SessionInv, [Next]_vars PROVE SessionInv'
    OBVIOUS
<1> USE DEF SessionInv
<1>1. TypeOK' /\ CallsInv' /\ LockInv'
    BY TypeNext, CallsNext, LockNext
<1>2. AskedInv' /\ HandledInv' /\ ChainInv'
    BY SubscriptionNext, ChainNext
<1>3. LoggedInv' /\ OrderInv' /\ RoutingInv'
    BY <1>2, WayNext, RoutingNext
<1> QED BY <1>1, <1>2, <1>3

(* The invariant of a session, for any script of calls, any draws of topics  *)
(* and any window: types, the lock from assignment to response, the way of   *)
(* a subscription and the way of an event.                                   *)
THEOREM SessionInvariant == Spec => []SessionInv
PROOF BY InitSession, NextSession, PTL DEF Spec

(* A client is subscribed to the topic of its counter and to no other once   *)
(* the connection loop and the switch have handled what NewCounter asked     *)
(* for: subscriptions.remove and then subscriptions.add for every counter,   *)
(* also when two counters draw the same topic, with any number of calls      *)
(* under way.                                                                *)
THEOREM SubscriptionFollows == Spec => []SubscribedToItsCounter
PROOF
<1>1. SessionInv => SubscribedToItsCounter
    BY AtRest DEF SessionInv
<1> QED BY <1>1, SessionInvariant, PTL

(* A change that was made after one the client has seen, of the same counter, *)
(* is seen too, or nothing behind it is: it is still to come, or the          *)
(* subscription has ended.                                                    *)
LEMMA SeenOrComing ==
    ASSUME SessionInv, NEW n \in DOMAIN epochs, Fresh(n), NEW i \in ChangesSeen(n),
           NEW c \in DOMAIN changes, seen[i].nth < c, changes[c].epoch = n
    PROVE  \/ \E k \in ChangesSeen(n) : i < k /\ seen[k].nth = c
           \/ /\ \A j \in ChangesSeen(n) : seen[j].nth < c
              /\ ~EventsQuiet \/ Handled >= 2 * n
PROOF
<1> USE DEF SessionInv
<1>1. /\ seen \in Seq(Event) /\ DOMAIN seen = 1..Len(seen) /\ Len(seen) \in Nat
      /\ \A k \in DOMAIN seen : seen[k] \in Event /\ seen[k] \in Range(seen)
      /\ s2c \in Seq(Message)
    BY LenProperties, ElementOfSeq DEF TypeOK, AppTypeOK, ServerTypeOK, Range
<1>2. ASSUME NEW k \in DOMAIN seen, seen[k].kind = "changed"
      PROVE  /\ Tells(seen[k]) /\ Payload(seen[k]) = seen[k] /\ Nth(seen[k]) = seen[k].nth
             /\ seen[k] \in Delivered /\ seen[k] \in Routed /\ seen[k] \in Emitted
             /\ seen[k].nth \in Nat
    <2>1. Payload(seen[k]) = seen[k] /\ seen[k] \in Event
        BY <1>1, Items
    <2>2. Tells(seen[k]) /\ Nth(seen[k]) = seen[k].nth
        BY <1>2, <2>1 DEF Tells, Nth
    <2>3. seen[k] \in Delivered /\ seen[k] \in Routed /\ seen[k] \in Emitted
        BY <1>1 DEF Delivered, Routed, Emitted
    <2>4. seen[k].nth \in Nat
        BY <2>2, <2>3, Told
    <2> QED BY <2>1, <2>2, <2>3, <2>4
<1>3. i \in DOMAIN seen /\ seen[i].kind = "changed" /\ seen[i].epoch = n
    BY DEF ChangesSeen
<1>4. c \in Nat /\ changes[c] \in ChangedEvent /\ changes[c].nth = c
    BY LenProperties, ElementOfSeq DEF TypeOK, ServerTypeOK, ChainInv
<1>5. PICK x \in Emitted \cup Pending : Payload(x) = changes[c]
    BY DEF LoggedInv
<1>6. Tells(x) /\ Nth(x) = c /\ Payload(x).epoch = n
    BY <1>4, <1>5 DEF Tells, Nth, ChangedEvent
<1>7. CASE x \in missed
    <2>1. CASE \E k \in ChangesSeen(n) : seen[k].nth = c
        <3>1. PICK k \in ChangesSeen(n) : seen[k].nth = c
            BY <2>1
        <3>2. k \in DOMAIN seen /\ seen[k].kind = "changed"
            BY DEF ChangesSeen
        <3>3. ~(k < i) /\ k # i
            <4>1. k < i => seen[k].nth < seen[i].nth
                BY <1>2, <1>3, <3>2 DEF OrderInv, InOrder, Precedes
            <4> QED BY <1>2, <1>3, <1>4, <3>1, <4>1
        <3>4. i < k
            BY <1>1, <1>3, <3>2, <3>3
        <3> QED BY <3>1, <3>4
    <2>2. CASE \A k \in ChangesSeen(n) : seen[k].nth # c
        <3>1. Handled >= 2 * n
            <4>1. Nth(x) < seen[i].nth \/ Handled >= 2 * n
                BY <1>2, <1>3, <1>6, <1>7 DEF RoutingInv
            <4> QED BY <1>2, <1>3, <1>4, <1>6, <4>1
        <3>2. ASSUME NEW j \in ChangesSeen(n) PROVE seen[j].nth < c
            <4>1. j \in DOMAIN seen /\ seen[j].kind = "changed" /\ seen[j].epoch = n
                BY DEF ChangesSeen
            <4>2. ~Between(seen[i], x, seen[j])
                BY <1>2, <1>3, <1>7, <4>1 DEF RoutingInv
            <4>3. ~(c < seen[j].nth)
                BY <1>2, <1>3, <1>6, <4>1, <4>2 DEF Between
            <4>4. seen[j].nth # c /\ seen[j].nth \in Nat
                BY <1>2, <2>2, <4>1
            <4> QED BY <1>4, <4>3, <4>4
        <3> QED BY <3>1, <3>2
    <2> QED BY <2>1, <2>2
<1>8. CASE x \in Range(seen)
    <2>1. PICK k \in DOMAIN seen : seen[k] = x
        BY <1>8 DEF Range
    <2>2. Payload(x) = x
        BY <1>1, <2>1, Items
    <2>3. k \in ChangesSeen(n) /\ seen[k].nth = c /\ seen[k].kind = "changed"
        BY <1>4, <1>5, <1>6, <2>1, <2>2 DEF ChangesSeen, ChangedEvent
    <2>4. ~(k < i) /\ k # i
        <3>1. k < i => seen[k].nth < seen[i].nth
            BY <1>2, <1>3, <2>3 DEF OrderInv, InOrder, Precedes
        <3> QED BY <1>2, <1>3, <1>4, <2>3, <3>1
    <2>5. i < k
        BY <1>1, <1>3, <2>4
    <2> QED BY <2>3, <2>5
<1>9. CASE x \notin Range(seen) /\ x \notin missed
    <2>1. x \in Range(s2c) \/ x \in Range(events) \/ x \in Range(new_event) \/ x \in Pending
        BY <1>9 DEF Emitted, Routed, Delivered
    <2>2. ASSUME NEW j \in ChangesSeen(n) PROVE seen[j].nth < c
        <3>1. j \in DOMAIN seen /\ seen[j].kind = "changed"
            BY DEF ChangesSeen
        <3>2. seen[j] \in Range(seen) /\ seen[j] \in Routed /\ seen[j] \in Emitted
            BY <1>1, <1>2, <3>1
        <3>3. Precedes(seen[j], x)
            BY <2>1, <3>2 DEF OrderInv, Before
        <3> QED BY <1>2, <1>6, <3>1, <3>3 DEF Precedes
    <2>3. ~EventsQuiet
        <3> SUFFICES ASSUME EventsQuiet PROVE FALSE
            OBVIOUS
        <3>1. x \notin Range(events) /\ x \notin Range(new_event)
            BY DEF EventsQuiet, Range
        <3>2. x \notin Pending
            BY CallIds DEF EventsQuiet, Pending, LockInv
        <3>3. x \notin Range(s2c)
            <4> SUFFICES ASSUME x \in Range(s2c) PROVE FALSE
                OBVIOUS
            <4>1. x \in Message /\ x.kind # "event"
                BY <1>1, RangeType DEF EventsQuiet
            <4> QED BY <1>6, <4>1, Items
        <3> QED BY <2>1, <3>1, <3>2, <3>3
    <2> QED BY <2>2, <2>3
<1> QED BY <1>7, <1>8, <1>9

LEMMA NoGap ==
    ASSUME SessionInv
    PROVE  EventsTellTheCounter
PROOF
<1> USE DEF SessionInv
<1>1. /\ DOMAIN changes = 1..Len(changes) /\ Len(changes) \in Nat
      /\ DOMAIN epochs = 1..Len(epochs) /\ Len(epochs) \in Nat
      /\ \A k \in 1..Len(changes) : changes[k] \in ChangedEvent
      /\ seen \in Seq(Event) /\ \A k \in DOMAIN seen : seen[k] \in Event
    BY LenProperties, ElementOfSeq DEF TypeOK, AppTypeOK, ServerTypeOK
<1>2. \A k \in 1..Len(changes) : changes[k].epoch \in Nat
    BY <1>1 DEF ChangedEvent
<1>3. ASSUME NEW n, NEW i \in ChangesSeen(n)
      PROVE  /\ i \in DOMAIN seen /\ seen[i].nth \in 1..Len(changes)
             /\ changes[seen[i].nth] = seen[i] /\ seen[i].epoch = n
             /\ Tells(seen[i]) /\ Nth(seen[i]) = seen[i].nth
    <2>1. i \in DOMAIN seen /\ seen[i].kind = "changed" /\ seen[i].epoch = n
        BY <1>3 DEF ChangesSeen
    <2>2. Payload(seen[i]) = seen[i]
        BY <1>1, <2>1, Items
    <2>3. Tells(seen[i]) /\ Nth(seen[i]) = seen[i].nth
        BY <2>1, <2>2 DEF Tells, Nth
    <2>4. seen[i] \in Emitted
        BY <2>1 DEF Emitted, Routed, Delivered, Range
    <2> QED BY <2>1, <2>2, <2>3, <2>4, Told
<1> SUFFICES ASSUME NEW n \in DOMAIN epochs, Fresh(n), NEW i \in ChangesSeen(n)
             PROVE  /\ \A j \in ChangesSeen(n) :
                         i < j /\ ~(\E k \in ChangesSeen(n) : i < k /\ k < j)
                             => seen[i].to = seen[j].from
                    /\ n = Len(epochs) /\ EventsQuiet /\ (\A j \in ChangesSeen(n) : j <= i)
                         => seen[i].to = state.counter
    BY DEF EventsTellTheCounter
<1>4. PICK a \in 1..Len(changes) : a = seen[i].nth /\ changes[a] = seen[i] /\ seen[i].epoch = n
    BY <1>3
<1>5. \A x, y \in DOMAIN changes : x < y => changes[x].epoch <= changes[y].epoch
    BY DEF ChainInv
(* The next change that is seen is the next that was made. *)
<1>6. ASSUME NEW j \in ChangesSeen(n), i < j, ~(\E k \in ChangesSeen(n) : i < k /\ k < j)
      PROVE  seen[i].to = seen[j].from
    <2>1. PICK b \in 1..Len(changes) : b = seen[j].nth /\ changes[b] = seen[j] /\ seen[j].epoch = n
        BY <1>3
    <2>2. a < b
        BY <1>3, <1>4, <1>6, <2>1 DEF OrderInv, InOrder, Precedes
    <2>3. b = a + 1
        <3> SUFFICES ASSUME a + 1 < b PROVE FALSE
            BY <2>2
        <3>1. a + 1 \in DOMAIN changes /\ a + 1 \in 1..Len(changes) /\ a < a + 1
            BY <1>1
        <3>2. changes[a + 1].epoch = n
            <4>1. changes[a].epoch <= changes[a + 1].epoch /\ changes[a + 1].epoch <= changes[b].epoch
                BY <1>1, <1>5, <3>1
            <4> QED BY <1>1, <1>2, <1>4, <2>1, <3>1, <4>1
        <3>3. \/ \E k \in ChangesSeen(n) : i < k /\ seen[k].nth = a + 1
              \/ \A k \in ChangesSeen(n) : seen[k].nth < a + 1
            BY <1>4, <3>1, <3>2, SeenOrComing
        <3>4. PICK k \in ChangesSeen(n) : i < k /\ seen[k].nth = a + 1
            BY <2>1, <3>3
        <3>5. ~(j < k) /\ j # k
            <4>1. j < k => b < a + 1
                BY <1>3, <2>1, <3>4 DEF OrderInv, InOrder, Precedes
            <4> QED BY <2>1, <3>4, <4>1
        <3>6. k < j
            <4>1. j \in Nat /\ k \in Nat
                BY <1>1, <1>3, LenProperties
            <4> QED BY <3>5, <4>1
        <3> QED BY <1>6, <3>4, <3>6
    <2> QED BY <1>1, <1>4, <2>1, <2>3, SMTT(30) DEF ChainInv
(* The last change that is seen is the last that was made. *)
<1>7. ASSUME n = Len(epochs), EventsQuiet, \A j \in ChangesSeen(n) : j <= i
      PROVE  seen[i].to = state.counter
    <2>1. PICK N \in 1..Len(changes) : N = Len(changes)
        <3>1. Len(changes) \in 1..Len(changes)
            BY <1>1, <1>4
        <3> QED BY <3>1
    <2>2. a = N
        <3> SUFFICES ASSUME a < N PROVE FALSE
            BY <2>1
        <3>1. changes[N].epoch = n
            <4>1. changes[a].epoch <= changes[N].epoch /\ changes[N].epoch <= Len(epochs)
                BY <1>1, <1>5, <2>1 DEF ChainInv
            <4> QED BY <1>1, <1>2, <1>4, <1>7, <2>1, <4>1
        <3>4. ~(Handled >= 2 * n)
            BY <1>1, <1>7, HandledBound
        <3>2. PICK k \in ChangesSeen(n) : i < k
            BY <1>1, <1>4, <1>7, <2>1, <3>1, <3>4, SeenOrComing
        <3>3. k \in Nat /\ i \in Nat
            BY <1>1, <1>3, LenProperties
        <3> QED BY <1>7, <3>2, <3>3
    <2> QED BY <1>1, <1>4, <1>7, <2>1, <2>2 DEF ChainInv
<1> QED BY <1>6, <1>7

(* A client that follows the events of a counter whose topic no earlier       *)
(* counter of the session had knows the counter: the changes it sees are a    *)
(* gapless chain, and when no event is on its way the last of them has the    *)
(* counter's value. For any number of calls and counters: handlers hold the   *)
(* write guard across emit().await, the switch handles its subscriptions in   *)
(* the order in which they were asked for, and no queue on the way reorders.  *)
THEOREM EventsTell == Spec => []EventsTellTheCounter
PROOF
<1>1. SessionInv => EventsTellTheCounter
    BY NoGap
<1> QED BY <1>1, SessionInvariant, PTL
=============================================================================
