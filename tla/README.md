# A formal model of HardLight

HardLight is an RPC and event framework over WebSockets. `macros/src/lib.rs`
generates the client, the handler and the connection state of an application;
`src/client.rs` and `src/server.rs` hold the run-time loops. This directory
models that run time, and one application on top of it, in TLA+, checks it with TLC
on small instances, and proves its most important safety properties with TLAPS for
every instance. The models follow the source; payloads, TLS and byte layouts are
abstracted.

## Inventory

| Part | State | Operations | Where |
|---|---|---|---|
| Generated client | `rpc_tx`, `shutdown`, `state`, `events_tx` | `connect`, `disconnect`, `Drop`, `make_rpc_call`, `state`, `subscribe` | macros 316-471 |
| Client loop | `active_rpc_calls[256]`, request channel (10), the state copy | request, stream and shutdown branches of an unbiased `select!` | client.rs 199-339 |
| Connection loop, one per connection | `in_flight[256]`, `rpc_rx`, subscription map, event and proxy channels | five branches of a biased `select!`: responses, state, events, proxied subscriptions, stream | server.rs 345-474 |
| Handler tasks, one per request | none of their own | `handle_rpc_call`, then one send | server.rs 461-463, macros 222-269 |
| Connection state | state under an `RwLock`, update channel (10) | `write`, `DerefMut`, `Drop` of the guard, `apply_changes` | macros 23-120 |
| Event switch, one per server | topic -> id -> sender | route, subscribe, unsubscribe, topic notifications | server.rs 649-722 |
| Handshake | none that lasts | TLS, version header, compression header | server.rs 290-341, client.rs 152-204 |
| Client's events | broadcast channel (32) per session, receivers | send, `subscribe`, `recv` | client.rs 134, 309-315, macros 428-433 |
| Counter example | counter and topic of each connection | `new_counter`, `increment`, `decrement`, `get`, the topic notifier, the application's calls and poll | examples/counter.rs |

How they interact: callers push `(bytes, oneshot)` into the request channel of the
client loop; the loop and the server's connection loop exchange messages over one
stream that is FIFO in each direction; the connection loop spawns a task per
request, which answers through `rpc_rx`; handlers change the connection state and
subscribe through channels to the connection loop; connection loops and the event
switch talk through unbounded channels.

What is hard here: ids are reused while callers may leave, handlers may finish in
any order, and messages may be lost; results of sends are thrown away; `unwrap()`
turns a channel whose other end is gone into a panic of the application; every
dropped state guard sends from a task of its own; two biased `select!`s decide who
overtakes whom; both loops await their own sends without reading; `connect()` can be
cancelled or repeated while its task runs on. `PROJECT.json` lists these hazards, each
at its line, with the properties aimed at it.

What makes each part correct:

- RPC: an answer goes to the call it was computed for, the error a caller gets tells
  whether its call has run, no call runs twice, ids on both sides agree, calls come to
  an end.
- Events: the two subscription maps agree; an event reaches the connections registered
  when it was emitted, up to one (un)subscription that overtakes it, once and in order;
  topic notifications alternate.
- State: the client's copy is a past state of the server and catches up.
- Flow control: the two loops do not wait for each other; an id is lost only with a
  message that failed.
- Life cycle: `connect()` returns, no session is orphaned, abandoned loops end.
- Client's events: what a receiver loses is reported to it, and it learns that its
  session is over.
- Counter session: a client that follows the events knows the counter, is subscribed to
  its counter's topic only, and all its calls are answered.

## Modules

| Module | Models | Used by |
|---|---|---|
| `RpcService` | the promise: a call starts at most once, is answered only by its own finished handler, which an unreadable output has seen too, and a rejected call never starts | refined by `RpcConnection` |
| `RpcConnection`, `MCRpcConnection` | `make_rpc_call`, client loop, stream, connection loop, handler tasks | `rpc_*` runs |
| `RpcConnectionProofs` | its theorems | TLAPS |
| `QueueLemmas` | facts about the elements of queues and about moving them | all `*Proofs` modules with queues |
| `PubSub` | the promise: events are routed in order to the members of their topic, at most one of which has joined or left since publication, and each is given its events in order, none twice, none left out | refined by `EventSwitch` |
| `EventSwitch`, `MCEventSwitch`, `EventSwitchProofs` | subscriptions, routing, topic notifications | `events_*` runs, TLAPS |
| `StateSync`, `StateSyncProofs` | connection state from guard to client copy | `state*` runs, TLAPS |
| `Backpressure`, `BackpressureProofs` | the two loops on a stream of finite size | `stream_*` runs, TLAPS |
| `ClientLifecycle`, `ClientLifecycleProofs` | connect, disconnect, drop, handshake outcome | `ClientEvents`, TLAPS |
| `ClientEvents`, `ClientEventsProofs` | the life cycle with the broadcast channel of every session | `lifecycle` run, TLAPS |
| `CounterSession`, `MCCounterSession`, `CounterSessionProofs` | handlers, state, subscriptions, events and both loops of one connection, together | `session*` runs, TLAPS |

Operators whose comment begins with "Mutant" are not part of a model: each is a
plausible mistake in the definition after it, kept to see that the properties notice.

### The biased `select!`s

`select!` with `biased` polls its branches one after the other, and on a multi-thread
runtime another worker may fill an earlier branch's channel between two polls. Bias
therefore does not mean that a branch is taken only while all earlier ones are empty. What
it does mean: an earlier branch that was ready when the loop came back to its `select!` is
taken first, since only the loop itself empties its channels. The models note at the end of
every step of a loop whether an earlier branch is ready (`event_first`, `conn_event_first`,
`response_first`, and `first` in `CounterSession`), and a later branch is ruled out by that
note, not by what has been queued since.

### RpcConnection

One variable per piece of state in the inventory; `app` is where a caller is between
the two awaits of `make_rpc_call`, and `exec` records what the server did with a call.
A call stands for its bytes, its completion channel and its output, so "the wrong
output" is visible as another call in `answer`. Each branch of a `select!` is an action
with everything its body does: in the client loop `RejectRequest`, `FailRequest`,
`ForwardRequest` (the request branch), `ReceiveResponse`, `Shutdown`, and `CloseStream`
after the loop; in the connection loop `SendResponse` and `ReceiveRequest`. `ReceiveRequest` is ruled
out by a response that waited when the loop came back (`response_first`); others may be
queued while a decoder thread works on the request. The await of a send inside a branch is
not split off here, since the loop does nothing else meanwhile; what it can block on is
the subject of `Backpressure`. `Faults` selects the error paths. A break of the link
keeps any prefix of what is under way in each direction; neither loop ends, as in the
code. The generated method decodes the output of an answered call (`GiveOutput`); when it
cannot, its caller gets `ClientDecodeError`, which unlike the `Refusals` means that the
handler has run. Calls before the first `connect()` return `ClientNotConnected` at once and are left
out. `disconnect()` takes `&mut self`, so no call is pending when it is made (`NoBorrow`).

### EventSwitch

`Proxy` is `add`/`remove` from a handler, `ProxySubscribe`/`ProxyUnsubscribe` the
connection loop's handling, `RouteEvent`, `HandleSubscribe`, `HandleUnsubscribe` the
switch. `ClientLeaves` makes sends fail but does not end the task, as in the code. The
failure branches of the sends (a receiver that is gone) are reached through
`ConnectionTaskEnds` and `SwitchTaskEnds`, which stand for a task dropped by the
runtime. Responses and state changes, which the connection loop prefers to events, only
delay the actions here. Subscription ids are 16 random bytes in the code, here fresh
numbers: a collision is not modelled.

`ImplementsPubSub` maps the switch to `PubSub`: the members of a topic are the connections
in the switch's map, an event is published when it is emitted, routed when the switch
takes it, and delivered when the connection loop writes it. Routing comes after `emit`, and
in between the switch may handle subscriptions. The bias limits that to one: an event that
arrives after the poll of `new_event_rx` is overtaken by the notification the same round
takes, and is the first thing the next round sees. So the audience is that of the moment
of emission except for at most one connection, which is what `Route` in `PubSub` allows and
`RoutedWithinOne` says of the connections that are there. That none is delivered twice rests
on the connection's own map. A connection that is gone is simply never given anything
again.

### StateSync

A state is a function from field positions to values, a `Vec<StateUpdate>` a function on
the changed fields. `DropGuard` computes the diff and spawns the task; `SendUpdate(i)` is
that task's send. `runtime` says whether tasks run in spawn order (the current-thread
runtime of the tests) or in any order (worker threads of `#[tokio::main]`). `spoiled` notes the
fields for which no promise can be kept: an update was lost, or two were in spawned
tasks at once.

### Backpressure

Counts only. `client_sending` and `server_sending` say that a loop is inside
`send(..).await`. Capacities stand for all buffers of one direction, in messages. With `Faults`
every error path is taken: a request that cannot be encoded, compressed or written leaves
its id free and its caller told; one the server cannot decode, a handler that panics, a
response that cannot be sent or decoded, and whatever a breaking stream held take their
ids with them, since no loop ever gives such an id back (`lost`). The application puts any
number of requests into its channel.

### ClientLifecycle

Each `connect()` is a session with its task (`stage`), its two oneshot channels
(`reported`) and its shutdown sender (`signalled`: held, sent or dropped). Replacing
`self.shutdown`, or dropping a pending `connect()`, drops a sender, which ends the loop like
a signal does. On a version mismatch the server's callback sets status 400 and returns
`Ok`, so the server enters its loop while the client gives up. `StreamLost` is a stream that
ends or breaks under a running loop, which goes on (client.rs 271) until its sender is used
or dropped.

### ClientEvents

Extends `ClientLifecycle`: its steps are taken together with those of one broadcast channel
per session. `arrived` counts the events the client loop has read, `slots` is what the
channel still holds, and a receiver knows how far it is behind. `Recv` returns the next event, the
number of events lost, or that the channel is closed, which it is once both owners of the
sender are gone: the spawned task and the field `events_tx` of the generated client. Two
things leave receivers waiting without notice: `disconnect()`, after which the field stays,
and a lost stream, after which the loop stays too. In both the session is still the client's;
`DeafOnlyWhileHeld` says that reconnecting, failed or cancelled connects and dropping the
client leave no such receiver.

### CounterSession

The components above meet in `examples/counter.rs`. The state is the union of theirs for
one client, on a connection that holds and tasks that run in any order. `Make` is the
application, which like the example waits after `new_counter()` until it sees its topic
(`PollState`, `DropReadGuard`) and then makes its calls, several at a time if `Window` allows.
A handler takes the lock and makes its changes (`NewCounter`, `Increment`, `Decrement`), emits
with the guard held (`Emit`), and drops the guard and answers (`Return`); these are the points
at which it can be interrupted or another thread can see what it has done so far.
`new_counter()` sends two requests to the connection loop, which may handle the first before
the second is made (`NewCounter`, `AddSubscription`). Arithmetic is that of `u32`: out of range a debug build
panics and a release build wraps. `Selects` is the order of the connection loop's biased
`select!`, up to what comes between its polls. A spawned task and the change it puts in the update channel are one entry of
`sending`, which `SendChanges` takes in any order: a task that has not run yet holds nobody
back, and the channel's capacity is a matter of `StateSync`. In the client loop
`ReceiveChanges` asks for the write lock and `ApplyChanges` gets it when the application does
not read; meanwhile nothing else is handled, and no request leaves the client. Ids and lost messages are left to
`RpcConnection`, other connections to `EventSwitch`. `Draws` are the random topics, up to renaming. An amount is 1; `epoch` numbers the
counters of the connection, since two of them may have the same topic. Three variables
are history: `epochs` (the topics drawn), `missed` (events routed to nobody) and `changes`
(every assignment's event in order; an event's `nth` is its place there), so that "no gap" can
be said about positions.

## Runs

| Run | Instance | Shows |
|---|---|---|
| `rpc_safety` | 4 interchangeable calls, 2 ids, channel of 2, all faults | the RPC safety properties, the inductive invariant, refinement of `RpcService` |
| `rpc_liveness` | 3 calls, 2 ids, channel of 1, handler panics, a link that breaks | calls resolve, ids come back, except those of lost calls |
| `rpc_panic` | 2 calls, handler panics | a panicked handler's caller is never told (violation) |
| `events_safety` | 2 connections, 2 topics, 3 operations, 2 events | agreement, routing within one, topic notifications, the inductive invariant, refinement of `PubSub` |
| `events_liveness` | 2 connections, 1 topic, 3 operations, 1 event, tasks end | subscriptions take effect, events are routed and arrive |
| `state` | 2 fields, 4 guards, channel of 2, both runtimes, lost and undecodable updates | in order: the copy is a past state; in any order: what still holds field by field; both: undisturbed fields catch up |
| `state_reorder` | 1 field, 2 guards, any order | the copies stay different (violation) |
| `stream_room` | 3 ids, channel of 2, room for 3 requests and 2 answers, pushes, all failures | never blocked, ids accounted for; deadlock is checked too |
| `stream_full` | 6 ids, channel of 2, room for 2 and 2, no failures | the loops block each other (violation) |
| `lifecycle` | 3 sessions, lost streams, 1 receiver, channel of 1, 2 events | no orphans, `connect()` returns, loops end; losses are reported, receivers are told |
| `session` | 3 calls of which 2 overlap, in three scripts, the same or another topic for a second counter, counter 0..1 | the events tell the counter, one subscription, polling ends, calls are answered, new topics are greeted |
| `session_overtake` | the same, one call at a time | the example loses an event (violation) |

The bounds are the smallest at which the hard cases happen: more calls than ids (reuse
and refusal), more callers than places in a channel (waiting), a third session (one
earlier, one current, one pending), two fields (updates that overlap or not), a second
subscription after an unsubscription, a receiver slower than the smallest channel, a
second counter on the same topic and on another, a counter that leaves its range. `CHECK_DEADLOCK FALSE` is set where the model stops
because its bounded supply of calls, events, writes or sessions is used up.

The four violations are the findings in `PROJECT.json`:

1. `HandlerPanicked` is documented (wire.rs 73-74) and never constructed; the caller of a
   panicked handler waits for ever and the id is lost on both sides (server.rs 461).
2. An event emitted after a client has subscribed can be routed before the subscription
   (server.rs 683), against examples/counter.rs 18-19 (README 23-24). The example itself is
   exposed: `new_counter()` has been answered and its topic seen, and the event of the
   increment that follows is still routed to nobody.
3. State updates sent from separate tasks can arrive in the wrong order and the copies
   then differ until the field is written again (macros 79), against README 202.
4. With both directions of the stream full the two loops wait for each other (client.rs
   250, server.rs 498), against "up to 256 RPC calls" in README 219.

### Fairness

Weak fairness of each loop's branches and of spawned tasks: tokio polls every task that
is ready, and the client loop's `select!` chooses at random among ready branches. Two
assumptions are about the environment, not the code: a handler finishes (or panics, where
that fault is on), and a handshake or a closing stream comes to an end (the code has no
timeout). `rpc_liveness` does not assume a link that stays up: what is left of a call when
nothing carries it any more is `Lost`, for which the code promises nothing, and the property
is about all others. In `ClientEvents` receiving tasks keep calling `recv()`, in
`CounterSession` the application goes on polling, as in the example. In `StateSync` applying changes is strongly fair, because tokio's
`RwLock` serves a waiting writer before later readers; handlers and the application are
assumed to let go of their guards. Callers and the application are never assumed to do
anything else.

## Proofs

`RpcConnectionProofs`, for any set of calls, any number of ids, any capacity and any
faults. `AnswerIntegrity` and its companions are not inductive: whether a response is
the right one depends on everything that carries its id. The inductive invariant `ConnectionInv`
says where an id or a call may be:

- `ServerInv`: requests on the wire have pairwise different ids and calls, none in flight
  and none run; every handler and every waiting response has an id in flight of its own.
- `ClientInv`, while the loop runs: whatever carries an id anywhere is the call that holds
  the id on the client; a response on the wire has an id used by nothing else; an id in
  flight on the server is held on the client. After the loop this no longer matters, as
  nothing is read any more.
- `CallInv`: a call is in the request channel at most once and before it is on the wire; a
  call that is idle, being sent or refused has not run; one that was given an output, readable
  or not, has returned.
- `DisconnectInv`: calls pending after `disconnect()` were made after it.

The proof has one lemma per action, and under it one step per conjunct. From `ConnectionInv`
follow `TypeOK`, `AnswerIntegrity`, `RequestAccepted`, `ResponseExpected`, `RetrySafe`,
`PanicOnlyAfterDisconnect`, and the refinement: the mapping sends `app` to the phase of a
call and is the identity on `exec` and `answer`; `ForwardRequest`, `SendResponse` and the
like are stutters, `CloseStream` abandons several calls at once. `QueueLemmas` holds what is
needed about the elements of a queue after `Append`, `Tail` and `SubSeq`.

`BackpressureProofs`, for all sizes and with all failures: `FlowInv`, that is `IdsAccountedFor` (a
conservation law: what a held id stands for is on its way round or lost) with `TypeOK` and the
bound on ids in use, and from it `NeverBlocked`. A lost id makes fewer messages, so failures do
not threaten it. `RoomForAllIds` is the condition: as many
places towards the server as ids, or, when the server pushes nothing, fewer ids than both
directions and the two messages being sent can hold.

`ClientLifecycleProofs`, for any number of sessions: the invariant `LifecycleInv`, which ties the
client's two fields to one session whose sender is still held, and from it
`NoOrphanSession` and `DeadChannelOnlyAfterDisconnect`.

`ClientEventsProofs`, for any number of sessions and receivers and any capacity:
`LossAccounted` and `DeafOnlyWhileHeld`, from `EventsInv`. To know what the next `recv()` returns one needs
what the channel holds: `SlotsHoldLast` (the part a receiver has not read is the newest events,
one after the other) and `GotSoFar` (it was given nothing from beyond its position). The life
cycle's steps are taken from `ClientLifecycleProofs` by their lemmas; `ChannelsInv` says
which loops the owners of a sender belong to.

`StateSyncProofs`, for any number of fields, guards and places in the channel, both runtimes
and all faults: `TypeOK`, `ClientIsPastState`, `FieldProvenance`, `UnspoiledFieldsAgree`. A
state in which the copies differ is explained by what is on its way, so the invariant is about
the three queues between them: read one after the other they are the client's `Unseen`
updates, each of which takes a version of the state to the next
(`UnseenIsRecentHistory`); for each field that is not spoiled the last update on its way holds
the published value (`NewestIsLast`), which moving an update from queue to queue keeps because,
with several threads, tasks hold at most one update of it (`OneTaskPerField`); and what a
guard will be compared with is the last published version (`GuardInv`).

`EventSwitchProofs`, for any connections, topics, bounds and faults: `SwitchInv`, `TypeOK`,
`SwitchAgrees`, `RoutedWithinOne` and the refinement of `PubSub`. `SwitchAgrees` speaks of the state
after everything has been read; the invariant speaks of the notifications themselves:
`PendingTransforms` says that those of a connection about a topic alternate and take the
switch's ids to the connection's own entry, `IdsHaveOneOwner` keeps the connections apart.
`RoutedWithinOne` needs `AudienceKept`: of a waiting event's topic at most one subscription
has changed since it was emitted, and once one has, the switch has noted that an event waits and
reads no further notification before routing it; `AudienceWithinOne` says the same of routed
events. For the refinement, `EventsInOrder`, `OnlyToAudience` and `NoneLeftOut` say that what is
on its way to a client is an increasing sequence without omissions. Emitting maps to publishing,
routing to routing (which also drops the connections that are gone), handling a notification to
joining or leaving, the end of a task to the end of a connection or to leaving, forwarding to
delivery, all else to stutters. `TopicsAlternate` is proved for
`Faults` without `ConnectionTask`: a connection whose task is dropped stays in the switch's map
until a send fails, and nobody is told.

`CounterSessionProofs`, for any script, any draws of topics, any `Window` and any `MaxU32`:
`TypeOK`, `SubscribedToItsCounter` and `EventsTellTheCounter`. The invariant `SessionInv` has two
halves.

- The way of a subscription. Counter k makes the (2k-1)-st and (2k)-th request of the session, so
  all queues and maps are determined by how many were `Requested` (one less between the two of
  a counter), how many the connection loop has been `Asked` and how many the switch has `Handled`: `AskedInv` and `HandledInv` give every queued item by its position,
  the connection's own map by the parity of `Asked`, the switch's subscriptions by that of
  `Handled`. At rest both are at their ends, which is `SubscribedToItsCounter`.
- The way of an event. `LockInv`: a change is made only when the one before it has been emitted.
  `ChainInv`: the logged changes form a chain per counter. `LoggedInv`: every change is somewhere
  and unaltered. `OrderInv`: from `changes` to `seen` none overtakes another. `RoutingInv`
  connects the halves: of a counter with a topic of its own, no event is missed between two that
  are delivered. What is routed before the subscription is missed, then nothing is, until the
  subscription ends; that may overtake an event emitted between the polls, but then the switch
  routes what waits before anything else, and it is the last of its counter.

A gap in what the client has seen would be a change that was made, is not on its way (order), and
was not missed (routing).

The assumptions are the named `ASSUME`s of the modules: capacities and counts are
naturals (positive where a channel needs it), `NoCall` is not a call, `Faults` names error
paths. TLC evaluates them in every run.

Only model-checked: all liveness (`CallsResolve`, `IdsRecycled`, `SubscriptionTakesEffect`,
`EventsArrive`, `Converges`, `ConnectReturns`, `SessionsEnd`, `ReceiversTold`, `PollEnds`,
`CallsAnswered`, `CreatorIsGreeted`), since fairness is out of the prover's reach here. Every
invariant and both refinements that a passing run checks are also proved; `TopicsAlternate` under
the condition above, which `events_safety` meets as well. The theorems are about the
specifications without fairness, which the runs' specifications strengthen.

## Not modelled

- rkyv and flate2: a conversion returns what was put in or fails.
- Macro expansion, TLS and certificates, the commented-out rate limits: no state at run
  time. The examples `todo` and `pet` change state under one lock and do nothing else, which
  `StateSync` covers; tests and the testing project call, measure and plot.
- Starvation by the biased `select!`s under unbounded traffic: calls and events are bounded,
  so the branch that waits has its turn in the end.
- Collisions of random subscription ids; exhaustion of memory by unbounded channels.

## Plan

The safety properties are proved. What could be added:

1. `ImplementsPubSub` composed with `CounterSession`: the switch of a session as an instance of
   `EventSwitch` with one connection.
2. The steps from safety to liveness that need no fairness, such as the measure that decreases
   with every step of the server in `CounterSession`.
