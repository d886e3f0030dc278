--------------------------- MODULE RpcConnection ---------------------------
(***************************************************************************)
(* RPC over one established HardLight connection: the generated client's   *)
(* make_rpc_call and disconnect (macros/src/lib.rs), the client loop       *)
(* (src/client.rs), the WebSocket stream, the server's connection loop and *)
(* the task it spawns for each request (src/server.rs).                    *)
(*                                                                         *)
(* A call stands for its serialized RpcCall and for its completion         *)
(* channel; the output a handler computes is the call it was computed for. *)
(***************************************************************************)
EXTENDS Integers, Sequences, Functions

CONSTANTS
    Calls,     \* calls the application may make
    NoCall,    \* "None" in active_rpc_calls and for an answer not there yet
    MaxId,     \* u8::MAX in the code: ids are 0..MaxId
    ReqCap,    \* capacity of the application -> client loop channel (10)
    Faults     \* which of the error paths of the code can be taken

FaultKinds == {"ClientEncode", "ClientCompress", "ServerDecode",
               "HandlerPanic", "ServerEncode", "ClientDecode", "OutputDecode",
               "LinkBreak"}

ASSUME NoCallAssumption == NoCall \notin Calls
ASSUME MaxIdAssumption == MaxId \in Nat
ASSUME ReqCapAssumption == ReqCap \in Nat \ {0}
ASSUME FaultsAssumption == Faults \subseteq FaultKinds

Ids == 0..MaxId

VARIABLES
    app,                \* where each caller is in make_rpc_call
    answer,             \* the output the caller was given
    late,               \* calls made after disconnect()
    rpc_request,        \* mpsc channel: application -> client loop
    active_rpc_calls,   \* client loop: the call that holds each id
    shutdown,           \* disconnect() has sent the shutdown signal
    client_loop,        \* "running", "closing" (after break) or "exited"
    link, c2s, s2c,     \* the WebSocket stream, one FIFO per direction
    in_flight,          \* connection loop: ids being worked on
    handlers,           \* spawned handler tasks that are still running
    rpc_rx,             \* mpsc channel: handler tasks -> connection loop
    response_first,     \* a response waited when that loop last came back
    exec                \* history: what the server did with each call

appVars == <<app, answer, late, shutdown>>
clientVars == <<rpc_request, active_rpc_calls, client_loop>>
wireVars == <<link, c2s, s2c>>
serverVars == <<in_flight, handlers, rpc_rx, response_first, exec>>
vars == <<appVars, clientVars, wireVars, serverVars>>

(* The errors with which the client library refuses a call; the fifth it     *)
(* returns, ClientDecodeError, is for an output it cannot read. *)
Refusals == {"TooManyCallsInFlight", "ClientEncodeError",
             "ClientCompressError", "ClientNotConnected"}
Pending == {"sending", "waiting"}
AppStates == {"idle", "answered", "ClientDecodeError", "cancelled", "panicked"}
                 \cup Pending \cup Refusals
ExecStates == {"no", "running", "returned", "panicked"}

(* ClientMessage::RPCRequest, ServerMessage::RPCResponse and a running task *)
(* all pair an id with the call it carries. *)
Tagged == [id : Ids, call : Calls]

Init ==
    /\ app = [c \in Calls |-> "idle"]
    /\ answer = [c \in Calls |-> NoCall]
    /\ late = {}
    /\ rpc_request = <<>>
    /\ active_rpc_calls = [id \in Ids |-> NoCall]
    /\ shutdown = FALSE
    /\ client_loop = "running"
    /\ link = "up"
    /\ c2s = <<>>
    /\ s2c = <<>>
    /\ in_flight = [id \in Ids |-> FALSE]
    /\ handlers = {}
    /\ rpc_rx = <<>>
    /\ response_first = FALSE
    /\ exec = [c \in Calls |-> "no"]

-----------------------------------------------------------------------------
(* The application: callers of the generated client.                       *)

(* make_rpc_call up to the first await: encode the call, or report that it *)
(* cannot be encoded. *)
MakeRpcCall(c) ==
    /\ app[c] = "idle"
    /\ \/ app' = [app EXCEPT ![c] = "sending"]
       \/ /\ "ClientEncode" \in Faults
          /\ app' = [app EXCEPT ![c] = "ClientEncodeError"]
    /\ late' = IF shutdown THEN late \cup {c} ELSE late
    /\ UNCHANGED <<answer, shutdown, clientVars, wireVars, serverVars>>

(* Mutant: send() on an unbounded channel. *)
UnboundedChannel == TRUE

ChannelHasRoom == Len(rpc_request) < ReqCap

(* rpc_chan.send(..).await.unwrap(): wait for room, panic if the loop and   *)
(* with it the receiver are gone. *)
SendRequest(c) ==
    /\ app[c] = "sending"
    /\ \/ /\ client_loop # "exited"
          /\ ChannelHasRoom
          /\ rpc_request' = Append(rpc_request, c)
          /\ app' = [app EXCEPT ![c] = "waiting"]
       \/ /\ client_loop = "exited"
          /\ app' = [app EXCEPT ![c] = "panicked"]
          /\ UNCHANGED rpc_request
    /\ UNCHANGED <<answer, late, shutdown, active_rpc_calls, client_loop,
                   wireVars, serverVars>>

(* Mutant: cancelling also frees the id of the call. *)
CancelFreesId(c) ==
    /\ app[c] \in Pending
    /\ app' = [app EXCEPT ![c] = "cancelled"]
    /\ active_rpc_calls' = [id \in Ids |->
         IF active_rpc_calls[id] = c THEN NoCall ELSE active_rpc_calls[id]]
    /\ UNCHANGED <<answer, late, shutdown, rpc_request, client_loop, wireVars,
                   serverVars>>

(* The caller drops its future at one of the two awaits (a timeout, a       *)
(* select): the receiver of the completion channel is gone, nothing else    *)
(* changes. *)
Cancel(c) ==
    /\ app[c] \in Pending
    /\ app' = [app EXCEPT ![c] = "cancelled"]
    /\ UNCHANGED <<answer, late, shutdown, clientVars, wireVars, serverVars>>

(* disconnect() takes &mut self and a pending call borrows the client, so   *)
(* the borrow checker admits it only when no caller is inside a call. *)
NoBorrow == \A c \in Calls : app[c] \notin Pending

Disconnect ==
    /\ ~shutdown
    /\ NoBorrow
    /\ shutdown' = TRUE
    /\ UNCHANGED <<app, answer, late, clientVars, wireVars, serverVars>>

-----------------------------------------------------------------------------
(* The client loop.                                                        *)

(* completion_tx.send(..): without effect when the caller is gone. *)
Complete(c, outcome) ==
    app' = IF app[c] = "waiting" THEN [app EXCEPT ![c] = outcome] ELSE app

(* Mutant: the first id is used again while a call still holds it. *)
ReusedId(id) == id = 0

(* active_rpc_calls.iter().position(|x| x.is_none()) *)
FirstFree(id) ==
    /\ active_rpc_calls[id] = NoCall
    /\ \A j \in Ids : j < id => active_rpc_calls[j] # NoCall

NoFreeId == \A id \in Ids : active_rpc_calls[id] # NoCall

(* The request branch of select!. *)
TakeRequest(c) ==
    /\ client_loop = "running"
    /\ rpc_request # <<>>
    /\ c = Head(rpc_request)
    /\ rpc_request' = Tail(rpc_request)
    /\ UNCHANGED <<answer, late, shutdown, client_loop, link, s2c, serverVars>>

(* No id is free. *)
RejectRequest(c) ==
    /\ TakeRequest(c)
    /\ NoFreeId
    /\ Complete(c, "TooManyCallsInFlight")
    /\ UNCHANGED <<active_rpc_calls, c2s>>

(* Mutant: a failed request is written to the stream all the same. *)
FailButSend(c) ==
    /\ TakeRequest(c)
    /\ \E id \in Ids :
         /\ FirstFree(id)
         /\ c2s' = Append(c2s, [id |-> id, call |-> c])
    /\ "ClientCompress" \in Faults /\ Complete(c, "ClientCompressError")
    /\ UNCHANGED active_rpc_calls

(* The request cannot be encoded, compressed or written to the stream: the *)
(* id stays free. *)
FailRequest(c) ==
    /\ TakeRequest(c)
    /\ ~NoFreeId
    /\ \/ "ClientEncode" \in Faults /\ Complete(c, "ClientEncodeError")
       \/ "ClientCompress" \in Faults /\ Complete(c, "ClientCompressError")
       \/ link # "up" /\ Complete(c, "ClientNotConnected")
    /\ UNCHANGED <<active_rpc_calls, c2s>>

(* The request is written; on a stream that is already broken it can still *)
(* be accepted by the socket and lost. *)
ForwardRequest(c) ==
    /\ TakeRequest(c)
    /\ \E id \in Ids :
         /\ FirstFree(id)
         /\ active_rpc_calls' = [active_rpc_calls EXCEPT ![id] = c]
         /\ c2s' = IF link = "up"
                     THEN Append(c2s, [id |-> id, call |-> c]) ELSE c2s
    /\ UNCHANGED app

(* Mutant: the id is given back only if the caller is still there. *)
KeepIdOfLostCaller(m) ==
    LET c == active_rpc_calls[m.id] IN
    /\ c # NoCall
    /\ active_rpc_calls' =
         IF app[c] = "waiting" THEN [active_rpc_calls EXCEPT ![m.id] = NoCall]
         ELSE active_rpc_calls
    /\ Complete(c, "answered")
    /\ answer' = IF app[c] = "waiting"
                   THEN [answer EXCEPT ![c] = m.call] ELSE answer

(* The caller is given the output, and its generated method decodes it. *)
GiveOutput(c, output) ==
    \/ /\ Complete(c, "answered")
       /\ answer' = IF app[c] = "waiting"
                      THEN [answer EXCEPT ![c] = output] ELSE answer
    \/ /\ "OutputDecode" \in Faults
       /\ Complete(c, "ClientDecodeError")
       /\ UNCHANGED answer

(* The stream branch of select!: a response completes the call that holds  *)
(* its id; one that cannot be decoded or whose id is free is ignored. *)
AcceptResponse(m) ==
    /\ active_rpc_calls[m.id] # NoCall
    /\ active_rpc_calls' = [active_rpc_calls EXCEPT ![m.id] = NoCall]
    /\ GiveOutput(active_rpc_calls[m.id], m.call)

IgnoreResponse(m) ==
    /\ active_rpc_calls[m.id] = NoCall \/ "ClientDecode" \in Faults
    /\ UNCHANGED <<app, answer, active_rpc_calls>>

ReceiveResponse ==
    /\ client_loop = "running"
    /\ s2c # <<>>
    /\ s2c' = Tail(s2c)
    /\ AcceptResponse(Head(s2c)) \/ IgnoreResponse(Head(s2c))
    /\ UNCHANGED <<late, shutdown, rpc_request, client_loop, link, c2s,
                   serverVars>>

(* Mutant: the loop also ends when the connection is lost. *)
ShutdownOrLost == shutdown \/ link = "broken"

ShutdownSignalled == shutdown

(* The shutdown branch: the loop breaks. Its variables, and with them the   *)
(* request channel, live on until the stream is closed. *)
Shutdown ==
    /\ client_loop = "running"
    /\ ShutdownSignalled
    /\ client_loop' = "closing"
    /\ UNCHANGED <<appVars, rpc_request, active_rpc_calls, wireVars, serverVars>>

(* stream.close(None).await returns and connect() with it: every completion *)
(* channel it holds is dropped, which makes rx.await.unwrap() panic in the  *)
(* callers still waiting. *)
CloseStream ==
    /\ client_loop = "closing"
    /\ client_loop' = "exited"
    /\ app' = [c \in Calls |->
                 IF /\ app[c] = "waiting"
                    /\ \/ c \in Range(rpc_request)
                       \/ \E id \in Ids : active_rpc_calls[id] = c
                 THEN "panicked" ELSE app[c]]
    /\ rpc_request' = <<>>
    /\ active_rpc_calls' = [id \in Ids |-> NoCall]
    /\ link' = IF link = "up" THEN "closed" ELSE link
    /\ s2c' = <<>>
    /\ UNCHANGED <<answer, late, shutdown, c2s, serverVars>>

-----------------------------------------------------------------------------
(* The server's connection loop and its handler tasks.                     *)

(* The last branch of the biased select!. Its branches are polled in turn,  *)
(* and this one waits for a decoder thread: a response can be queued         *)
(* meanwhile, so the branch is ruled out only if one waited when the loop    *)
(* came back to its select!. A request that cannot be decoded, or whose id   *)
(* is in flight, is dropped; any other gets a task of its own. *)
SpawnHandler(m) ==
    /\ ~in_flight[m.id]
    /\ in_flight' = [in_flight EXCEPT ![m.id] = TRUE]
    /\ handlers' = handlers \cup {m}
    /\ exec' = [exec EXCEPT ![m.call] = "running"]

DropRequest(m) ==
    /\ in_flight[m.id] \/ "ServerDecode" \in Faults
    /\ UNCHANGED <<in_flight, handlers, exec>>

ReceiveRequest ==
    /\ ~response_first
    /\ c2s # <<>>
    /\ c2s' = Tail(c2s)
    /\ SpawnHandler(Head(c2s)) \/ DropRequest(Head(c2s))
    /\ response_first' = (rpc_rx # <<>>)
    /\ UNCHANGED <<appVars, clientVars, link, s2c, rpc_rx>>

(* tx.send(RPCResponse { id, output: handle_rpc_call(..).await }) *)
HandlerReturns(h) ==
    /\ h \in handlers
    /\ handlers' = handlers \ {h}
    /\ rpc_rx' = Append(rpc_rx, h)
    /\ exec' = [exec EXCEPT ![h.call] = "returned"]
    /\ UNCHANGED <<appVars, clientVars, wireVars, in_flight, response_first>>

(* handle_rpc_call panics: the task ends without sending anything. *)
HandlerPanics(h) ==
    /\ "HandlerPanic" \in Faults
    /\ h \in handlers
    /\ handlers' = handlers \ {h}
    /\ exec' = [exec EXCEPT ![h.call] = "panicked"]
    /\ UNCHANGED <<appVars, clientVars, wireVars, in_flight, rpc_rx,
                   response_first>>

(* send_msg: encode, compress, write; any failure is logged and forgotten. *)
SendMsg(m) ==
    \/ link = "up" /\ s2c' = Append(s2c, m)
    \/ (link # "up" \/ "ServerEncode" \in Faults) /\ UNCHANGED s2c

(* Mutant: the id is not given back when its response is sent. *)
SendResponseKeepsId ==
    /\ rpc_rx # <<>>
    /\ rpc_rx' = Tail(rpc_rx)
    /\ SendMsg(Head(rpc_rx))
    /\ response_first' = (rpc_rx' # <<>>)
    /\ UNCHANGED <<appVars, clientVars, link, c2s, in_flight, handlers, exec>>

(* The first branch of the biased select!. *)
SendResponse ==
    /\ rpc_rx # <<>>
    /\ rpc_rx' = Tail(rpc_rx)
    /\ in_flight' = [in_flight EXCEPT ![Head(rpc_rx).id] = FALSE]
    /\ SendMsg(Head(rpc_rx))
    /\ response_first' = (rpc_rx' # <<>>)
    /\ UNCHANGED <<appVars, clientVars, link, c2s, handlers, exec>>

(* The connection breaks: each direction keeps only what already arrived.   *)
(* Neither loop ends: both match Some(..) on the stream and go on with the *)
(* other branches. *)
LinkBreaks ==
    /\ "LinkBreak" \in Faults
    /\ link = "up"
    /\ link' = "broken"
    /\ \E m \in 0..Len(c2s) : c2s' = SubSeq(c2s, 1, m)
    /\ \E n \in 0..Len(s2c) : s2c' = SubSeq(s2c, 1, n)
    /\ UNCHANGED <<appVars, clientVars, serverVars>>

-----------------------------------------------------------------------------
CallerStep(c) == MakeRpcCall(c) \/ SendRequest(c) \/ Cancel(c)
ClientRequestStep(c) == RejectRequest(c) \/ FailRequest(c) \/ ForwardRequest(c)
HandlerStep(h) == HandlerReturns(h) \/ HandlerPanics(h)

Next ==
    \/ \E c \in Calls : CallerStep(c) \/ ClientRequestStep(c)
    \/ Disconnect
    \/ ReceiveResponse
    \/ Shutdown
    \/ CloseStream
    \/ ReceiveRequest
    \/ \E h \in Tagged : HandlerStep(h)
    \/ SendResponse
    \/ LinkBreaks

Spec == Init /\ [][Next]_vars

(* Tokio polls every ready task, select! in the client loop picks fairly    *)
(* among its ready branches, and a handler is assumed to finish. Callers    *)
(* make, cancel and disconnect as they like; faults need not happen. *)
Fairness ==
    /\ \A c \in Calls : WF_vars(SendRequest(c)) /\ WF_vars(ClientRequestStep(c))
    /\ WF_vars(ReceiveResponse)
    /\ WF_vars(Shutdown)
    /\ WF_vars(CloseStream)
    /\ WF_vars(ReceiveRequest)
    /\ WF_vars(SendResponse)
    /\ \A h \in Tagged : WF_vars(HandlerStep(h))

FairSpec == Spec /\ Fairness

-----------------------------------------------------------------------------
(* Every variable has its type and the application's channel to the client  *)
(* loop (mpsc::channel(10)) never holds more than its capacity. *)
TypeOK ==
    /\ app \in [Calls -> AppStates]
    /\ answer \in [Calls -> Calls \cup {NoCall}]
    /\ late \subseteq Calls
    /\ rpc_request \in Seq(Calls)
    /\ Len(rpc_request) <= ReqCap
    /\ active_rpc_calls \in [Ids -> Calls \cup {NoCall}]
    /\ shutdown \in BOOLEAN
    /\ client_loop \in {"running", "closing", "exited"}
    /\ link \in {"up", "broken", "closed"}
    /\ c2s \in Seq(Tagged)
    /\ s2c \in Seq(Tagged)
    /\ in_flight \in [Ids -> BOOLEAN]
    /\ handlers \in SUBSET Tagged
    /\ rpc_rx \in Seq(Tagged)
    /\ response_first \in BOOLEAN
    /\ exec \in [Calls -> ExecStates]

(* A caller is only ever given the output computed for its own call, although *)
(* ids are reused as soon as a response arrives and callers may leave early  *)
(* (the completion channel found through the id, client.rs). *)
AnswerIntegrity == \A c \in Calls : app[c] = "answered" => answer[c] = c

(* The server's "already in flight" branch is never taken for this client:   *)
(* by the time an id is used again, the server has given it back. *)
RequestAccepted == \A m \in Range(c2s) : ~in_flight[m.id]

(* The client's "unknown RPC call" branch is never taken: every response on  *)
(* its way to a running client finds its own call under its id. *)
ResponseExpected ==
    client_loop = "running" =>
        \A m \in Range(s2c) : active_rpc_calls[m.id] = m.call

(* The error a caller gets from the client library tells whether the call    *)
(* may be made again: one that refuses the call means that the server has    *)
(* not started it and that it is not on its way there; ClientDecodeError     *)
(* means that its handler has run to the end. *)
RetrySafe ==
    \A c \in Calls :
        /\ app[c] \in Refusals =>
             exec[c] = "no" /\ \A m \in Range(c2s) : m.call # c
        /\ app[c] = "ClientDecodeError" => exec[c] = "returned"

(* The unwrap()s in make_rpc_call only panic for calls made after            *)
(* disconnect(), whatever happens to the connection. *)
PanicOnlyAfterDisconnect ==
    \A c \in Calls : app[c] = "panicked" => c \in late

-----------------------------------------------------------------------------
(* The inductive invariant behind the properties above: who may hold an id  *)
(* or a call, and where.                                                    *)

UniqueIds(S) == \A m, n \in S : m.id = n.id => m = n
UniqueCalls(S) == \A m, n \in S : m.call = n.call => m = n

(* The server: a request on the wire has a free id and has not been run; an *)
(* id in flight belongs to at most one task or waiting response. *)
ServerInv ==
    /\ IsInjective(c2s) /\ UniqueIds(Range(c2s)) /\ UniqueCalls(Range(c2s))
    /\ IsInjective(rpc_rx) /\ handlers \cap Range(rpc_rx) = {}
    /\ UniqueIds(handlers \cup Range(rpc_rx)) /\ UniqueCalls(handlers)
    /\ \A m \in Range(c2s) : ~in_flight[m.id] /\ exec[m.call] = "no"
    /\ \A m \in handlers : in_flight[m.id] /\ exec[m.call] = "running"
    /\ \A m \in Range(rpc_rx) : in_flight[m.id] /\ exec[m.call] = "returned"

(* The client, while its loop runs: whatever carries an id, anywhere, is     *)
(* the call that holds the id, and responses on the wire have ids that are   *)
(* used nowhere else. *)
ClientInv ==
    client_loop = "running" =>
        /\ IsInjective(s2c) /\ UniqueIds(Range(s2c))
        /\ \A m \in Range(s2c) : ~in_flight[m.id] /\ exec[m.call] = "returned"
        /\ \A m \in Range(s2c), n \in Range(c2s) : m.id # n.id
        /\ \A m \in Range(c2s) \cup handlers \cup Range(rpc_rx) \cup Range(s2c) :
             active_rpc_calls[m.id] = m.call
        /\ \A id \in Ids : in_flight[id] => active_rpc_calls[id] # NoCall

(* The callers: a call is in the channel at most once and before it is on    *)
(* the wire, and its outcome agrees with what the server did. *)
CallInv ==
    /\ IsInjective(rpc_request)
    /\ \A c \in Range(rpc_request) :
         exec[c] = "no" /\ app[c] \in {"waiting", "cancelled"}
    /\ \A m \in Range(c2s) :
         /\ m.call \notin Range(rpc_request)
         /\ app[m.call] \in {"waiting", "cancelled", "panicked"}
    /\ \A c \in Calls :
         /\ app[c] \in {"idle", "sending"} \cup Refusals => exec[c] = "no"
         /\ app[c] = "answered" => exec[c] = "returned" /\ answer[c] = c
         /\ app[c] = "ClientDecodeError" => exec[c] = "returned"

(* disconnect() finds no call pending, so only later calls can be cut off. *)
DisconnectInv ==
    /\ client_loop # "running" => shutdown
    /\ \A c \in Calls :
         /\ shutdown /\ app[c] \in Pending => c \in late
         /\ app[c] = "panicked" => c \in late

(* Ids and calls are accounted for everywhere at once: the invariant of the  *)
(* whole connection, from which the properties above follow. *)
ConnectionInv == TypeOK /\ ServerInv /\ ClientInv /\ CallInv /\ DisconnectInv

-----------------------------------------------------------------------------
(* What the caller of the abstract service sees of a call. *)
PhaseOf(a) ==
    CASE a = "idle" -> "idle"
      [] a \in Pending -> "open"
      [] a = "answered" -> "answered"
      [] a = "ClientDecodeError" -> "unreadable"
      [] a \in Refusals -> "rejected"
      [] a \in {"cancelled", "panicked"} -> "abandoned"

Service == INSTANCE RpcService
             WITH phase <- [c \in Calls |-> PhaseOf(app[c])]

(* The connection implements the abstract RPC service. *)
ImplementsService == Service!Spec

(* The call holds an id, but nothing that carries it is left, since the      *)
(* connection broke or its handler panicked. Neither loop finds out, and the *)
(* call waits until disconnect() drops its completion channel. *)
Lost(c) ==
    /\ link = "broken" \/ exec[c] = "panicked"
    /\ \E id \in Ids : active_rpc_calls[id] = c
    /\ \A m \in Range(c2s) \cup handlers \cup Range(rpc_rx) \cup Range(s2c) :
         m.call # c

(* Every call made is over some time, whatever goes wrong with the others:   *)
(* answered, refused, cancelled or cut off by disconnect(), unless the call  *)
(* itself was lost. *)
CallsResolve ==
    \A c \in Calls : app[c] \in Pending ~> app[c] \notin Pending \/ Lost(c)

(* Every id is given back, also when its caller has left, unless its own     *)
(* call was lost. *)
IdsRecycled ==
    \A id \in Ids :
        active_rpc_calls[id] # NoCall
            ~> active_rpc_calls[id] = NoCall \/ Lost(active_rpc_calls[id])

(* The documentation of HandlerPanicked promises that the caller is told     *)
(* when the handler task crashes. *)
PanicReported ==
    \A c \in Calls :
        (exec[c] = "panicked" /\ app[c] = "waiting") ~> app[c] # "waiting"
=============================================================================
