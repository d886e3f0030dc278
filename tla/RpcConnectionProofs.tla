------------------------ MODULE RpcConnectionProofs ------------------------
(***************************************************************************)
(* Proofs about RpcConnection for every set of calls, every number of ids  *)
(* and every channel capacity: ConnectionInv is an inductive invariant, the safety  *)
(* properties follow from it, and the connection implements RpcService.    *)
(***************************************************************************)
EXTENDS RpcConnection, QueueLemmas

(* What travels is typed. *)
LEMMA Travelling ==
    ASSUME TypeOK
    PROVE  /\ Range(rpc_request) \subseteq Calls
           /\ \A m \in Range(c2s) \cup Range(s2c) \cup Range(rpc_rx) \cup handlers :
                m \in Tagged /\ m.id \in Ids /\ m.call \in Calls
PROOF
<1>1. /\ Range(rpc_request) \subseteq Calls
      /\ Range(c2s) \cup Range(s2c) \cup Range(rpc_rx) \subseteq Tagged
    BY RangeType DEF TypeOK
<1> QED BY <1>1 DEF TypeOK, Tagged

LEMMA InitInv == Init => ConnectionInv
PROOF
<1> SUFFICES ASSUME Init PROVE ConnectionInv
    OBVIOUS
<1> USE NoCallAssumption, MaxIdAssumption, ReqCapAssumption
<1>1. TypeOK
    <2>1. /\ <<>> \in Seq(Calls) /\ <<>> \in Seq(Tagged) /\ Len(<<>>) = 0
        BY EmptySeq
    <2>2. /\ in_flight \in [Ids -> BOOLEAN] /\ shutdown \in BOOLEAN
          /\ response_first \in BOOLEAN
        BY DEF Init
    <2> QED BY <2>1, <2>2 DEF Init, TypeOK, AppStates, Pending, ExecStates
<1>2. ServerInv
    BY EmptyRange DEF Init, ServerInv, UniqueIds, UniqueCalls
<1>3. ClientInv
    BY EmptyRange DEF Init, ClientInv, UniqueIds
<1>4. CallInv
    BY EmptyRange DEF Init, CallInv
<1>5. DisconnectInv
    BY DEF Init, DisconnectInv, Pending
<1> QED BY <1>1, <1>2, <1>3, <1>4, <1>5 DEF ConnectionInv

-----------------------------------------------------------------------------
(* The callers.                                                            *)

LEMMA MakeRpcCallKeepsInv ==
    ASSUME ConnectionInv, NEW c \in Calls, MakeRpcCall(c)
    PROVE  ConnectionInv'
PROOF
<1> USE DEF ConnectionInv, MakeRpcCall, clientVars, wireVars, serverVars
<1>1. TypeOK'
    BY DEF TypeOK, AppStates, Pending, Refusals
<1>2. ServerInv'
    BY DEF ServerInv
<1>3. ClientInv'
    BY DEF ClientInv
<1>4. CallInv'
    <2>1. /\ app[c] = "idle" /\ exec[c] = "no" /\ UNCHANGED <<rpc_request, c2s, exec, answer>>
          /\ \A d \in Calls \ {c} : app'[d] = app[d]
          /\ app'[c] \in {"sending", "ClientEncodeError"}
        BY DEF CallInv, TypeOK
    <2>2. c \notin Range(rpc_request) /\ \A m \in Range(c2s) : m.call # c
        BY <2>1 DEF CallInv
    <2> QED BY <2>1, <2>2, Travelling DEF CallInv, Refusals
<1>5. DisconnectInv'
    BY DEF DisconnectInv, TypeOK, Pending
<1> QED BY <1>1, <1>2, <1>3, <1>4, <1>5

LEMMA SendRequestKeepsInv ==
    ASSUME ConnectionInv, NEW c \in Calls, SendRequest(c)
    PROVE  ConnectionInv'
PROOF
<1> USE DEF ConnectionInv, SendRequest, wireVars, serverVars
<1>1. /\ rpc_request' \in Seq(Calls) /\ Len(rpc_request') <= ReqCap
      /\ \/ Range(rpc_request') = Range(rpc_request)
         \/ /\ Range(rpc_request') = Range(rpc_request) \cup {c}
            /\ app'[c] = "waiting"
      /\ c \notin Range(rpc_request)
      /\ IsInjective(rpc_request')
    <2>1. c \notin Range(rpc_request)
        BY DEF CallInv
    <2>2. CASE /\ rpc_request' = Append(rpc_request, c) /\ ChannelHasRoom
               /\ app' = [app EXCEPT ![c] = "waiting"]
        BY <2>1, <2>2, AppendRange, ReqCapAssumption, LenProperties
           DEF TypeOK, CallInv, ChannelHasRoom
    <2>3. CASE rpc_request' = rpc_request
        BY <2>1, <2>3 DEF TypeOK, CallInv
    <2> QED BY <2>2, <2>3
<1>2. TypeOK'
    BY <1>1 DEF TypeOK, AppStates, Pending
<1>3. ServerInv'
    BY DEF ServerInv
<1>4. ClientInv'
    BY DEF ClientInv
<1>5. CallInv'
    <2>1. /\ app[c] = "sending" /\ app'[c] \in {"waiting", "panicked"}
          /\ \A d \in Calls : d # c => app'[d] = app[d]
          /\ UNCHANGED <<answer, c2s, exec>>
        BY DEF TypeOK
    <2>2. \A d \in Range(rpc_request') :
            exec'[d] = "no" /\ app'[d] \in {"waiting", "cancelled"}
        BY <1>1, <2>1, Travelling DEF CallInv
    <2>3. \A m \in Range(c2s') :
            /\ m.call \notin Range(rpc_request')
            /\ app'[m.call] \in {"waiting", "cancelled", "panicked"}
        BY <1>1, <2>1, Travelling DEF CallInv
    <2>4. \A d \in Calls :
            /\ app'[d] \in {"idle", "sending"} \cup Refusals => exec'[d] = "no"
            /\ app'[d] = "answered" => exec'[d] = "returned" /\ answer'[d] = d
            /\ app'[d] = "ClientDecodeError" => exec'[d] = "returned"
        BY <2>1 DEF CallInv, Refusals
    <2> QED BY <1>1, <2>2, <2>3, <2>4 DEF CallInv
<1>6. DisconnectInv'
    BY DEF DisconnectInv, TypeOK, Pending
<1> QED BY <1>2, <1>3, <1>4, <1>5, <1>6

LEMMA CancelKeepsInv ==
    ASSUME ConnectionInv, NEW c \in Calls, Cancel(c)
    PROVE  ConnectionInv'
PROOF
<1> USE DEF ConnectionInv, Cancel, clientVars, wireVars, serverVars
<1>1. TypeOK'
    BY DEF TypeOK, AppStates
<1>2. ServerInv'
    BY DEF ServerInv
<1>3. ClientInv'
    BY DEF ClientInv
<1>4. CallInv'
    BY Travelling DEF CallInv, TypeOK, Refusals, Pending
<1>5. DisconnectInv'
    BY DEF DisconnectInv, TypeOK, Pending
<1> QED BY <1>1, <1>2, <1>3, <1>4, <1>5

LEMMA DisconnectKeepsInv ==
    ASSUME ConnectionInv, Disconnect
    PROVE  ConnectionInv'
PROOF
<1> USE DEF ConnectionInv, Disconnect, clientVars, wireVars, serverVars
<1>1. TypeOK'
    BY DEF TypeOK
<1>2. ServerInv'
    BY DEF ServerInv
<1>3. ClientInv'
    BY DEF ClientInv
<1>4. CallInv'
    BY DEF CallInv
<1>5. DisconnectInv'
    BY DEF DisconnectInv, NoBorrow
<1> QED BY <1>1, <1>2, <1>3, <1>4, <1>5

-----------------------------------------------------------------------------
(* The client loop.                                                        *)

(* What taking the head of the application's channel leaves. *)
LEMMA TakenRequest ==
    ASSUME ConnectionInv, NEW c \in Calls, TakeRequest(c)
    PROVE  /\ rpc_request' \in Seq(Calls) /\ Len(rpc_request') <= ReqCap
           /\ IsInjective(rpc_request')
           /\ c \in Range(rpc_request)
           /\ Range(rpc_request') \subseteq Range(rpc_request)
           /\ c \notin Range(rpc_request')
PROOF BY TailRange, LenProperties, ReqCapAssumption
      DEF ConnectionInv, TypeOK, CallInv, TakeRequest

(* A request that is refused: nothing but the outcome of the call changes. *)
LEMMA RefusedRequestKeepsInv ==
    ASSUME ConnectionInv, NEW c \in Calls, TakeRequest(c),
           NEW outcome \in Refusals, Complete(c, outcome),
           UNCHANGED <<active_rpc_calls, c2s>>
    PROVE  ConnectionInv'
PROOF
<1> USE TakenRequest DEF ConnectionInv, TakeRequest, Complete, serverVars
<1>1. TypeOK'
    BY DEF TypeOK, AppStates
<1>2. ServerInv'
    BY DEF ServerInv
<1>3. ClientInv'
    BY DEF ClientInv
<1>4. CallInv'
    BY Travelling DEF CallInv, TypeOK, Refusals
<1>5. DisconnectInv'
    BY DEF DisconnectInv, TypeOK, Pending, Refusals
<1> QED BY <1>1, <1>2, <1>3, <1>4, <1>5

LEMMA RejectRequestKeepsInv ==
    ASSUME ConnectionInv, NEW c \in Calls, RejectRequest(c)
    PROVE  ConnectionInv'
PROOF BY RefusedRequestKeepsInv DEF RejectRequest, Refusals

LEMMA FailRequestKeepsInv ==
    ASSUME ConnectionInv, NEW c \in Calls, FailRequest(c)
    PROVE  ConnectionInv'
PROOF BY RefusedRequestKeepsInv DEF FailRequest, Refusals

(* A free id is used nowhere: not on the wire, not by the server. *)
LEMMA FreeIdUnused ==
    ASSUME ConnectionInv, client_loop = "running",
           NEW id \in Ids, active_rpc_calls[id] = NoCall
    PROVE  /\ ~in_flight[id]
           /\ \A m \in Range(c2s) \cup handlers \cup Range(rpc_rx) \cup Range(s2c) :
                m.id # id
PROOF BY Travelling, NoCallAssumption DEF ConnectionInv, ClientInv

LEMMA ForwardRequestKeepsInv ==
    ASSUME ConnectionInv, NEW c \in Calls, ForwardRequest(c)
    PROVE  ConnectionInv'
PROOF
<1> USE DEF ConnectionInv
<1> PICK id \in Ids :
        /\ FirstFree(id)
        /\ active_rpc_calls' = [active_rpc_calls EXCEPT ![id] = c]
        /\ c2s' = IF link = "up"
                    THEN Append(c2s, [id |-> id, call |-> c]) ELSE c2s
    BY DEF ForwardRequest
<1> DEFINE new == [id |-> id, call |-> c]
<1>1. /\ TakeRequest(c) /\ app' = app /\ client_loop = "running"
      /\ UNCHANGED <<answer, late, shutdown, client_loop, link, s2c>>
      /\ UNCHANGED <<in_flight, handlers, rpc_rx, response_first, exec>>
    BY DEF ForwardRequest, TakeRequest, serverVars
<1>2. new \in Tagged /\ new.id = id /\ new.call = c
    BY DEF Tagged
<1>3. /\ ~in_flight[id]
      /\ \A m \in Range(c2s) \cup handlers \cup Range(rpc_rx) \cup Range(s2c) :
           m.id # id
    BY <1>1, FreeIdUnused DEF FirstFree
<1>4. /\ exec[c] = "no" /\ app[c] \in {"waiting", "cancelled"}
      /\ \A m \in Range(c2s) : m.call # c
    BY <1>1, TakenRequest DEF CallInv
<1>5. /\ c2s' \in Seq(Tagged) /\ IsInjective(c2s')
      /\ Range(c2s') \subseteq Range(c2s) \cup {new}
    <2>1. new \notin Range(c2s) /\ c2s \in Seq(Tagged) /\ IsInjective(c2s)
        BY <1>2, <1>3 DEF TypeOK, ServerInv
    <2>2. CASE c2s' = Append(c2s, new)
        BY <2>1, <2>2, <1>2, AppendRange
    <2>3. CASE c2s' = c2s
        BY <2>1, <2>3
    <2> QED BY <2>2, <2>3
<1>6. TypeOK'
    BY <1>1, <1>5, TakenRequest DEF TypeOK
<1>7. ServerInv'
    BY <1>1, <1>2, <1>3, <1>4, <1>5 DEF ServerInv, UniqueIds, UniqueCalls
<1>8. ClientInv'
    BY <1>1, <1>2, <1>3, <1>5, Travelling, NoCallAssumption DEF ClientInv, TypeOK
<1>9. CallInv'
    BY <1>1, <1>2, <1>4, <1>5, TakenRequest DEF CallInv
<1>10. DisconnectInv'
    BY <1>1 DEF DisconnectInv
<1> QED BY <1>6, <1>7, <1>8, <1>9, <1>10

LEMMA ReceiveResponseKeepsInv ==
    ASSUME ConnectionInv, ReceiveResponse
    PROVE  ConnectionInv'
PROOF
<1> USE DEF ConnectionInv
<1> DEFINE m == Head(s2c)
<1>1. /\ client_loop = "running" /\ s2c # <<>> /\ s2c' = Tail(s2c)
      /\ AcceptResponse(m) \/ IgnoreResponse(m)
      /\ UNCHANGED <<late, shutdown, rpc_request, client_loop, link, c2s>>
      /\ UNCHANGED <<in_flight, handlers, rpc_rx, response_first, exec>>
    BY DEF ReceiveResponse, serverVars
<1>2. /\ m \in Range(s2c) /\ s2c' \in Seq(Tagged)
      /\ Range(s2c') \subseteq Range(s2c)
      /\ IsInjective(s2c') /\ m \notin Range(s2c')
    BY <1>1, TailRange DEF TypeOK, ClientInv
<1>3. /\ m.id \in Ids /\ m.call \in Calls /\ active_rpc_calls[m.id] = m.call
      /\ exec[m.call] = "returned" /\ ~in_flight[m.id]
    BY <1>1, <1>2, Travelling DEF ClientInv
<1>4. /\ \A n \in Range(c2s) \cup handlers \cup Range(rpc_rx) \cup Range(s2c') :
           n.id # m.id
    BY <1>1, <1>2, <1>3 DEF ClientInv, ServerInv, UniqueIds
<1>5. ServerInv'
    BY <1>1 DEF ServerInv
<1>6. CASE IgnoreResponse(m)
    <2>1. UNCHANGED <<app, answer, active_rpc_calls>>
        BY <1>6 DEF IgnoreResponse
    <2>2. TypeOK'
        BY <1>1, <1>2, <2>1 DEF TypeOK
    <2>3. ClientInv'
        BY <1>1, <1>2, <2>1 DEF ClientInv, UniqueIds
    <2>4. CallInv' /\ DisconnectInv'
        BY <1>1, <2>1 DEF CallInv, DisconnectInv
    <2> QED BY <1>5, <2>2, <2>3, <2>4
<1>7. CASE AcceptResponse(m)
    <2>1. /\ active_rpc_calls' = [active_rpc_calls EXCEPT ![m.id] = NoCall]
          /\ \/ app' = app /\ answer' = answer
             \/ /\ app[m.call] = "waiting"
                /\ app' = [app EXCEPT ![m.call] = "answered"]
                /\ answer' = [answer EXCEPT ![m.call] = m.call]
             \/ /\ app[m.call] = "waiting"
                /\ app' = [app EXCEPT ![m.call] = "ClientDecodeError"]
                /\ answer' = answer
        BY <1>3, <1>7 DEF AcceptResponse, GiveOutput, Complete
    <2>2. TypeOK'
        BY <1>1, <1>2, <1>3, <2>1 DEF TypeOK, AppStates
    <2>3. ClientInv'
        BY <1>1, <1>2, <1>3, <1>4, <2>1, Travelling DEF ClientInv, UniqueIds, TypeOK
    <2>4. CallInv'
        <3>1. m.call \notin Range(rpc_request) /\ \A n \in Range(c2s) : n.call # m.call
            BY <1>3 DEF CallInv, ServerInv
        <3>2. \A d \in Calls :
                /\ app'[d] \in {"idle", "sending"} \cup Refusals => exec[d] = "no"
                /\ app'[d] = "answered" => exec[d] = "returned" /\ answer'[d] = d
                /\ app'[d] = "ClientDecodeError" => exec[d] = "returned"
            BY <1>3, <2>1 DEF CallInv, TypeOK, Refusals
        <3>3. \A d \in Calls : d # m.call => app'[d] = app[d]
            BY <2>1 DEF TypeOK
        <3> QED BY <1>1, <3>1, <3>2, <3>3, Travelling DEF CallInv
    <2>5. DisconnectInv'
        BY <1>1, <1>3, <2>1 DEF DisconnectInv, TypeOK, Pending
    <2> QED BY <1>5, <2>2, <2>3, <2>4, <2>5
<1> QED BY <1>1, <1>6, <1>7

LEMMA ShutdownKeepsInv ==
    ASSUME ConnectionInv, Shutdown
    PROVE  ConnectionInv'
PROOF
<1> USE DEF ConnectionInv
<1>1. /\ client_loop' = "closing" /\ shutdown
      /\ UNCHANGED <<app, answer, late, shutdown, rpc_request, active_rpc_calls,
                     link, c2s, s2c, in_flight, handlers, rpc_rx, response_first, exec>>
    BY DEF Shutdown, ShutdownSignalled, appVars, wireVars, serverVars
<1>2. TypeOK'
    BY <1>1 DEF TypeOK
<1>3. ServerInv' /\ ClientInv' /\ CallInv'
    BY <1>1 DEF ServerInv, ClientInv, CallInv
<1>4. DisconnectInv'
    BY <1>1 DEF DisconnectInv
<1> QED BY <1>2, <1>3, <1>4

LEMMA CloseStreamKeepsInv ==
    ASSUME ConnectionInv, CloseStream
    PROVE  ConnectionInv'
PROOF
<1> USE DEF ConnectionInv
<1>1. /\ rpc_request' = <<>> /\ s2c' = <<>> /\ client_loop' = "exited" /\ shutdown
      /\ active_rpc_calls' = [id \in Ids |-> NoCall]
      /\ link' \in {link, "closed"}
      /\ UNCHANGED <<answer, late, shutdown, c2s, in_flight, handlers, rpc_rx, response_first, exec>>
    BY DEF CloseStream, DisconnectInv, serverVars
<1>2. \A c \in Calls : app'[c] = app[c] \/ (app[c] = "waiting" /\ app'[c] = "panicked")
    BY DEF CloseStream
<1>3. TypeOK'
    <2>1. <<>> \in Seq(Calls) /\ <<>> \in Seq(Tagged) /\ Len(<<>>) = 0
        BY EmptySeq
    <2>2. app' \in [Calls -> AppStates]
        BY DEF CloseStream, TypeOK, AppStates
    <2> QED BY <1>1, <2>1, <2>2, ReqCapAssumption DEF TypeOK
<1>4. ServerInv'
    BY <1>1 DEF ServerInv
<1>5. ClientInv'
    BY <1>1 DEF ClientInv
<1>6. CallInv'
    BY <1>1, <1>2, EmptyRange, Travelling DEF CallInv, Refusals
<1>7. DisconnectInv'
    BY <1>1, <1>2 DEF DisconnectInv, Pending
<1> QED BY <1>3, <1>4, <1>5, <1>6, <1>7

-----------------------------------------------------------------------------
(* The server's connection loop, its tasks and the stream.                 *)

LEMMA ReceiveRequestKeepsInv ==
    ASSUME ConnectionInv, ReceiveRequest
    PROVE  ConnectionInv'
PROOF
<1> USE DEF ConnectionInv
<1> DEFINE m == Head(c2s)
<1>1. /\ c2s # <<>> /\ c2s' = Tail(c2s)
      /\ SpawnHandler(m) \/ DropRequest(m)
      /\ UNCHANGED <<app, answer, late, shutdown>>
      /\ UNCHANGED <<rpc_request, active_rpc_calls, client_loop, link, s2c, rpc_rx>>
      /\ response_first' \in BOOLEAN
    BY DEF ReceiveRequest, appVars, clientVars
<1>2. /\ m \in Range(c2s) /\ m \in Tagged /\ c2s' \in Seq(Tagged)
      /\ Range(c2s') \subseteq Range(c2s)
      /\ IsInjective(c2s') /\ m \notin Range(c2s')
    BY <1>1, TailRange DEF TypeOK, ServerInv
<1>3. /\ m.id \in Ids /\ m.call \in Calls
      /\ ~in_flight[m.id] /\ exec[m.call] = "no"
      /\ m.call \notin Range(rpc_request)
      /\ app[m.call] \in {"waiting", "cancelled", "panicked"}
    BY <1>2, Travelling DEF ServerInv, CallInv
<1>4. DisconnectInv'
    BY <1>1 DEF DisconnectInv
<1>5. CASE DropRequest(m)
    <2>1. UNCHANGED <<in_flight, handlers, exec>>
        BY <1>5 DEF DropRequest
    <2>2. TypeOK'
        BY <1>1, <1>2, <2>1 DEF TypeOK
    <2>3. ServerInv'
        BY <1>1, <1>2, <2>1 DEF ServerInv, UniqueIds, UniqueCalls
    <2>4. ClientInv'
        BY <1>1, <1>2, <2>1 DEF ClientInv
    <2>5. CallInv'
        BY <1>1, <1>2, <2>1 DEF CallInv
    <2> QED BY <1>4, <2>2, <2>3, <2>4, <2>5
<1>6. CASE SpawnHandler(m)
    <2>1. /\ in_flight' = [in_flight EXCEPT ![m.id] = TRUE]
          /\ handlers' = handlers \cup {m}
          /\ exec' = [exec EXCEPT ![m.call] = "running"]
        BY <1>6 DEF SpawnHandler
    <2>2. /\ \A n \in Range(c2s') : n.id # m.id /\ n.call # m.call
          /\ \A n \in handlers \cup Range(rpc_rx) : n.id # m.id /\ n.call # m.call
        BY <1>2, <1>3 DEF ServerInv, UniqueIds, UniqueCalls
    <2>3. TypeOK'
        <3>1. in_flight' \in [Ids -> BOOLEAN]
            BY <1>3, <2>1 DEF TypeOK
        <3> QED BY <1>1, <1>2, <1>3, <2>1, <3>1 DEF TypeOK, ExecStates
    <2>4. ServerInv'
        BY <1>1, <1>2, <1>3, <2>1, <2>2, Travelling
           DEF ServerInv, UniqueIds, UniqueCalls, TypeOK
    <2>5. ClientInv'
        <3> SUFFICES ASSUME client_loop = "running" PROVE ClientInv'
            BY <1>1 DEF ClientInv
        <3>1. \A n \in Range(s2c) : n.id # m.id /\ n.call # m.call
            BY <1>2, <1>3 DEF ClientInv
        <3>2. active_rpc_calls[m.id] = m.call
            BY <1>2 DEF ClientInv
        <3> QED BY <1>1, <1>2, <1>3, <2>1, <3>1, <3>2, Travelling, NoCallAssumption
                DEF ClientInv, TypeOK
    <2>6. CallInv'
        BY <1>1, <1>2, <1>3, <2>1, Travelling DEF CallInv, TypeOK, Refusals
    <2> QED BY <1>4, <2>3, <2>4, <2>5, <2>6
<1> QED BY <1>1, <1>5, <1>6

(* A handler that ends, one way or the other. *)
LEMMA HandlerEndsKeepsInv ==
    ASSUME ConnectionInv, NEW h \in handlers, NEW how \in {"returned", "panicked"},
           handlers' = handlers \ {h},
           exec' = [exec EXCEPT ![h.call] = how],
           \/ rpc_rx' = Append(rpc_rx, h) /\ how = "returned"
           \/ rpc_rx' = rpc_rx,
           UNCHANGED <<appVars, clientVars, wireVars, in_flight, response_first>>
    PROVE  ConnectionInv'
PROOF
<1> USE DEF ConnectionInv, appVars, clientVars, wireVars
<1>1. /\ h \in Tagged /\ h.id \in Ids /\ h.call \in Calls
      /\ in_flight[h.id] /\ exec[h.call] = "running"
      /\ h \notin Range(rpc_rx)
    BY Travelling DEF ServerInv
<1>2. /\ rpc_rx' \in Seq(Tagged) /\ IsInjective(rpc_rx')
      /\ \/ Range(rpc_rx') = Range(rpc_rx)
         \/ Range(rpc_rx') = Range(rpc_rx) \cup {h} /\ how = "returned"
    <2>1. rpc_rx \in Seq(Tagged) /\ IsInjective(rpc_rx)
        BY DEF TypeOK, ServerInv
    <2>2. CASE rpc_rx' = Append(rpc_rx, h) /\ how = "returned"
        BY <1>1, <2>1, <2>2, AppendRange
    <2>3. CASE rpc_rx' = rpc_rx
        BY <2>1, <2>3
    <2> QED BY <2>2, <2>3
<1>3. TypeOK'
    BY <1>1, <1>2 DEF TypeOK, ExecStates
<1>4. ServerInv'
    <2>1. \A n \in Range(c2s) \cup handlers' \cup Range(rpc_rx) : n.call # h.call
        BY <1>1 DEF ServerInv, UniqueCalls
    <2>2. /\ handlers' \cap Range(rpc_rx') = {}
          /\ UniqueIds(handlers' \cup Range(rpc_rx')) /\ UniqueCalls(handlers')
        BY <1>1, <1>2 DEF ServerInv, UniqueIds, UniqueCalls
    <2>3. \A n \in Range(c2s) : ~in_flight'[n.id] /\ exec'[n.call] = "no"
        BY <2>1, Travelling DEF ServerInv, TypeOK
    <2>4. \A n \in handlers' : in_flight'[n.id] /\ exec'[n.call] = "running"
        BY <2>1, Travelling DEF ServerInv, TypeOK
    <2>5. \A n \in Range(rpc_rx') : in_flight'[n.id] /\ exec'[n.call] = "returned"
        BY <1>1, <1>2, <2>1, Travelling DEF ServerInv, TypeOK
    <2> QED BY <1>2, <2>2, <2>3, <2>4, <2>5 DEF ServerInv
<1>5. ClientInv'
    BY <1>1, <1>2, Travelling DEF ClientInv, TypeOK
<1>6. CallInv'
    BY <1>1, Travelling DEF CallInv, TypeOK, ServerInv
<1>7. DisconnectInv'
    BY DEF DisconnectInv
<1> QED BY <1>3, <1>4, <1>5, <1>6, <1>7

LEMMA HandlerStepKeepsInv ==
    ASSUME ConnectionInv, NEW h \in Tagged, HandlerStep(h)
    PROVE  ConnectionInv'
PROOF
<1>1. CASE HandlerReturns(h)
    BY <1>1, HandlerEndsKeepsInv DEF HandlerReturns
<1>2. CASE HandlerPanics(h)
    BY <1>2, HandlerEndsKeepsInv DEF HandlerPanics
<1> QED BY <1>1, <1>2 DEF HandlerStep

LEMMA SendResponseKeepsInv ==
    ASSUME ConnectionInv, SendResponse
    PROVE  ConnectionInv'
PROOF
<1> USE DEF ConnectionInv
<1> DEFINE m == Head(rpc_rx)
<1>1. /\ rpc_rx # <<>> /\ rpc_rx' = Tail(rpc_rx)
      /\ in_flight' = [in_flight EXCEPT ![m.id] = FALSE]
      /\ s2c' = Append(s2c, m) \/ s2c' = s2c
      /\ UNCHANGED <<app, answer, late, shutdown>>
      /\ UNCHANGED <<rpc_request, active_rpc_calls, client_loop>>
      /\ UNCHANGED <<link, c2s, handlers, exec>>
      /\ response_first' \in BOOLEAN
    BY DEF SendResponse, SendMsg, appVars, clientVars
<1>2. /\ m \in Range(rpc_rx) /\ m \in Tagged /\ rpc_rx' \in Seq(Tagged)
      /\ Range(rpc_rx') \subseteq Range(rpc_rx)
      /\ IsInjective(rpc_rx') /\ m \notin Range(rpc_rx')
    BY <1>1, TailRange DEF TypeOK, ServerInv
<1>3. /\ m.id \in Ids /\ m.call \in Calls
      /\ in_flight[m.id] /\ exec[m.call] = "returned"
      /\ \A n \in Range(c2s) \cup handlers \cup Range(rpc_rx') : n.id # m.id
    BY <1>2, Travelling DEF ServerInv, UniqueIds
<1>4. /\ s2c' \in Seq(Tagged) /\ Range(s2c') \subseteq Range(s2c) \cup {m}
      /\ IsInjective(s2c) /\ m \notin Range(s2c) => IsInjective(s2c')
    <2>1. s2c \in Seq(Tagged)
        BY DEF TypeOK
    <2>2. CASE s2c' = Append(s2c, m)
        BY <1>2, <2>1, <2>2, AppendRange
    <2>3. CASE s2c' = s2c
        BY <2>1, <2>3
    <2> QED BY <1>1, <2>2, <2>3
<1>5. TypeOK'
    <2>1. in_flight' \in [Ids -> BOOLEAN]
        BY <1>1, <1>3 DEF TypeOK
    <2> QED BY <1>1, <1>2, <1>4, <2>1 DEF TypeOK
<1>6. ServerInv'
    BY <1>1, <1>2, <1>3, Travelling DEF ServerInv, UniqueIds, TypeOK
<1>7. ClientInv'
    <2> SUFFICES ASSUME client_loop = "running" PROVE ClientInv'
        BY <1>1 DEF ClientInv
    <2>1. \A n \in Range(s2c) : n.id # m.id
        BY <1>3 DEF ClientInv
    <2>2. m \notin Range(s2c)
        BY <2>1
    <2>3. IsInjective(s2c') /\ UniqueIds(Range(s2c'))
        BY <1>4, <2>1, <2>2 DEF ClientInv, UniqueIds
    <2>4. \A n \in Range(s2c') : ~in_flight'[n.id] /\ exec'[n.call] = "returned"
        BY <1>1, <1>3, <1>4, Travelling DEF ClientInv, TypeOK
    <2>5. \A n \in Range(s2c'), k \in Range(c2s') : n.id # k.id
        BY <1>1, <1>3, <1>4 DEF ClientInv
    <2>6. \A n \in Range(c2s') \cup handlers' \cup Range(rpc_rx') \cup Range(s2c') :
             active_rpc_calls'[n.id] = n.call
        BY <1>1, <1>2, <1>4 DEF ClientInv
    <2>7. \A id \in Ids : in_flight'[id] => active_rpc_calls'[id] # NoCall
        BY <1>1, <1>3 DEF ClientInv, TypeOK
    <2> QED BY <2>3, <2>4, <2>5, <2>6, <2>7 DEF ClientInv
<1>8. CallInv'
    BY <1>1 DEF CallInv
<1>9. DisconnectInv'
    BY <1>1 DEF DisconnectInv
<1> QED BY <1>5, <1>6, <1>7, <1>8, <1>9

LEMMA LinkBreaksKeepsInv ==
    ASSUME ConnectionInv, LinkBreaks
    PROVE  ConnectionInv'
PROOF
<1> USE DEF ConnectionInv
<1>1. PICK m \in 0..Len(c2s) : c2s' = SubSeq(c2s, 1, m)
    BY DEF LinkBreaks
<1>2. PICK n \in 0..Len(s2c) : s2c' = SubSeq(s2c, 1, n)
    BY DEF LinkBreaks
<1>3. /\ link' = "broken"
      /\ UNCHANGED <<app, answer, late, shutdown>>
      /\ UNCHANGED <<rpc_request, active_rpc_calls, client_loop>>
      /\ UNCHANGED <<in_flight, handlers, rpc_rx, response_first, exec>>
    BY DEF LinkBreaks, appVars, clientVars, serverVars
<1>4. /\ c2s' \in Seq(Tagged) /\ s2c' \in Seq(Tagged)
      /\ Range(c2s') \subseteq Range(c2s) /\ Range(s2c') \subseteq Range(s2c)
      /\ IsInjective(c2s')
      /\ IsInjective(s2c) => IsInjective(s2c')
    BY <1>1, <1>2, PrefixRange DEF TypeOK, ServerInv
<1>5. TypeOK'
    BY <1>3, <1>4 DEF TypeOK
<1>6. ServerInv'
    BY <1>3, <1>4 DEF ServerInv, UniqueIds, UniqueCalls
<1>7. ClientInv'
    BY <1>3, <1>4 DEF ClientInv, UniqueIds
<1>8. CallInv'
    BY <1>3, <1>4 DEF CallInv
<1>9. DisconnectInv'
    BY <1>3 DEF DisconnectInv
<1> QED BY <1>5, <1>6, <1>7, <1>8, <1>9

-----------------------------------------------------------------------------
LEMMA StutterKeepsInv ==
    ASSUME ConnectionInv, UNCHANGED vars
    PROVE  ConnectionInv'
PROOF
<1> USE DEF vars, appVars, clientVars, wireVars, serverVars
<1>1. TypeOK' /\ ServerInv'
    BY DEF ConnectionInv, TypeOK, ServerInv
<1>2. ClientInv' /\ CallInv' /\ DisconnectInv'
    BY DEF ConnectionInv, ClientInv, CallInv, DisconnectInv
<1> QED BY <1>1, <1>2 DEF ConnectionInv

(* Every step of the connection keeps the inductive invariant. *)
LEMMA NextKeepsInv == ConnectionInv /\ [Next]_vars => ConnectionInv'
PROOF
<1> SUFFICES ASSUME ConnectionInv, [Next]_vars PROVE ConnectionInv'
    OBVIOUS
<1>1. ASSUME NEW c \in Calls, CallerStep(c) PROVE ConnectionInv'
    BY <1>1, MakeRpcCallKeepsInv, SendRequestKeepsInv, CancelKeepsInv DEF CallerStep
<1>2. ASSUME NEW c \in Calls, ClientRequestStep(c) PROVE ConnectionInv'
    BY <1>2, RejectRequestKeepsInv, FailRequestKeepsInv, ForwardRequestKeepsInv
       DEF ClientRequestStep
<1>3. CASE Disconnect
    BY <1>3, DisconnectKeepsInv
<1>4. CASE ReceiveResponse
    BY <1>4, ReceiveResponseKeepsInv
<1>5. CASE Shutdown
    BY <1>5, ShutdownKeepsInv
<1>11. CASE CloseStream
    BY <1>11, CloseStreamKeepsInv
<1>6. CASE ReceiveRequest
    BY <1>6, ReceiveRequestKeepsInv
<1>7. ASSUME NEW h \in Tagged, HandlerStep(h) PROVE ConnectionInv'
    BY <1>7, HandlerStepKeepsInv
<1>8. CASE SendResponse
    BY <1>8, SendResponseKeepsInv
<1>9. CASE LinkBreaks
    BY <1>9, LinkBreaksKeepsInv
<1>10. CASE UNCHANGED vars
    BY <1>10, StutterKeepsInv
<1> QED BY <1>1, <1>2, <1>3, <1>4, <1>5, <1>6, <1>7, <1>8, <1>9, <1>10,
           <1>11 DEF Next

(* The accounting of ids and calls holds in every reachable state. *)
THEOREM Invariance == Spec => []ConnectionInv
PROOF BY InitInv, NextKeepsInv, PTL DEF Spec

(* Every variable keeps its type; the request channel keeps its capacity. *)
THEOREM TypeCorrect == Spec => []TypeOK
PROOF
<1>1. ConnectionInv => TypeOK
    BY DEF ConnectionInv
<1> QED BY Invariance, <1>1, PTL

(* No caller is ever given the output of another call, however ids are       *)
(* reused and callers leave. *)
THEOREM AnswersCorrect == Spec => []AnswerIntegrity
PROOF
<1>1. ConnectionInv => AnswerIntegrity
    BY DEF ConnectionInv, CallInv, AnswerIntegrity
<1> QED BY Invariance, <1>1, PTL

(* The server never sees an id it still works on: it ignores no request. *)
THEOREM RequestsAccepted == Spec => []RequestAccepted
PROOF
<1>1. ConnectionInv => RequestAccepted
    BY DEF ConnectionInv, ServerInv, RequestAccepted
<1> QED BY Invariance, <1>1, PTL

(* A running client finds every response's own call under its id. *)
THEOREM ResponsesExpected == Spec => []ResponseExpected
PROOF
<1>1. ConnectionInv => ResponseExpected
    BY DEF ConnectionInv, ClientInv, ResponseExpected
<1> QED BY Invariance, <1>1, PTL

(* A call the client library refused never ran and never will; one whose     *)
(* output it could not decode has run. *)
THEOREM RefusedCallsNeverRun == Spec => []RetrySafe
PROOF
<1>1. ConnectionInv => RetrySafe
    BY DEF ConnectionInv, CallInv, RetrySafe, Refusals
<1> QED BY Invariance, <1>1, PTL

(* No caller panics before disconnect() was called. *)
THEOREM NoEarlyPanic == Spec => []PanicOnlyAfterDisconnect
PROOF
<1>1. ConnectionInv => PanicOnlyAfterDisconnect
    BY DEF ConnectionInv, DisconnectInv, PanicOnlyAfterDisconnect
<1> QED BY Invariance, <1>1, PTL

-----------------------------------------------------------------------------
(* Refinement of the abstract RPC service.                                 *)

phaseMap == [c \in Calls |-> PhaseOf(app[c])]

LEMMA PhaseValues ==
    /\ PhaseOf("idle") = "idle"
    /\ PhaseOf("sending") = "open" /\ PhaseOf("waiting") = "open"
    /\ PhaseOf("answered") = "answered"
    /\ PhaseOf("ClientDecodeError") = "unreadable"
    /\ PhaseOf("cancelled") = "abandoned" /\ PhaseOf("panicked") = "abandoned"
    /\ \A e \in Refusals : PhaseOf(e) = "rejected"
PROOF BY DEF PhaseOf, Pending, Refusals

(* A step that changes the outcome of one call changes one phase. *)
LEMMA OnePhase ==
    ASSUME TypeOK, NEW c \in Calls, NEW a, app' = [app EXCEPT ![c] = a]
    PROVE  phaseMap' = [phaseMap EXCEPT ![c] = PhaseOf(a)]
PROOF BY DEF phaseMap, TypeOK

LEMMA InitRefines == Init => Service!Init
PROOF BY PhaseValues DEF Init, Service!Init

LEMMA CallerRefines ==
    ASSUME ConnectionInv, NEW c \in Calls, CallerStep(c)
    PROVE  [Service!Next]_(Service!vars)
PROOF
<1> USE PhaseValues, OnePhase DEF ConnectionInv, phaseMap, Service!vars
<1>1. CASE MakeRpcCall(c)
    <2>1. exec' = exec /\ answer' = answer /\ app[c] = "idle" /\ exec[c] = "no"
        BY <1>1 DEF MakeRpcCall, serverVars, CallInv
    <2>2. CASE app' = [app EXCEPT ![c] = "sending"]
        <3>1. Service!Issue(c)
            BY <2>1, <2>2 DEF Service!Issue, TypeOK
        <3> QED BY <3>1 DEF Service!Next
    <2>3. CASE app' = [app EXCEPT ![c] = "ClientEncodeError"]
        <3>1. Service!Reject(c)
            BY <2>1, <2>3 DEF Service!Reject, TypeOK, Refusals
        <3> QED BY <3>1 DEF Service!Next
    <2> QED BY <1>1, <2>2, <2>3 DEF MakeRpcCall
<1>2. CASE SendRequest(c)
    <2>1. exec' = exec /\ answer' = answer /\ app[c] = "sending"
        BY <1>2 DEF SendRequest, serverVars
    <2>2. CASE app' = [app EXCEPT ![c] = "waiting"]
        BY <2>1, <2>2 DEF TypeOK
    <2>3. CASE app' = [app EXCEPT ![c] = "panicked"]
        <3>1. Service!Abandon({c})
            BY <2>1, <2>3 DEF Service!Abandon, TypeOK
        <3> QED BY <3>1 DEF Service!Next
    <2> QED BY <1>2, <2>2, <2>3 DEF SendRequest
<1>3. CASE Cancel(c)
    <2>1. Service!Abandon({c})
        BY <1>3 DEF Cancel, serverVars, Pending, Service!Abandon, TypeOK
    <2> QED BY <2>1 DEF Service!Next
<1> QED BY <1>1, <1>2, <1>3 DEF CallerStep

LEMMA ClientRequestRefines ==
    ASSUME ConnectionInv, NEW c \in Calls, ClientRequestStep(c)
    PROVE  [Service!Next]_(Service!vars)
PROOF
<1> USE DEF ConnectionInv, Service!vars
<1>1. TakeRequest(c) /\ exec' = exec /\ answer' = answer /\ exec[c] = "no"
    BY TakenRequest DEF ClientRequestStep, RejectRequest, FailRequest,
                        ForwardRequest, TakeRequest, serverVars, CallInv
<1>2. CASE app' = app
    BY <1>1, <1>2
<1>3. ASSUME NEW e \in Refusals, app[c] = "waiting", app' = [app EXCEPT ![c] = e]
      PROVE  Service!Next
    <2>1. Service!Reject(c)
        BY <1>1, <1>3, PhaseValues, OnePhase DEF Service!Reject, TypeOK, phaseMap
    <2> QED BY <2>1 DEF Service!Next
<1>4. ASSUME NEW e \in Refusals, Complete(c, e)
      PROVE  [Service!Next]_(Service!vars)
    BY <1>2, <1>3, <1>4 DEF Complete
<1>5. CASE RejectRequest(c) \/ FailRequest(c)
    BY <1>4, <1>5 DEF RejectRequest, FailRequest, Refusals
<1>6. CASE ForwardRequest(c)
    BY <1>2, <1>6 DEF ForwardRequest
<1> QED BY <1>5, <1>6 DEF ClientRequestStep

LEMMA ReceiveResponseRefines ==
    ASSUME ConnectionInv, ReceiveResponse
    PROVE  [Service!Next]_(Service!vars)
PROOF
<1> USE DEF ConnectionInv, Service!vars
<1> DEFINE m == Head(s2c)
<1>1. client_loop = "running" /\ m \in Range(s2c) /\ exec' = exec
    BY TailRange DEF ReceiveResponse, serverVars, TypeOK
<1>2. /\ m.id \in Ids /\ m.call \in Calls /\ active_rpc_calls[m.id] = m.call
      /\ exec[m.call] = "returned"
    BY <1>1, Travelling DEF ClientInv
<1>3. CASE app' = app /\ answer' = answer
    BY <1>1, <1>3
<1>4. CASE /\ app[m.call] = "waiting"
           /\ app' = [app EXCEPT ![m.call] = "answered"]
           /\ answer' = [answer EXCEPT ![m.call] = m.call]
    <2>1. Service!Deliver(m.call)
        BY <1>1, <1>2, <1>4, PhaseValues, OnePhase
           DEF Service!Deliver, TypeOK, phaseMap
    <2> QED BY <1>2, <2>1 DEF Service!Next
<1>5. CASE /\ app[m.call] = "waiting"
           /\ app' = [app EXCEPT ![m.call] = "ClientDecodeError"]
           /\ answer' = answer
    <2>1. Service!Garble(m.call)
        BY <1>1, <1>2, <1>5, PhaseValues, OnePhase
           DEF Service!Garble, TypeOK, phaseMap
    <2> QED BY <1>2, <2>1 DEF Service!Next
<1> QED BY <1>2, <1>3, <1>4, <1>5
        DEF ReceiveResponse, AcceptResponse, IgnoreResponse, GiveOutput, Complete

LEMMA CloseStreamRefines ==
    ASSUME ConnectionInv, CloseStream
    PROVE  [Service!Next]_(Service!vars)
PROOF
<1> DEFINE C == {c \in Calls : app[c] = "waiting" /\ app'[c] = "panicked"}
<1>1. \A c \in Calls : app'[c] = IF c \in C THEN "panicked" ELSE app[c]
    BY DEF CloseStream
<1>2. exec' = exec /\ answer' = answer
    BY DEF CloseStream, serverVars
<1>3. Service!Abandon(C)
    BY <1>1, <1>2, PhaseValues DEF Service!Abandon
<1> QED BY <1>3 DEF Service!Next

LEMMA ReceiveRequestRefines ==
    ASSUME ConnectionInv, ReceiveRequest
    PROVE  [Service!Next]_(Service!vars)
PROOF
<1> USE DEF ConnectionInv, Service!vars
<1> DEFINE m == Head(c2s)
<1>1. m \in Range(c2s) /\ app' = app /\ answer' = answer
    BY TailRange DEF ReceiveRequest, appVars, TypeOK
<1>2. /\ m.call \in Calls /\ exec[m.call] = "no"
      /\ app[m.call] \in {"waiting", "cancelled", "panicked"}
    BY <1>1, Travelling DEF ServerInv, CallInv
<1>3. CASE DropRequest(m)
    BY <1>1, <1>3 DEF DropRequest
<1>4. CASE SpawnHandler(m)
    <2>1. Service!Start(m.call)
        BY <1>1, <1>2, <1>4, PhaseValues DEF SpawnHandler, Service!Start
    <2> QED BY <1>2, <2>1 DEF Service!Next
<1> QED BY <1>3, <1>4 DEF ReceiveRequest

LEMMA HandlerRefines ==
    ASSUME ConnectionInv, NEW h \in Tagged, HandlerStep(h)
    PROVE  [Service!Next]_(Service!vars)
PROOF
<1>1. PICK how \in {"returned", "panicked"} :
        /\ h \in handlers /\ app' = app /\ answer' = answer
        /\ exec' = [exec EXCEPT ![h.call] = how]
    BY DEF HandlerStep, HandlerReturns, HandlerPanics, appVars
<1>2. h.call \in Calls /\ exec[h.call] = "running"
    BY <1>1, Travelling DEF ConnectionInv, ServerInv
<1>3. Service!Finish(h.call, how)
    BY <1>1, <1>2 DEF Service!Finish
<1> QED BY <1>2, <1>3 DEF Service!Next

LEMMA InvisibleRefines ==
    ASSUME UNCHANGED <<app, answer, exec>>
    PROVE  [Service!Next]_(Service!vars)
PROOF BY DEF Service!vars

(* Every step of the connection is a step of the service, or none. *)
LEMMA NextRefines == ConnectionInv /\ [Next]_vars => [Service!Next]_(Service!vars)
PROOF
<1> SUFFICES ASSUME ConnectionInv, [Next]_vars PROVE [Service!Next]_(Service!vars)
    OBVIOUS
<1>1. CASE Disconnect \/ Shutdown \/ SendResponse \/ LinkBreaks \/ UNCHANGED vars
    <2>1. UNCHANGED <<app, answer, exec>>
        BY <1>1 DEF Disconnect, Shutdown, SendResponse, LinkBreaks, vars, appVars, serverVars
    <2> QED BY <2>1, InvisibleRefines
<1> QED BY <1>1, CallerRefines, ClientRequestRefines, ReceiveResponseRefines,
           CloseStreamRefines, ReceiveRequestRefines, HandlerRefines DEF Next

(* The connection implements the abstract RPC service: at most one execution *)
(* per call, an answer only from the call's own finished handler, and no     *)
(* execution of a refused call. *)
THEOREM Refinement == Spec => ImplementsService
PROOF BY Invariance, InitRefines, NextRefines, PTL
      DEF Spec, ImplementsService, Service!Spec
=============================================================================
