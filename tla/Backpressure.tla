---------------------------- MODULE Backpressure ----------------------------
(***************************************************************************)
(* The client loop and the server's connection loop as users of a stream   *)
(* with finite buffers. Each loop awaits its own send before it goes back  *)
(* to select!, so a loop that waits for room in one direction does not     *)
(* read the other one (src/client.rs, src/server.rs). Only numbers of      *)
(* messages matter here: who waits for whom, not what is said. What fails  *)
(* on the way takes its id with it (lost) or leaves the id free.           *)
(***************************************************************************)
EXTENDS Integers

CONSTANTS
    NumIds,     \* ids a client has (256)
    ReqCap,     \* capacity of the application -> client loop channel (10)
    C2SCap,     \* requests the stream holds towards the server
    S2CCap,     \* messages the stream holds towards the client
    Pushes,     \* does the server also send events and state changes?
    Faults      \* can the error paths be taken and the stream break?

ASSUME NumIdsAssumption == NumIds \in Nat
ASSUME CapsAssumption == ReqCap \in Nat /\ C2SCap \in Nat /\ S2CCap \in Nat
ASSUME PushesAssumption == Pushes \in BOOLEAN
ASSUME FaultsAssumption == Faults \in BOOLEAN

VARIABLES
    link,               \* "up" or "broken"
    queued,             \* requests in the application's channel
    client_sending,     \* requests the client loop is sending: 0 or 1
    active,             \* ids held by calls
    c2s,                \* requests on the stream
    working,            \* handler tasks
    finished,           \* responses in the connection loop's rpc_rx
    response_first,     \* one waited there when that loop last came back
    server_sending,     \* what the connection loop is sending
    s2c_responses,      \* responses on the stream
    s2c_pushes,         \* events and state changes on the stream
    lost                \* held ids whose request or response is gone

clientVars == <<queued, client_sending, active>>
streamVars == <<link, c2s, s2c_responses, s2c_pushes>>
serverVars == <<working, finished, response_first, server_sending>>
vars == <<clientVars, streamVars, serverVars, lost>>

Init ==
    /\ link = "up"
    /\ queued = 0 /\ client_sending = 0 /\ active = 0
    /\ c2s = 0 /\ working = 0 /\ finished = 0
    /\ response_first = FALSE /\ server_sending = "nothing"
    /\ s2c_responses = 0 /\ s2c_pushes = 0
    /\ lost = 0

-----------------------------------------------------------------------------
(* The client.                                                             *)

(* The application makes a call whenever its channel has room: it may run   *)
(* any number of tasks, and a task may leave its call and make another. *)
MakeCall ==
    /\ queued < ReqCap
    /\ queued' = queued + 1
    /\ UNCHANGED <<client_sending, active, streamVars, serverVars, lost>>

ClientSelects == client_sending = 0
ServerSelects == server_sending = "nothing"

(* Mutant: the test for a free id is off by one. *)
FreeIdOffByOne == active <= NumIds

FreeId == active < NumIds

(* The client loop takes a request. It starts to send it; without a free id, *)
(* or if it cannot encode or compress it, it tells the caller and goes on. *)
TakeRequest ==
    /\ ClientSelects
    /\ queued > 0
    /\ queued' = queued - 1
    /\ \/ FreeId /\ client_sending' = 1
       \/ (~FreeId \/ Faults) /\ client_sending' = 0
    /\ UNCHANGED <<active, streamVars, serverVars, lost>>

(* stream.send(..).await returns Ok and the call holds its id from then on;  *)
(* a broken stream can still accept the request, and lose it. *)
ClientSendDone ==
    /\ client_sending = 1
    /\ \/ /\ link = "up" /\ c2s < C2SCap
          /\ c2s' = c2s + 1
          /\ UNCHANGED lost
       \/ /\ link = "broken"
          /\ lost' = lost + 1
          /\ UNCHANGED c2s
    /\ client_sending' = 0
    /\ active' = active + 1
    /\ UNCHANGED <<link, queued, s2c_responses, s2c_pushes, serverVars>>

(* It returns an error: the caller is told and the id stays free. *)
ClientSendFails ==
    /\ client_sending = 1
    /\ link = "broken"
    /\ client_sending' = 0
    /\ UNCHANGED <<queued, active, streamVars, serverVars, lost>>

(* Mutant: the id of an answered call is not given back. *)
ReadResponseKeepsId ==
    /\ ClientSelects
    /\ s2c_responses > 0
    /\ s2c_responses' = s2c_responses - 1
    /\ UNCHANGED <<clientVars, link, c2s, s2c_pushes, serverVars, lost>>

(* The client loop reads a response, and the id is free again. *)
ReadResponse ==
    /\ ClientSelects
    /\ s2c_responses > 0
    /\ s2c_responses' = s2c_responses - 1
    /\ active' = active - 1
    /\ UNCHANGED <<queued, client_sending, link, c2s, s2c_pushes, serverVars,
                   lost>>

(* A response it cannot inflate or decode is ignored: nobody learns its id. *)
IgnoreResponse ==
    /\ Faults
    /\ ClientSelects
    /\ s2c_responses > 0
    /\ s2c_responses' = s2c_responses - 1
    /\ lost' = lost + 1
    /\ UNCHANGED <<clientVars, link, c2s, s2c_pushes, serverVars>>

(* The client loop reads an event or a state change. *)
ReadPush ==
    /\ ClientSelects
    /\ s2c_pushes > 0
    /\ s2c_pushes' = s2c_pushes - 1
    /\ UNCHANGED <<clientVars, link, c2s, s2c_responses, serverVars, lost>>

-----------------------------------------------------------------------------
(* The server. The branches of its biased select! are polled in turn: a     *)
(* later one is ruled out by a response that waited when the loop came back, *)
(* not by one queued since.                                                 *)

(* The connection loop takes a response: the first branch of its select!. *)
TakeResponse ==
    /\ ServerSelects
    /\ finished > 0
    /\ finished' = finished - 1
    /\ server_sending' = "response"
    /\ UNCHANGED <<clientVars, streamVars, working, response_first, lost>>

(* The connection loop takes an event or a state change. *)
TakePush ==
    /\ ServerSelects
    /\ Pushes
    /\ ~response_first
    /\ server_sending' = "push"
    /\ UNCHANGED <<clientVars, streamVars, working, finished, response_first,
                   lost>>

(* The connection loop reads a request and spawns its handler, or drops one  *)
(* it cannot decode: the last branch of its select!. *)
ReadRequest ==
    /\ ServerSelects
    /\ ~response_first
    /\ c2s > 0
    /\ c2s' = c2s - 1
    /\ \/ working' = working + 1 /\ UNCHANGED lost
       \/ Faults /\ lost' = lost + 1 /\ UNCHANGED working
    /\ response_first' = (finished > 0)
    /\ UNCHANGED <<clientVars, link, s2c_responses, s2c_pushes, finished,
                   server_sending>>

HandlerReturns ==
    /\ working > 0
    /\ working' = working - 1
    /\ finished' = finished + 1
    /\ UNCHANGED <<clientVars, streamVars, response_first, server_sending, lost>>

(* The handler panics: its task ends and sends nothing. *)
HandlerPanics ==
    /\ Faults
    /\ working > 0
    /\ working' = working - 1
    /\ lost' = lost + 1
    /\ UNCHANGED <<clientVars, streamVars, finished, response_first,
                   server_sending>>

(* send_msg(..).await returns Ok. *)
ServerSendDone ==
    /\ server_sending # "nothing"
    /\ link = "up" /\ s2c_responses + s2c_pushes < S2CCap
    /\ \/ /\ server_sending = "response"
          /\ s2c_responses' = s2c_responses + 1
          /\ UNCHANGED s2c_pushes
       \/ /\ server_sending = "push"
          /\ s2c_pushes' = s2c_pushes + 1
          /\ UNCHANGED s2c_responses
    /\ server_sending' = "nothing"
    /\ response_first' = (finished > 0)
    /\ UNCHANGED <<clientVars, link, c2s, working, finished, lost>>

(* send_msg(..).await fails, since the message cannot be encoded or the      *)
(* stream is broken: the connection loop goes on without it. *)
ServerSendFails ==
    /\ server_sending # "nothing"
    /\ Faults
    /\ lost' = IF server_sending = "response" THEN lost + 1 ELSE lost
    /\ server_sending' = "nothing"
    /\ response_first' = (finished > 0)
    /\ UNCHANGED <<clientVars, streamVars, working, finished>>

(* The stream breaks: each direction keeps only what already arrived. *)
StreamBreaks ==
    /\ Faults
    /\ link = "up"
    /\ link' = "broken"
    /\ \E requests \in 0..c2s, responses \in 0..s2c_responses :
         /\ c2s' = c2s - requests
         /\ s2c_responses' = s2c_responses - responses
         /\ lost' = lost + requests + responses
    /\ s2c_pushes' \in 0..s2c_pushes
    /\ UNCHANGED <<clientVars, serverVars>>

Next ==
    \/ MakeCall \/ TakeRequest \/ ClientSendDone \/ ClientSendFails
    \/ ReadResponse \/ IgnoreResponse \/ ReadPush
    \/ TakeResponse \/ TakePush \/ ReadRequest
    \/ HandlerReturns \/ HandlerPanics
    \/ ServerSendDone \/ ServerSendFails
    \/ StreamBreaks

Spec == Init /\ [][Next]_vars

-----------------------------------------------------------------------------
(* Every counter is a number within its bounds. *)
TypeOK ==
    /\ link \in {"up", "broken"}
    /\ queued \in 0..ReqCap
    /\ client_sending \in 0..1
    /\ active \in 0..NumIds
    /\ c2s \in 0..C2SCap
    /\ working \in Nat
    /\ finished \in Nat
    /\ response_first \in BOOLEAN
    /\ server_sending \in {"nothing", "response", "push"}
    /\ s2c_responses \in Nat
    /\ s2c_pushes \in Nat
    /\ s2c_responses + s2c_pushes <= S2CCap
    /\ lost \in Nat

(* An id a call holds is one request, handler or response on its way round,  *)
(* or one an error path or a broken stream has lost: neither loop gives such *)
(* an id back, so each lost message leaves the client one id less for good,  *)
(* and without an error every id comes back. *)
IdsAccountedFor ==
    /\ active = c2s + working + finished + s2c_responses
                  + (IF server_sending = "response" THEN 1 ELSE 0) + lost
    /\ ~Faults => lost = 0 /\ link = "up"

(* The inductive invariant: ids in use, the one being sent included, are      *)
(* limited, and without pushes the server only sends responses. *)
FlowInv ==
    /\ TypeOK
    /\ IdsAccountedFor
    /\ active + client_sending <= NumIds
    /\ ~Pushes => server_sending # "push" /\ s2c_pushes = 0

(* The stream is large enough for the ids the client can use. *)
RoomForAllIds ==
    \/ NumIds <= C2SCap
    \/ ~Pushes /\ NumIds < C2SCap + S2CCap + 2

(* The two loops wait for each other, each for room in the direction the    *)
(* other one does not read. *)
MutuallyBlocked ==
    /\ link = "up"
    /\ client_sending = 1 /\ c2s = C2SCap
    /\ server_sending # "nothing" /\ s2c_responses + s2c_pushes = S2CCap

(* The loops never wait for each other, given room for all ids. *)
NeverBlocked == RoomForAllIds => ~MutuallyBlocked

(* "up to 256 RPC calls can be occuring at the same time on a single         *)
(* connection" (README): as many calls as there are ids get through,         *)
(* whatever the stream can hold. *)
AllIdsUsable == ~MutuallyBlocked
=============================================================================
