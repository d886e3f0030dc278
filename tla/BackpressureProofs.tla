------------------------- MODULE BackpressureProofs -------------------------
(***************************************************************************)
(* For every number of ids and every size of the stream's buffers: the two *)
(* loops never wait for each other when the stream has room for all ids.   *)
(***************************************************************************)
EXTENDS Backpressure, TLAPS

LEMMA InitFlowInv == Init => FlowInv
PROOF
<1> SUFFICES ASSUME Init PROVE FlowInv
    OBVIOUS
<1>1. response_first \in BOOLEAN
    BY DEF Init
<1> QED BY <1>1, NumIdsAssumption, CapsAssumption
        DEF Init, FlowInv, TypeOK, IdsAccountedFor

LEMMA NextFlowInv == FlowInv /\ [Next]_vars => FlowInv'
PROOF
<1> SUFFICES ASSUME FlowInv, [Next]_vars PROVE FlowInv'
    OBVIOUS
<1> USE NumIdsAssumption, CapsAssumption, PushesAssumption, FaultsAssumption
        DEF FlowInv, TypeOK, IdsAccountedFor, clientVars, streamVars, serverVars
<1>1. CASE MakeCall
    BY <1>1 DEF MakeCall
<1>2. CASE TakeRequest
    BY <1>2 DEF TakeRequest, ClientSelects, FreeId
<1>3. CASE ClientSendDone
    BY <1>3 DEF ClientSendDone
<1>4. CASE ReadResponse
    BY <1>4 DEF ReadResponse, ClientSelects
<1>5. CASE ReadPush
    BY <1>5 DEF ReadPush, ClientSelects
<1>6. CASE TakeResponse
    BY <1>6 DEF TakeResponse, ServerSelects
<1>7. CASE TakePush
    BY <1>7 DEF TakePush, ServerSelects
<1>8. CASE ReadRequest
    BY <1>8 DEF ReadRequest, ServerSelects
<1>9. CASE HandlerReturns
    BY <1>9 DEF HandlerReturns
<1>10. CASE ServerSendDone
    BY <1>10 DEF ServerSendDone
<1>11. CASE ClientSendFails
    BY <1>11 DEF ClientSendFails
<1>12. CASE IgnoreResponse
    BY <1>12 DEF IgnoreResponse, ClientSelects
<1>13. CASE HandlerPanics
    BY <1>13 DEF HandlerPanics
<1>14. CASE ServerSendFails
    BY <1>14 DEF ServerSendFails
<1>15. CASE StreamBreaks
    <2>1. PICK m \in 0..c2s, n \in 0..s2c_responses :
            /\ c2s' = c2s - m
            /\ s2c_responses' = s2c_responses - n
            /\ lost' = lost + m + n
        BY <1>15 DEF StreamBreaks
    <2>2. PICK p \in 0..s2c_pushes : s2c_pushes' = p
        BY <1>15 DEF StreamBreaks
    <2> QED BY <1>15, <2>1, <2>2 DEF StreamBreaks
<1>16. CASE UNCHANGED vars
    BY <1>16 DEF vars
<1> QED BY <1>1, <1>2, <1>3, <1>4, <1>5, <1>6, <1>7, <1>8, <1>9, <1>10,
           <1>11, <1>12, <1>13, <1>14, <1>15, <1>16
        DEF Next

LEMMA BlockingNeedsIds == FlowInv => NeverBlocked
PROOF
<1> SUFFICES ASSUME FlowInv, RoomForAllIds, MutuallyBlocked PROVE FALSE
    BY DEF NeverBlocked
<1>1. active + 1 <= NumIds /\ active >= C2SCap
    BY CapsAssumption, NumIdsAssumption
       DEF FlowInv, TypeOK, IdsAccountedFor, MutuallyBlocked
<1>2. CASE NumIds <= C2SCap
    BY <1>1, <1>2, CapsAssumption, NumIdsAssumption DEF FlowInv, TypeOK
<1>3. CASE ~Pushes /\ NumIds < C2SCap + S2CCap + 2
    <2>1. server_sending = "response" /\ s2c_responses = S2CCap
        BY <1>3, CapsAssumption DEF FlowInv, TypeOK, MutuallyBlocked
    <2>2. active >= C2SCap + S2CCap + 1
        BY <2>1, CapsAssumption
           DEF FlowInv, TypeOK, IdsAccountedFor, MutuallyBlocked
    <2> QED BY <1>1, <1>3, <2>2, CapsAssumption, NumIdsAssumption DEF FlowInv, TypeOK
<1> QED BY <1>2, <1>3 DEF RoomForAllIds

(* The counters stay in their ranges: neither the client's nor the server's  *)
(* send half, nor a direction of the stream, ever holds more than it can. *)
THEOREM TypeCorrect == Spec => []TypeOK
PROOF
<1>1. FlowInv => TypeOK
    BY DEF FlowInv
<1> QED BY InitFlowInv, NextFlowInv, <1>1, PTL DEF Spec

(* A held id is always in exactly one place on its way round, or lost on an  *)
(* error path; without errors none is lost. *)
THEOREM IdConservation == Spec => []IdsAccountedFor
PROOF
<1>1. FlowInv => IdsAccountedFor
    BY DEF FlowInv
<1> QED BY InitFlowInv, NextFlowInv, <1>1, PTL DEF Spec

(* With room for all ids in the stream the two loops never block each other: *)
(* NumIds at most C2SCap, or, without events and state changes, less than    *)
(* C2SCap + S2CCap + 2. *)
THEOREM NoMutualBlocking == Spec => []NeverBlocked
PROOF BY InitFlowInv, NextFlowInv, BlockingNeedsIds, PTL DEF Spec
=============================================================================
