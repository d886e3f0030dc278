----------------------- MODULE ClientLifecycleProofs -----------------------
(***************************************************************************)
(* For any number of connect() calls: no session is forgotten, and a dead  *)
(* request channel is only left behind by disconnect().                    *)
(***************************************************************************)
EXTENDS ClientLifecycle, TLAPS

LEMMA InitLifecycle == Init => LifecycleInv
PROOF BY MaxSessionsAssumption DEF Init, LifecycleInv, TypeOK, OpenedInv, ConnectingInv,
         FieldsInv, Sessions, None, NoOrphanSession

LEMMA ConnectLifecycle ==
    ASSUME LifecycleInv, Connect
    PROVE  LifecycleInv'
PROOF
<1> USE MaxSessionsAssumption DEF LifecycleInv, Connect
<1>1. opened + 1 \in Sessions /\ opened \in Nat /\ stage[opened + 1] = "none"
    BY DEF TypeOK, Sessions, OpenedInv
<1>2. TypeOK'
    BY <1>1 DEF TypeOK, Sessions
<1>3. OpenedInv'
    BY <1>1 DEF TypeOK, OpenedInv, Sessions
<1>4. ConnectingInv'
    BY <1>1 DEF TypeOK, ConnectingInv, OpenedInv, Sessions
<1>5. FieldsInv'
    BY <1>1 DEF TypeOK, FieldsInv, Sessions, None
<1>6. NoOrphanSession'
    BY <1>1 DEF TypeOK, NoOrphanSession, Sessions, None
<1> QED BY <1>2, <1>3, <1>4, <1>5, <1>6

(* The ways in which the client uses or drops a shutdown sender, or keeps    *)
(* the one it waited for. *)
LEMMA SignalLifecycle ==
    ASSUME LifecycleInv,
           \/ ConnectOk \/ ConnectErr \/ ConnectPanics \/ CancelConnect
           \/ Disconnect \/ DropClient
    PROVE  LifecycleInv'
PROOF
<1> USE DEF LifecycleInv
<1>1. PICK s \in Sessions \cup {None}, how \in {"sent", "dropped"} :
        /\ s \in {shutdown, connecting}
        /\ Signal(s, how)
        /\ connecting' = None
        /\ UNCHANGED <<opened, stage, reported, broken, server>>
        /\ alive' \in BOOLEAN
        /\ \/ /\ connecting # None /\ reported[connecting] = "channels"
              /\ s = shutdown /\ shutdown' = connecting /\ rpc_tx' = connecting
           \/ /\ s = connecting /\ UNCHANGED <<shutdown, rpc_tx>>
           \/ /\ connecting = None /\ s = shutdown /\ shutdown' = None
              /\ rpc_tx' \in {rpc_tx, None}
    <2>1. CASE ConnectOk
        BY <2>1 DEF ConnectOk, taskVars, TypeOK
    <2>2. CASE ConnectErr
        BY <2>2 DEF ConnectErr, taskVars, TypeOK
    <2>3. CASE ConnectPanics
        BY <2>3 DEF ConnectPanics, taskVars, TypeOK
    <2>4. CASE CancelConnect
        BY <2>4 DEF CancelConnect, taskVars, TypeOK
    <2>5. CASE Disconnect
        BY <2>5 DEF Disconnect, taskVars, TypeOK
    <2>6. CASE DropClient
        BY <2>6 DEF DropClient, taskVars, TypeOK
    <2> QED BY <2>1, <2>2, <2>3, <2>4, <2>5, <2>6
<1>2. \A t \in Sessions : signalled'[t] = IF t = s THEN how ELSE signalled[t]
    BY <1>1 DEF Signal
<1>3. opened \in Nat /\ \A t \in Sessions : t \in Nat /\ t # None
    BY MaxSessionsAssumption DEF TypeOK, Sessions, None
<1>4. TypeOK'
    BY <1>1, <1>3 DEF TypeOK, Signal
<1>5. s # None => s <= opened
    BY <1>1, <1>3 DEF TypeOK, ConnectingInv, FieldsInv
<1>6. OpenedInv'
    BY <1>1, <1>2, <1>3, <1>5 DEF OpenedInv, TypeOK
<1>7. ConnectingInv'
    BY <1>1 DEF ConnectingInv
<1>8. FieldsInv'
    BY <1>1, <1>2, <1>3 DEF TypeOK, FieldsInv, ConnectingInv
<1>9. NoOrphanSession'
    BY <1>1, <1>2, <1>3 DEF TypeOK, NoOrphanSession, FieldsInv
<1> QED BY <1>4, <1>6, <1>7, <1>8, <1>9

(* The spawned tasks. *)
LEMMA TaskLifecycle ==
    ASSUME LifecycleInv, NEW s \in Sessions, TaskStep(s)
    PROVE  LifecycleInv'
PROOF
<1> USE DEF LifecycleInv
<1>1. /\ UNCHANGED <<opened, connecting, shutdown, rpc_tx, alive, signalled>>
      /\ broken' \in SUBSET Sessions
      /\ server' \in [Sessions -> {"none", "loop", "returned"}]
    BY DEF TaskStep, NewClientPanics, HandshakeFails, HandshakeRefused, HandshakeOk,
           LoopEnds, clientVars, TypeOK
<1>2. PICK next \in {"panicked", "failed", "running", "ended"},
           what \in {"nothing", "channels", "error", "dropped"} :
        /\ stage' = [stage EXCEPT ![s] = next]
        /\ reported' = [reported EXCEPT ![s] = what]
        /\ \/ stage[s] = "handshake" /\ (next = "running" => connecting = s)
              /\ (connecting = s /\ what = "channels" => next = "running")
           \/ stage[s] = "running" /\ signalled[s] # "held" /\ what = reported[s]
              /\ next = "ended"
    <2>1. CASE NewClientPanics(s)
        BY <2>1 DEF NewClientPanics
    <2>2. CASE HandshakeFails(s)
        BY <2>2 DEF HandshakeFails, Report, TypeOK
    <2>3. CASE HandshakeRefused(s)
        BY <2>3 DEF HandshakeRefused, Report, TypeOK
    <2>4. CASE HandshakeOk(s)
        BY <2>4 DEF HandshakeOk, Report, TypeOK
    <2>5. CASE LoopEnds(s)
        BY <2>5 DEF LoopEnds, ShutdownReady, TypeOK
    <2> QED BY <2>1, <2>2, <2>3, <2>4, <2>5 DEF TaskStep
<1>3. TypeOK'
    BY <1>1, <1>2 DEF TypeOK
<1>4. OpenedInv'
    BY <1>1, <1>2 DEF OpenedInv, TypeOK
<1>5. ConnectingInv'
    BY <1>1, <1>2 DEF ConnectingInv, TypeOK
<1>6. FieldsInv'
    BY <1>1, <1>2 DEF FieldsInv, TypeOK
<1>7. NoOrphanSession'
    BY <1>1, <1>2 DEF NoOrphanSession, TypeOK
<1> QED BY <1>3, <1>4, <1>5, <1>6, <1>7

LEMMA NextLifecycle == LifecycleInv /\ [Next]_vars => LifecycleInv'
PROOF
<1> SUFFICES ASSUME LifecycleInv, [Next]_vars PROVE LifecycleInv'
    OBVIOUS
<1>1. CASE UNCHANGED vars
    BY <1>1 DEF vars, clientVars, taskVars, LifecycleInv, TypeOK, OpenedInv, ConnectingInv,
                 FieldsInv, NoOrphanSession
<1>2. ASSUME NEW s \in Sessions, StreamLost(s) PROVE LifecycleInv'
    BY <1>2 DEF StreamLost, clientVars, LifecycleInv, TypeOK, OpenedInv, ConnectingInv,
                 FieldsInv, NoOrphanSession
<1> QED BY <1>1, <1>2, ConnectLifecycle, SignalLifecycle, TaskLifecycle DEF Next

(* The invariant of the life cycle: besides the two properties below, which  *)
(* sessions exist, what their tasks have reported to connect(), and where    *)
(* the client keeps their shutdown senders. *)
THEOREM LifecycleInvariant == Spec => []LifecycleInv
PROOF BY InitLifecycle, NextLifecycle, PTL DEF Spec

(* Every session whose loop has not been told to end can still be told. *)
THEOREM SessionsReachable == Spec => []NoOrphanSession
PROOF
<1>1. LifecycleInv => NoOrphanSession
    BY DEF LifecycleInv
<1> QED BY InitLifecycle, NextLifecycle, <1>1, PTL DEF Spec

(* Only disconnect() leaves a request channel on which calls panic. *)
THEOREM ChannelAlive == Spec => []DeadChannelOnlyAfterDisconnect
PROOF
<1>1. LifecycleInv => DeadChannelOnlyAfterDisconnect
    BY DEF LifecycleInv, FieldsInv, DeadChannelOnlyAfterDisconnect
<1> QED BY InitLifecycle, NextLifecycle, <1>1, PTL DEF Spec
=============================================================================
