-------------------------- MODULE ClientLifecycle --------------------------
(***************************************************************************)
(* connect(), disconnect() and drop of the generated client, the task that *)
(* connect() spawns to run Client::connect, and the server's side of the   *)
(* handshake (macros/src/lib.rs, src/client.rs, src/server.rs). Each call  *)
(* of connect() opens a session of its own; the client keeps the channels  *)
(* of the last one that succeeded.                                         *)
(***************************************************************************)
EXTENDS Integers

CONSTANTS MaxSessions    \* bound on calls of connect()

ASSUME MaxSessionsAssumption == MaxSessions \in Nat

Sessions == 1..MaxSessions
None == 0    \* Option::None, and no call of connect() under way

VARIABLES
    opened,        \* sessions opened so far
    connecting,    \* the session a pending connect() waits for
    shutdown,      \* field: whose shutdown sender the client holds
    rpc_tx,        \* field: whose request channel the client holds
    alive,         \* the client has not been dropped
    stage,         \* the spawned task of each session
    reported,      \* what it has put into connect()'s oneshot channels
    signalled,     \* what became of its shutdown sender
    broken,        \* sessions whose loop runs on a stream that has ended
    server         \* the server's task for each session

clientVars == <<opened, connecting, shutdown, rpc_tx, alive>>
taskVars == <<stage, reported, broken, server>>
vars == <<clientVars, taskVars, signalled>>

Init ==
    /\ opened = 0
    /\ connecting = None
    /\ shutdown = None
    /\ rpc_tx = None
    /\ alive = TRUE
    /\ stage = [s \in Sessions |-> "none"]
    /\ reported = [s \in Sessions |-> "nothing"]
    /\ signalled = [s \in Sessions |-> "held"]
    /\ broken = {}
    /\ server = [s \in Sessions |-> "none"]

-----------------------------------------------------------------------------
(* The generated client. Its methods borrow it: connect(), disconnect() and *)
(* drop exclude one another. *)

(* connect(): make the channels, spawn the task, wait in select!. *)
Connect ==
    /\ alive
    /\ connecting = None
    /\ opened < MaxSessions
    /\ opened' = opened + 1
    /\ connecting' = opened + 1
    /\ stage' = [stage EXCEPT ![opened + 1] = "handshake"]
    /\ UNCHANGED <<shutdown, rpc_tx, alive, reported, signalled, broken, server>>

(* The shutdown sender of session s, if any, is used or dropped. *)
Signal(s, how) ==
    signalled' = [t \in Sessions |-> IF t = s THEN how ELSE signalled[t]]

(* Mutant: the new shutdown sender is not kept. *)
ConnectForgetsShutdown ==
    /\ connecting # None
    /\ reported[connecting] = "channels"
    /\ rpc_tx' = connecting
    /\ connecting' = None
    /\ UNCHANGED <<opened, shutdown, alive, taskVars, signalled>>

(* connect() returns Ok: the channels of an earlier session are replaced,   *)
(* which drops its shutdown sender. *)
ConnectOk ==
    /\ connecting # None
    /\ reported[connecting] = "channels"
    /\ Signal(shutdown, "dropped")
    /\ shutdown' = connecting
    /\ rpc_tx' = connecting
    /\ connecting' = None
    /\ UNCHANGED <<opened, alive, taskVars>>

(* Mutant: a failed connect() shuts the earlier session down. *)
ConnectErrEndsOld ==
    /\ connecting # None
    /\ reported[connecting] = "error"
    /\ Signal(shutdown, "sent")
    /\ connecting' = None
    /\ UNCHANGED <<opened, shutdown, rpc_tx, alive, taskVars>>

(* connect() returns the error of the task; an earlier session stays. *)
ConnectErr ==
    /\ connecting # None
    /\ reported[connecting] = "error"
    /\ Signal(connecting, "dropped")
    /\ connecting' = None
    /\ UNCHANGED <<opened, shutdown, rpc_tx, alive, taskVars>>

(* The application drops the future of connect() and with it the shutdown   *)
(* sender and the two receivers. *)
CancelConnect ==
    /\ connecting # None
    /\ Signal(connecting, "dropped")
    /\ connecting' = None
    /\ UNCHANGED <<opened, shutdown, rpc_tx, alive, taskVars>>

(* disconnect(): rpc_tx is kept. *)
Disconnect ==
    /\ alive
    /\ connecting = None
    /\ shutdown # None
    /\ Signal(shutdown, "sent")
    /\ shutdown' = None
    /\ UNCHANGED <<opened, connecting, rpc_tx, alive, taskVars>>

(* Drop disconnects, then the fields go. *)
DropClient ==
    /\ alive
    /\ connecting = None
    /\ alive' = FALSE
    /\ Signal(shutdown, "sent")
    /\ shutdown' = None
    /\ rpc_tx' = None
    /\ UNCHANGED <<opened, connecting, taskVars>>

(* The task panicked before it could report: error_rx fails and e.unwrap()   *)
(* panics in connect(). *)
ConnectPanics ==
    /\ connecting # None
    /\ reported[connecting] = "dropped"
    /\ Signal(connecting, "dropped")
    /\ connecting' = None
    /\ UNCHANGED <<opened, shutdown, rpc_tx, alive, taskVars>>

-----------------------------------------------------------------------------
(* The spawned task and the server's task for its connection.              *)

(* The receiver in connect() is gone: the task panics on its oneshot        *)
(* (error_tx.send(..).unwrap(), panic! on the control channels). *)
Report(s, what, next) ==
    /\ reported' = [reported EXCEPT ![s] = IF connecting = s THEN what ELSE @]
    /\ stage' = [stage EXCEPT ![s] = IF connecting = s THEN next ELSE "panicked"]

(* Client::new cannot load the system's certificates (unwrap): both oneshot  *)
(* senders are dropped unused. *)
NewClientPanics(s) ==
    /\ stage[s] = "handshake"
    /\ stage' = [stage EXCEPT ![s] = "panicked"]
    /\ reported' = [reported EXCEPT ![s] = "dropped"]
    /\ UNCHANGED <<clientVars, signalled, broken, server>>

(* TCP, TLS or the upgrade fails: both tasks return, if there was a second. *)
HandshakeFails(s) ==
    /\ stage[s] = "handshake"
    /\ Report(s, "error", "failed")
    /\ \E end \in {"none", "returned"} : server' = [server EXCEPT ![s] = end]
    /\ UNCHANGED <<clientVars, signalled, broken>>

(* Mutant: the task ends without a word. *)
HandshakeRefusedSilently(s) ==
    /\ stage[s] = "handshake"
    /\ stage' = [stage EXCEPT ![s] = "failed"]
    /\ server' = [server EXCEPT ![s] = "loop"]
    /\ UNCHANGED <<clientVars, reported, signalled, broken>>

(* The versions differ: the server's callback sets the status to 400 but    *)
(* accepts the connection, so the server goes on to its loop; the client    *)
(* sees the status, or the missing protocol header, and gives up. *)
HandshakeRefused(s) ==
    /\ stage[s] = "handshake"
    /\ Report(s, "error", "failed")
    /\ server' = [server EXCEPT ![s] = "loop"]
    /\ UNCHANGED <<clientVars, signalled, broken>>

(* The versions agree: the task hands out the control channels and enters   *)
(* its loop. *)
HandshakeOk(s) ==
    /\ stage[s] = "handshake"
    /\ Report(s, "channels", "running")
    /\ server' = [server EXCEPT ![s] = "loop"]
    /\ UNCHANGED <<clientVars, signalled, broken>>

(* Mutant: only a signal that was sent ends the loop, not a dropped sender. *)
SentSignalOnly(s) == signalled[s] = "sent"

(* _ = &mut shutdown: the future is ready in either case. *)
ShutdownReady(s) == signalled[s] # "held"

(* The loop breaks and the stream is closed and dropped; the server's loop   *)
(* does not end. *)
LoopEnds(s) ==
    /\ stage[s] = "running"
    /\ ShutdownReady(s)
    /\ stage' = [stage EXCEPT ![s] = "ended"]
    /\ broken' = broken \ {s}
    /\ UNCHANGED <<clientVars, reported, signalled, server>>

(* The stream ends or breaks: stream.next() gives None or an error from now  *)
(* on. The loop only matches messages on it, so it goes on and waits for the *)
(* application; neither end is told. *)
StreamLost(s) ==
    /\ stage[s] = "running"
    /\ s \notin broken
    /\ broken' = broken \cup {s}
    /\ UNCHANGED <<clientVars, stage, reported, signalled, server>>

TaskStep(s) ==
    \/ NewClientPanics(s)
    \/ HandshakeFails(s) \/ HandshakeRefused(s) \/ HandshakeOk(s) \/ LoopEnds(s)

Next ==
    \/ Connect \/ ConnectOk \/ ConnectErr \/ ConnectPanics \/ CancelConnect
    \/ Disconnect \/ DropClient
    \/ \E s \in Sessions : TaskStep(s) \/ StreamLost(s)

Spec == Init /\ [][Next]_vars

(* Tokio polls the spawned tasks and a pending connect() that is ready, and *)
(* a handshake comes to an end. *)
Fairness ==
    /\ \A s \in Sessions : WF_vars(TaskStep(s))
    /\ WF_vars(ConnectOk \/ ConnectErr \/ ConnectPanics)

FairSpec == Spec /\ Fairness

-----------------------------------------------------------------------------
(* Every variable has its type. *)
TypeOK ==
    /\ opened \in 0..MaxSessions
    /\ connecting \in Sessions \cup {None}
    /\ shutdown \in Sessions \cup {None}
    /\ rpc_tx \in Sessions \cup {None}
    /\ alive \in BOOLEAN
    /\ stage \in [Sessions -> {"none", "handshake", "running", "ended",
                               "failed", "panicked"}]
    /\ reported \in [Sessions -> {"nothing", "channels", "error", "dropped"}]
    /\ signalled \in [Sessions -> {"held", "sent", "dropped"}]
    /\ broken \subseteq Sessions
    /\ server \in [Sessions -> {"none", "loop", "returned"}]

(* No session is forgotten: a loop that has not been told to end is the one  *)
(* the client can still tell, or the one connect() is about to return. *)
NoOrphanSession ==
    \A s \in Sessions :
        stage[s] = "running" /\ signalled[s] = "held" => s \in {shutdown, connecting}

(* A request channel whose loop was told to end, on which make_rpc_call      *)
(* panics, is only left behind by disconnect(), never by a reconnect, a      *)
(* failed connect() or a cancelled one. *)
DeadChannelOnlyAfterDisconnect ==
    rpc_tx # None /\ signalled[rpc_tx] # "held" => shutdown = None

-----------------------------------------------------------------------------
(* The inductive invariant, in parts. Sessions are opened in turn. *)
OpenedInv ==
    \A s \in Sessions : s > opened =>
        stage[s] = "none" /\ reported[s] = "nothing" /\ signalled[s] = "held"

(* connect() waits for the last session, whose sender it holds. *)
ConnectingInv ==
    connecting # None =>
        /\ connecting = opened /\ signalled[connecting] = "held"
        /\ reported[connecting] = "channels" => stage[connecting] = "running"
        /\ stage[connecting] = "handshake" => reported[connecting] = "nothing"

(* The client's two fields are of one session, whose sender is still held,   *)
(* or the sender has been used. *)
FieldsInv ==
    /\ rpc_tx # None => rpc_tx <= opened /\ rpc_tx # connecting
    /\ shutdown # None =>
         /\ shutdown = rpc_tx
         /\ signalled[shutdown] = "held" /\ stage[shutdown] = "running"

LifecycleInv == TypeOK /\ OpenedInv /\ ConnectingInv /\ FieldsInv /\ NoOrphanSession

-----------------------------------------------------------------------------
(* connect() returns, whatever the handshake comes to. *)
ConnectReturns == connecting # None ~> connecting = None

(* The loop of a session the client let go of ends, by whatever way it was   *)
(* let go: disconnect(), drop, a reconnect or a cancelled connect(). *)
SessionsEnd ==
    \A s \in Sessions :
        (stage[s] = "running" /\ s \notin {shutdown, connecting})
            ~> stage[s] = "ended"
=============================================================================
