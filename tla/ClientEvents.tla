---------------------------- MODULE ClientEvents ----------------------------
(***************************************************************************)
(* Event delivery inside the client, on top of its life cycle: every       *)
(* session has a broadcast channel of its own, into which the client loop  *)
(* puts the events it reads from the stream, and subscribe() gives the     *)
(* application receivers of the channel of the last session that connected *)
(* (src/client.rs, macros/src/lib.rs). How tokio's broadcast channel loses *)
(* and closes is modelled from how the code uses it.                       *)
(*                                                                         *)
(* An event is its position in the order of arrival in its session.        *)
(***************************************************************************)
EXTENDS ClientLifecycle, Sequences, Functions

CONSTANTS
    Receivers,    \* receivers the application may hold
    Cap,          \* capacity of the broadcast channel (32)
    MaxEvents     \* bound on events, all sessions together

ASSUME CapAssumption == Cap \in Nat \ {0}
ASSUME MaxEventsAssumption == MaxEvents \in Nat

VARIABLES
    arrived,    \* session -> events the client loop has read
    slots,      \* session -> what its channel still holds, oldest first
    rx          \* the receivers: session, events not yet received, and as
                \* history arrivals before subscribe(), events received and
                \* events reported missing

eventVars == <<arrived, slots, rx>>
allVars == <<vars, eventVars>>

NoReceiver == [on |-> None, behind |-> 0, before |-> 0, got |-> <<>>, missed |-> 0]

EventsInit ==
    /\ Init
    /\ arrived = [s \in Sessions |-> 0]
    /\ slots = [s \in Sessions |-> <<>>]
    /\ rx = [r \in Receivers |-> NoReceiver]

-----------------------------------------------------------------------------
(* The field events_tx is set and dropped together with rpc_tx. *)
events_tx == rpc_tx

(* subscribe() on a client that has been connected; before that it returns  *)
(* ClientNotConnected and changes nothing. *)
Subscribe(r) ==
    /\ alive /\ connecting = None
    /\ events_tx # None
    /\ rx[r].on = None
    /\ rx' = [rx EXCEPT ![r] = [NoReceiver EXCEPT !.on = events_tx,
                                                  !.before = arrived[events_tx]]]
    /\ UNCHANGED <<vars, arrived, slots>>

DropReceiver(r) ==
    /\ rx[r].on # None
    /\ rx' = [rx EXCEPT ![r] = NoReceiver]
    /\ UNCHANGED <<vars, arrived, slots>>

(* Mutant: a full channel refuses the new event, as mpsc's try_send would. *)
KeepOldest(q, e) == IF Len(q) < Cap THEN Append(q, e) ELSE q

(* A full channel drops its oldest event. *)
Broadcast(q, e) == Append(IF Len(q) < Cap THEN q ELSE Tail(q), e)

WithinBound == FoldFunction(+, 0, arrived) < MaxEvents

(* NewEvent: the loop broadcasts the event; without receivers the send fails *)
(* and the event is forgotten. *)
NewEvent(s) ==
    /\ stage[s] = "running" /\ s \notin broken
    /\ WithinBound
    /\ arrived' = [arrived EXCEPT ![s] = @ + 1]
    /\ IF \E r \in Receivers : rx[r].on = s
         THEN slots' = [slots EXCEPT ![s] = Broadcast(@, arrived'[s])]
         ELSE UNCHANGED slots
    /\ rx' = [r \in Receivers |->
                IF rx[r].on = s THEN [rx[r] EXCEPT !.behind = @ + 1] ELSE rx[r]]
    /\ UNCHANGED vars

(* Both owners of the sender are gone: the Client of the spawned task, and   *)
(* the field of the generated client. *)
Closed(s) == stage[s] \notin {"handshake", "running"} /\ events_tx # s

(* recv(): the next event; Lagged(n) when the n next ones were dropped from  *)
(* the channel; Closed when nothing is left and nothing can come. *)
Recv(r) ==
    LET s == rx[r].on
        behind == rx[r].behind
        n == Len(slots[s])
    IN
    /\ s # None
    /\ \/ /\ behind > n
          /\ rx' = [rx EXCEPT ![r].behind = n, ![r].missed = @ + behind - n]
       \/ /\ behind \in 1..n
          /\ rx' = [rx EXCEPT ![r].behind = @ - 1,
                              ![r].got = Append(@, slots[s][n - behind + 1])]
       \/ /\ behind = 0 /\ Closed(s)
          /\ rx' = [rx EXCEPT ![r] = NoReceiver]
    /\ UNCHANGED <<vars, arrived, slots>>

EventsNext ==
    \/ Next /\ UNCHANGED eventVars
    \/ \E s \in Sessions : NewEvent(s)
    \/ \E r \in Receivers : Subscribe(r) \/ DropReceiver(r) \/ Recv(r)

(* In addition to the life cycle's fairness: the application's receiving     *)
(* tasks keep calling recv(). *)
EventsSpec ==
    /\ EventsInit /\ [][EventsNext]_allVars
    /\ Fairness
    /\ \A r \in Receivers : WF_allVars(Recv(r))

-----------------------------------------------------------------------------
(* Nothing is lost without notice: what a receiver was given, was told it     *)
(* missed and can still read is exactly what its session's loop read since   *)
(* subscribe(), and the two numbers tell which event comes next. *)
LossAccounted ==
    \A r \in Receivers :
        LET x == rx[r]
            n == Len(slots[x.on])
            position == x.before + Len(x.got) + x.missed
        IN  x.on # None =>
            /\ position + x.behind = arrived[x.on]
            /\ x.behind \in 1..n => slots[x.on][n - x.behind + 1] = position + 1
            /\ \A i, j \in DOMAIN x.got : i < j => x.got[i] < x.got[j]

(* Nothing comes any more on the channel of session s, and its loop is not   *)
(* about to end, but the channel stays open. *)
Deaf(s) ==
    /\ stage[s] = "running" => s \in broken /\ ~ShutdownReady(s)
    /\ ~Closed(s)

(* A receiver that is never given anything again, nor told so, is one of the *)
(* session the client still holds: after disconnect(), which keeps events_tx *)
(* (macros/src/lib.rs), or since its stream was lost, which the client loop  *)
(* does not act on (client.rs 271). A reconnect, a failed or cancelled       *)
(* connect() or a dropped client leaves none. *)
DeafOnlyWhileHeld ==
    \A r \in Receivers :
        LET s == rx[r].on IN
        s # None /\ Deaf(s) =>
            /\ events_tx = s
            /\ \/ stage[s] = "ended" /\ signalled[s] = "sent" /\ shutdown = None
               \/ stage[s] = "running" /\ s \in broken /\ shutdown = s

-----------------------------------------------------------------------------
(* The parts of the inductive invariant behind the two properties above.   *)

Receiver == [on : Sessions \cup {None}, behind : Nat, before : Nat,
             got : Seq(Nat), missed : Nat]

EventsTypeOK ==
    /\ arrived \in [Sessions -> Nat]
    /\ slots \in [Sessions -> Seq(Nat)]
    /\ rx \in [Receivers -> Receiver]

(* The last b events of a channel q are the last of the a events of its      *)
(* session, one after the other. *)
HoldsLast(q, a, b) == \A i \in 1..Len(q) : i > Len(q) - b => q[i] = a - (Len(q) - i)

(* The part of the channel that a receiver has not read is such. *)
SlotsHoldLast ==
    \A r \in Receivers :
        LET s == rx[r].on IN s # None => HoldsLast(slots[s], arrived[s], rx[r].behind)

(* A receiver was given no event from beyond its position. *)
GotSoFar ==
    \A r \in Receivers : \A i \in DOMAIN rx[r].got :
        rx[r].got[i] <= rx[r].before + Len(rx[r].got) + rx[r].missed

(* Receivers, and the client's field, are of a session whose loop was        *)
(* entered, receivers never of one connect() still waits for; a field's      *)
(* shutdown sender is dropped only with the field; a loop ends only on its   *)
(* signal. *)
ChannelsInv ==
    /\ \A r \in Receivers :
         rx[r].on # None =>
             stage[rx[r].on] \in {"running", "ended"} /\ rx[r].on # connecting
    /\ events_tx # None =>
         stage[events_tx] \in {"running", "ended"} /\ signalled[events_tx] \in {"held", "sent"}
    /\ \A s \in Sessions : stage[s] = "ended" => signalled[s] # "held"

EventsInv ==
    LifecycleInv /\ EventsTypeOK /\ SlotsHoldLast /\ GotSoFar /\ LossAccounted /\ ChannelsInv

-----------------------------------------------------------------------------
(* The receivers of a session the client has let go of, by a reconnect or by  *)
(* being dropped, are told that it is over, after the events still held. *)
ReceiversTold ==
    \A r \in Receivers :
        rx[r].on \notin {None, events_tx} ~> rx[r].on \in {None, events_tx}
=============================================================================
