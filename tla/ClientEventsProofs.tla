------------------------- MODULE ClientEventsProofs -------------------------
(***************************************************************************)
(* For every capacity of the broadcast channel and any number of sessions, *)
(* receivers and events: no event is lost without notice, and only         *)
(* disconnect() or a lost stream leaves a receiver that is never told      *)
(* anything again.                                                         *)
(***************************************************************************)
EXTENDS ClientEvents, ClientLifecycleProofs, QueueLemmas

LEMMA SessionIds == \A s \in Sessions : s \in Nat /\ s # None
PROOF BY MaxSessionsAssumption DEF Sessions, None

LEMMA NoReceiverType == NoReceiver \in Receiver /\ NoReceiver.on = None
PROOF BY DEF NoReceiver, Receiver

LEMMA EventsInitInv == EventsInit => EventsInv
PROOF
<1> SUFFICES ASSUME EventsInit PROVE EventsInv
    OBVIOUS
<1>1. LifecycleInv
    BY InitLifecycle DEF EventsInit
<1>2. EventsTypeOK
    BY NoReceiverType DEF EventsInit, EventsTypeOK
<1>3. \A r \in Receivers : rx[r] = NoReceiver
    BY DEF EventsInit
<1>4. SlotsHoldLast /\ GotSoFar /\ LossAccounted
    BY <1>3 DEF NoReceiver, SlotsHoldLast, GotSoFar, LossAccounted
<1>5. ChannelsInv
    BY <1>3 DEF EventsInit, Init, NoReceiver, ChannelsInv, events_tx
<1> QED BY <1>1, <1>2, <1>4, <1>5 DEF EventsInv

-----------------------------------------------------------------------------
(* Steps of the life cycle.                                                *)

LEMMA SignalChannels ==
    ASSUME EventsInv, UNCHANGED eventVars,
           \/ ConnectOk \/ ConnectErr \/ ConnectPanics \/ CancelConnect
           \/ Disconnect \/ DropClient
    PROVE  ChannelsInv'
PROOF
<1> USE DEF EventsInv, LifecycleInv
<1>1. PICK s \in Sessions \cup {None}, how \in {"sent", "dropped"} :
        /\ Signal(s, how) /\ UNCHANGED <<stage, rx>> /\ connecting' = None
        /\ \/ /\ connecting # None /\ reported[connecting] = "channels"
              /\ s = shutdown /\ rpc_tx' = connecting
           \/ s = connecting /\ rpc_tx' = rpc_tx
           \/ s = shutdown /\ how = "sent" /\ rpc_tx' \in {rpc_tx, None}
    <2>1. CASE ConnectOk
        BY <2>1 DEF ConnectOk, taskVars, TypeOK, eventVars
    <2>2. CASE ConnectErr
        BY <2>2 DEF ConnectErr, taskVars, TypeOK, eventVars
    <2>3. CASE ConnectPanics
        BY <2>3 DEF ConnectPanics, taskVars, TypeOK, eventVars
    <2>4. CASE CancelConnect
        BY <2>4 DEF CancelConnect, taskVars, TypeOK, eventVars
    <2>5. CASE Disconnect
        BY <2>5 DEF Disconnect, taskVars, TypeOK, eventVars
    <2>6. CASE DropClient
        BY <2>6 DEF DropClient, taskVars, TypeOK, eventVars
    <2> QED BY <2>1, <2>2, <2>3, <2>4, <2>5, <2>6
<1>2. \A t \in Sessions : signalled'[t] = IF t = s THEN how ELSE signalled[t]
    BY <1>1 DEF Signal
<1>3. rpc_tx \in Sessions \cup {None} /\ connecting \in Sessions \cup {None}
    BY DEF TypeOK
<1>4. \A t \in Sessions : stage'[t] = "ended" => signalled'[t] # "held"
    BY <1>1, <1>2 DEF ChannelsInv
<1>5. rpc_tx' # None => stage'[rpc_tx'] \in {"running", "ended"}
    BY <1>1, <1>3 DEF ChannelsInv, events_tx, ConnectingInv
<1>6. rpc_tx' # None => signalled'[rpc_tx'] \in {"held", "sent"}
    <2> SUFFICES ASSUME rpc_tx' # None PROVE signalled'[rpc_tx'] \in {"held", "sent"}
        OBVIOUS
    <2>1. rpc_tx' \in Sessions
        BY <1>1, <1>3
    <2>2. CASE rpc_tx' = connecting /\ s = shutdown /\ connecting # None
        BY <1>2, <2>1, <2>2 DEF ConnectingInv, FieldsInv
    <2>3. CASE s = connecting /\ rpc_tx' = rpc_tx
        BY <1>2, <2>1, <2>3 DEF ChannelsInv, events_tx, FieldsInv
    <2>4. CASE how = "sent" /\ rpc_tx' = rpc_tx
        BY <1>2, <2>1, <2>4 DEF ChannelsInv, events_tx
    <2> QED BY <1>1, <2>2, <2>3, <2>4
<1>7. \A r \in Receivers :
        rx'[r].on # None =>
            stage'[rx'[r].on] \in {"running", "ended"} /\ rx'[r].on # connecting'
    BY <1>1 DEF ChannelsInv
<1> QED BY <1>4, <1>5, <1>6, <1>7 DEF ChannelsInv, events_tx

LEMMA TaskChannels ==
    ASSUME EventsInv, UNCHANGED eventVars,
           Connect \/ \E s \in Sessions : TaskStep(s) \/ StreamLost(s)
    PROVE  ChannelsInv'
PROOF
<1> USE DEF EventsInv, LifecycleInv
<1>1. UNCHANGED <<rpc_tx, signalled, rx>>
    BY DEF Connect, TaskStep, NewClientPanics, HandshakeFails, HandshakeRefused,
           HandshakeOk, LoopEnds, StreamLost, clientVars, eventVars
<1>2. \A t \in Sessions :
        /\ stage[t] \in {"running", "ended"} => stage'[t] \in {"running", "ended"}
        /\ stage'[t] = "ended" => stage[t] = "ended" \/ signalled[t] # "held"
    <2>1. CASE Connect
        <3>1. stage' = [stage EXCEPT ![opened + 1] = "handshake"]
            BY <2>1 DEF Connect
        <3>2. opened + 1 \in Sessions => stage[opened + 1] = "none"
            BY MaxSessionsAssumption DEF TypeOK, OpenedInv, Sessions
        <3> QED BY <3>1, <3>2 DEF TypeOK
    <2>2. ASSUME NEW s \in Sessions, TaskStep(s)
          PROVE  \E next \in {"panicked", "failed", "running", "ended"} :
                   /\ stage' = [stage EXCEPT ![s] = next]
                   /\ \/ stage[s] = "handshake" /\ next # "ended"
                      \/ stage[s] = "running" /\ signalled[s] # "held" /\ next = "ended"
        BY <2>2 DEF TaskStep, NewClientPanics, HandshakeFails, HandshakeRefused,
                    HandshakeOk, LoopEnds, ShutdownReady, Report
    <2>3. ASSUME NEW s \in Sessions, TaskStep(s), NEW t \in Sessions
          PROVE  /\ stage[t] \in {"running", "ended"} => stage'[t] \in {"running", "ended"}
                 /\ stage'[t] = "ended" => stage[t] = "ended" \/ signalled[t] # "held"
        BY <2>2, <2>3 DEF TypeOK
    <2>4. ASSUME NEW s \in Sessions, StreamLost(s) PROVE stage' = stage
        BY <2>4 DEF StreamLost
    <2> QED BY <2>1, <2>3, <2>4
<1>3. \A r \in Receivers : rx[r].on \in Sessions \cup {None}
    BY DEF EventsTypeOK, Receiver
<1>4. \A r \in Receivers : rx[r].on # None => rx[r].on # connecting'
    <2>1. CASE Connect
        <3>1. connecting' = opened + 1
            BY <2>1 DEF Connect
        <3>2. opened + 1 \in Sessions => stage[opened + 1] = "none"
            BY MaxSessionsAssumption DEF TypeOK, OpenedInv, Sessions
        <3> QED BY <1>3, <3>1, <3>2 DEF ChannelsInv
    <2>2. ASSUME NEW s \in Sessions, TaskStep(s) \/ StreamLost(s)
          PROVE  connecting' = connecting
        BY <2>2 DEF TaskStep, NewClientPanics, HandshakeFails, HandshakeRefused,
                    HandshakeOk, LoopEnds, StreamLost, clientVars
    <2> QED BY <2>1, <2>2 DEF ChannelsInv
<1> QED BY <1>1, <1>2, <1>3, <1>4 DEF ChannelsInv, events_tx, TypeOK

LEMMA LifecycleEvents ==
    ASSUME EventsInv, Next, UNCHANGED eventVars
    PROVE  EventsInv'
PROOF
<1>1. LifecycleInv'
    BY NextLifecycle DEF EventsInv
<1>2. UNCHANGED <<arrived, slots, rx>>
    BY DEF eventVars
<1>3. EventsTypeOK' /\ SlotsHoldLast' /\ GotSoFar' /\ LossAccounted'
    BY <1>2 DEF EventsInv, EventsTypeOK, SlotsHoldLast, GotSoFar, LossAccounted
<1>4. ChannelsInv'
    BY SignalChannels, TaskChannels DEF Next
<1> QED BY <1>1, <1>3, <1>4 DEF EventsInv

-----------------------------------------------------------------------------
(* One receiver and its channel: the receiver's fields, the number a of      *)
(* events of the session and the channel q.                                *)

Accounted(before, got, missed, behind, a, q) ==
    /\ \A i \in DOMAIN got : got[i] <= before + Len(got) + missed
    /\ before + Len(got) + missed + behind = a
    /\ \A i, j \in DOMAIN got : i < j => got[i] < got[j]
    /\ HoldsLast(q, a, behind)

LEMMA AccountedFresh ==
    ASSUME NEW a \in Nat, NEW q \in Seq(Nat)
    PROVE  Accounted(a, <<>>, 0, 0, a, q)
PROOF
<1>1. Len(q) \in Nat
    BY LenProperties
<1>2. HoldsLast(q, a, 0)
    BY <1>1 DEF HoldsLast
<1> QED BY <1>2 DEF Accounted

(* If the slots a receiver has not read hold the last events, so they do     *)
(* after one more, whether or not the channel was full. *)
LEMMA BroadcastKeepsLast ==
    ASSUME NEW q \in Seq(Nat), NEW a \in Nat, NEW b \in Nat, HoldsLast(q, a, b)
    PROVE  Broadcast(q, a + 1) \in Seq(Nat) /\ HoldsLast(Broadcast(q, a + 1), a + 1, b + 1)
PROOF
<1> DEFINE e == a + 1
           p == Broadcast(q, e)
           n == Len(q)
<1>1. n \in Nat /\ e \in Nat
    BY LenProperties
<1> HIDE DEF e
<1>2. CASE n < Cap
    <2>1. p = Append(q, e)
        BY <1>2 DEF Broadcast
    <2> HIDE DEF p
    <2>2. /\ p \in Seq(Nat) /\ Len(p) = n + 1 /\ p[n + 1] = e
          /\ \A i \in 1..n : p[i] = q[i]
        BY <1>1, <2>1, AppendProperties
    <2>3. ASSUME NEW i \in 1..(n + 1), i > (n + 1) - (b + 1)
          PROVE  p[i] = e - ((n + 1) - i)
        <3>1. CASE i = n + 1
            BY <1>1, <2>2, <3>1
        <3>2. CASE i \in 1..n
            <4> HIDE DEF n
            <4>3. p[i] = q[i]
                BY <2>2, <3>2
            <4>4. i > n - b
                BY <1>1, <2>3, <3>2
            <4>1. p[i] = q[i] /\ i > n - b
                BY <4>3, <4>4
            <4>2. q[i] = a - (n - i)
                BY <3>2, <4>1 DEF HoldsLast, n
            <4> QED BY <1>1, <3>2, <4>1, <4>2 DEF e
        <3> QED BY <1>1, <3>1, <3>2
    <2> HIDE DEF n
    <2>4. HoldsLast(p, e, b + 1)
        <3> DEFINE k == n + 1
        <3>1. Len(p) = k
            BY <2>2
        <3>2. \A i \in 1..k : i > k - (b + 1) => p[i] = e - (k - i)
            BY <2>3
        <3> HIDE DEF k
        <3> QED BY <3>1, <3>2 DEF HoldsLast
    <2> QED BY <2>2, <2>4 DEF p, e
<1>3. CASE ~(n < Cap)
    <2>1. n \in Nat \ {0} /\ q # <<>>
        BY <1>1, <1>3, CapAssumption, EmptySeq
    <2>2. /\ Tail(q) \in Seq(Nat) /\ Len(Tail(q)) = n - 1
          /\ \A i \in 1..(n - 1) : Tail(q)[i] = q[i + 1]
        BY <2>1, HeadTailProperties
    <2>3. p = Append(Tail(q), e)
        BY <1>3 DEF Broadcast
    <2> HIDE DEF p
    <2>4. /\ p \in Seq(Nat) /\ Len(p) = n /\ p[n] = e
          /\ \A i \in 1..(n - 1) : p[i] = q[i + 1]
        <3> HIDE DEF n
        <3>1. /\ p \in Seq(Nat) /\ Len(p) = Len(Tail(q)) + 1 /\ p[Len(Tail(q)) + 1] = e
              /\ \A i \in 1..Len(Tail(q)) : p[i] = Tail(q)[i]
            BY <1>1, <2>2, <2>3, AppendProperties
        <3>2. Len(Tail(q)) + 1 = n
            BY <2>1, <2>2
        <3> QED BY <2>2, <3>1, <3>2
    <2>5. ASSUME NEW i \in 1..n, i > n - (b + 1)
          PROVE  p[i] = e - (n - i)
        <3>1. CASE i = n
            BY <1>1, <2>4, <3>1
        <3>2. CASE i \in 1..(n - 1)
            <4>1. p[i] = q[i + 1] /\ i + 1 \in 1..n /\ i + 1 > n - b
                BY <1>1, <2>4, <2>5, <3>2
            <4>2. q[i + 1] = a - (n - (i + 1))
                BY <4>1 DEF HoldsLast
            <4> QED BY <1>1, <4>1, <4>2 DEF e
        <3> QED BY <1>1, <3>1, <3>2
    <2> HIDE DEF n
    <2>6. HoldsLast(p, e, b + 1)
        BY <2>4, <2>5 DEF HoldsLast
    <2> QED BY <2>4, <2>6 DEF p, e
<1> QED BY <1>2, <1>3

(* NewEvent, seen by a receiver. *)
LEMMA AccountedNew ==
    ASSUME NEW before \in Nat, NEW got \in Seq(Nat), NEW missed \in Nat,
           NEW behind \in Nat, NEW a \in Nat, NEW q \in Seq(Nat),
           Accounted(before, got, missed, behind, a, q)
    PROVE  Accounted(before, got, missed, behind + 1, a + 1, Broadcast(q, a + 1))
PROOF
<1>1. Len(got) \in Nat
    BY LenProperties
<1>2. before + Len(got) + missed + (behind + 1) = a + 1
    BY <1>1 DEF Accounted
<1>3. HoldsLast(Broadcast(q, a + 1), a + 1, behind + 1)
    BY BroadcastKeepsLast DEF Accounted
<1>4. /\ \A i \in DOMAIN got : got[i] <= before + Len(got) + missed
      /\ \A i, j \in DOMAIN got : i < j => got[i] < got[j]
    BY DEF Accounted
<1> QED BY <1>2, <1>3, <1>4 DEF Accounted

(* recv() that returns Lagged. *)
LEMMA AccountedLagged ==
    ASSUME NEW before \in Nat, NEW got \in Seq(Nat), NEW missed \in Nat,
           NEW behind \in Nat, NEW a \in Nat, NEW q \in Seq(Nat),
           Accounted(before, got, missed, behind, a, q), behind > Len(q)
    PROVE  /\ missed + behind - Len(q) \in Nat
           /\ Accounted(before, got, missed + behind - Len(q), Len(q), a, q)
PROOF
<1> DEFINE L == Len(got)
           n == Len(q)
           m == missed + behind - n
<1>1. L \in Nat /\ n \in Nat /\ DOMAIN got = 1..L /\ \A i \in 1..L : got[i] \in Nat
    BY LenProperties, ElementOfSeq
<1>2. /\ \A i \in DOMAIN got : got[i] <= before + L + missed
      /\ before + L + missed + behind = a
      /\ \A i, j \in DOMAIN got : i < j => got[i] < got[j]
      /\ \A i \in 1..n : i > n - behind => q[i] = a - (n - i)
    BY DEF Accounted, HoldsLast
<1> HIDE DEF L, n
<1>3. behind > n
    BY DEF n
<1>4. m \in Nat /\ m >= missed /\ before + L + m + n = a
    BY <1>1, <1>2, <1>3
<1> HIDE DEF m
<1>5. \A i \in DOMAIN got : got[i] <= before + L + m
    BY <1>1, <1>2, <1>4
<1>6. HoldsLast(q, a, n)
    <2>1. \A i \in 1..n : i > n - behind
        BY <1>1, <1>3
    <2> QED BY <1>2, <2>1 DEF HoldsLast, n
<1>7. Accounted(before, got, m, n, a, q)
    BY <1>2, <1>4, <1>5, <1>6 DEF Accounted, L
<1> QED BY <1>4, <1>7 DEF m, n

(* recv() that returns an event. *)
LEMMA AccountedGot ==
    ASSUME NEW before \in Nat, NEW got \in Seq(Nat), NEW missed \in Nat,
           NEW behind \in Nat, NEW a \in Nat, NEW q \in Seq(Nat),
           Accounted(before, got, missed, behind, a, q), behind \in 1..Len(q)
    PROVE  LET e == q[Len(q) - behind + 1]
           IN  /\ Append(got, e) \in Seq(Nat) /\ behind - 1 \in Nat
               /\ Accounted(before, Append(got, e), missed, behind - 1, a, q)
PROOF
<1> DEFINE L == Len(got)
           n == Len(q)
           p == before + L + missed
           e == q[n - behind + 1]
           new == Append(got, e)
<1>1. L \in Nat /\ n \in Nat /\ DOMAIN got = 1..L /\ \A i \in 1..L : got[i] \in Nat
    BY LenProperties, ElementOfSeq
<1>2. /\ \A i \in DOMAIN got : got[i] <= p
      /\ p + behind = a
      /\ \A i, j \in DOMAIN got : i < j => got[i] < got[j]
      /\ \A i \in 1..n : i > n - behind => q[i] = a - (n - i)
    BY DEF Accounted, HoldsLast
<1>3. p \in Nat
    BY <1>1
<1>4. behind \in 1..n
    OBVIOUS
<1> HIDE DEF L, n, p
<1>5. e = p + 1
    <2>1. n - behind + 1 \in 1..n /\ n - behind + 1 > n - behind
        BY <1>1, <1>4
    <2>2. q[n - behind + 1] = a - (n - (n - behind + 1))
        BY <1>2, <2>1
    <2> QED BY <1>1, <1>2, <1>3, <1>4, <2>2
<1>6. e \in Nat
    BY <1>3, <1>5
<1> HIDE DEF e
<1>7. /\ new \in Seq(Nat) /\ Len(new) = L + 1 /\ new[L + 1] = e
      /\ \A i \in 1..L : new[i] = got[i]
    BY <1>6, AppendProperties DEF L
<1>8. DOMAIN new = 1..(L + 1)
    BY <1>7, LenProperties
<1> HIDE DEF new
<1>9. before + Len(new) + missed = p + 1
    BY <1>1, <1>7 DEF p
<1>10. \A i \in DOMAIN new : new[i] <= p + 1
    <2> SUFFICES ASSUME NEW i \in 1..(L + 1) PROVE new[i] <= p + 1
        BY <1>8
    <2>1. CASE i = L + 1
        BY <1>3, <1>5, <1>7, <2>1
    <2>2. CASE i \in 1..L
        <3>1. new[i] = got[i] /\ got[i] \in Nat /\ got[i] <= p
            BY <1>1, <1>2, <1>7, <2>2
        <3> QED BY <1>3, <3>1
    <2> QED BY <1>1, <2>1, <2>2
<1>11. p + 1 + (behind - 1) = a /\ behind - 1 \in Nat
    BY <1>1, <1>2, <1>3, <1>4
<1>12. ASSUME NEW i \in 1..(L + 1), NEW j \in 1..(L + 1), i < j
       PROVE  new[i] < new[j]
    <2>1. i \in 1..L
        BY <1>1, <1>12
    <2>2. CASE j = L + 1
        <3>1. new[i] = got[i] /\ got[i] <= p /\ got[i] \in Nat
            BY <1>1, <1>2, <1>7, <2>1
        <3>2. new[j] = p + 1
            BY <1>5, <1>7, <2>2
        <3> QED BY <1>3, <3>1, <3>2
    <2>3. CASE j \in 1..L
        <3>1. new[i] = got[i] /\ new[j] = got[j]
            BY <1>7, <2>1, <2>3
        <3>2. got[i] < got[j]
            BY <1>1, <1>2, <1>12, <2>1, <2>3
        <3> QED BY <3>1, <3>2
    <2> QED BY <1>1, <2>2, <2>3
<1>13. HoldsLast(q, a, behind - 1)
    <2>1. \A i \in 1..n : i > n - (behind - 1) => i > n - behind
        BY <1>1, <1>4
    <2> QED BY <1>2, <2>1 DEF HoldsLast, n
<1>14. Accounted(before, new, missed, behind - 1, a, q)
    BY <1>8, <1>9, <1>10, <1>11, <1>12, <1>13 DEF Accounted
<1> QED BY <1>7, <1>11, <1>14 DEF new, e, n

-----------------------------------------------------------------------------
(* Steps of the receivers.                                                 *)

LEMMA ReceiverFields ==
    ASSUME NEW x \in Receiver
    PROVE  /\ x.on \in Sessions \cup {None} /\ x.behind \in Nat /\ x.before \in Nat
           /\ x.got \in Seq(Nat) /\ x.missed \in Nat
PROOF BY DEF Receiver

ReceiverInv(r) ==
    /\ \A i \in DOMAIN rx[r].got :
         rx[r].got[i] <= rx[r].before + Len(rx[r].got) + rx[r].missed
    /\ rx[r].on # None =>
         /\ Accounted(rx[r].before, rx[r].got, rx[r].missed, rx[r].behind,
                      arrived[rx[r].on], slots[rx[r].on])
         /\ stage[rx[r].on] \in {"running", "ended"} /\ rx[r].on # connecting

LEMMA InvOfReceiver ==
    ASSUME EventsInv, NEW r \in Receivers
    PROVE  ReceiverInv(r)
PROOF BY DEF EventsInv, GotSoFar, LossAccounted, SlotsHoldLast, ChannelsInv,
             ReceiverInv, Accounted

(* A step that leaves the life cycle alone has only the receivers to keep. *)
LEMMA ReceiversKept ==
    ASSUME EventsInv, UNCHANGED vars, EventsTypeOK', \A r \in Receivers : ReceiverInv(r)'
    PROVE  EventsInv'
PROOF
<1>1. UNCHANGED <<opened, connecting, shutdown, rpc_tx, alive, stage, reported, signalled,
                  broken, server>>
    BY DEF vars, clientVars, taskVars
<1>2. LifecycleInv'
    BY NextLifecycle DEF EventsInv
<1>3. ChannelsInv'
    BY <1>1 DEF EventsInv, ChannelsInv, events_tx, ReceiverInv
<1>4. SlotsHoldLast' /\ GotSoFar'
    BY DEF SlotsHoldLast, GotSoFar, ReceiverInv, Accounted
<1>5. LossAccounted'
    <2>1. ASSUME NEW r \in Receivers, rx'[r].on # None
          PROVE  LET x == rx'[r]
                     n == Len(slots'[x.on])
                     position == x.before + Len(x.got) + x.missed
                 IN  /\ position + x.behind = arrived'[x.on]
                     /\ x.behind \in 1..n => slots'[x.on][n - x.behind + 1] = position + 1
                     /\ \A i, j \in DOMAIN x.got : i < j => x.got[i] < x.got[j]
        <3> DEFINE x == rx'[r]
                   q == slots'[x.on]
                   a == arrived'[x.on]
                   b == x.behind
                   p == x.before + Len(x.got) + x.missed
        <3>1. /\ p + b = a /\ HoldsLast(q, a, b)
              /\ \A i, j \in DOMAIN x.got : i < j => x.got[i] < x.got[j]
            BY <2>1 DEF ReceiverInv, Accounted
        <3>2. /\ x.on \in Sessions /\ b \in Nat /\ x.before \in Nat
              /\ x.missed \in Nat /\ x.got \in Seq(Nat)
            <4>1. x \in Receiver
                BY DEF EventsTypeOK
            <4> QED BY <2>1, <4>1, ReceiverFields
        <3>3. q \in Seq(Nat) /\ a \in Nat
            BY <3>2 DEF EventsTypeOK
        <3>4. Len(x.got) \in Nat /\ Len(q) \in Nat
            BY <3>2, <3>3, LenProperties
        <3> HIDE DEF x
        <3>5. p \in Nat
            BY <3>2, <3>4
        <3> HIDE DEF q, a, b, p
        <3>6. ASSUME b \in 1..Len(q) PROVE q[Len(q) - b + 1] = p + 1
            <4>1. Len(q) - b + 1 \in 1..Len(q) /\ Len(q) - b + 1 > Len(q) - b
                BY <3>4, <3>6
            <4>2. q[Len(q) - b + 1] = a - (Len(q) - (Len(q) - b + 1))
                BY <3>1, <4>1 DEF HoldsLast
            <4> QED BY <3>1, <3>2, <3>4, <3>5, <4>2
        <3> QED BY <3>1, <3>6 DEF x, q, a, b, p
    <2> QED BY <2>1, Zenon DEF LossAccounted
<1> QED BY <1>2, <1>3, <1>4, <1>5 DEF EventsInv

(* One receiver changes. *)
LEMMA OneReceiver ==
    ASSUME EventsInv, NEW r \in Receivers, NEW x \in Receiver,
           rx' = [rx EXCEPT ![r] = x], UNCHANGED <<vars, arrived, slots>>,
           \/ x = NoReceiver
           \/ /\ x.on # None /\ stage[x.on] \in {"running", "ended"}
              /\ x.on # connecting
              /\ Accounted(x.before, x.got, x.missed, x.behind, arrived[x.on], slots[x.on])
    PROVE  EventsInv'
PROOF
<1>1. /\ rx \in [Receivers -> Receiver] /\ EventsTypeOK' /\ stage' = stage
      /\ connecting' = connecting
    BY DEF EventsInv, EventsTypeOK, vars, taskVars, clientVars
<1>2. ASSUME NEW u \in Receivers PROVE ReceiverInv(u)'
    <2>1. CASE u # r
        <3>1. rx'[u] = rx[u]
            BY <1>1, <2>1
        <3> QED BY <1>1, <3>1, InvOfReceiver DEF ReceiverInv
    <2>2. CASE u = r
        <3>1. rx'[u] = x
            BY <1>1, <2>2
        <3>2. CASE x = NoReceiver
            BY <3>1, <3>2 DEF ReceiverInv, NoReceiver
        <3>3. CASE x # NoReceiver
            <4>1. \A i \in DOMAIN x.got : x.got[i] <= x.before + Len(x.got) + x.missed
                BY <3>3 DEF Accounted
            <4> QED BY <1>1, <3>1, <3>3, <4>1 DEF ReceiverInv
        <3> QED BY <3>2, <3>3
    <2> QED BY <2>1, <2>2
<1> QED BY <1>1, <1>2, ReceiversKept

LEMMA SubscribeEvents ==
    ASSUME EventsInv, NEW r \in Receivers, Subscribe(r) \/ DropReceiver(r)
    PROVE  EventsInv'
PROOF
<1>1. CASE DropReceiver(r)
    BY <1>1, NoReceiverType, OneReceiver DEF DropReceiver
<1>2. CASE Subscribe(r)
    <2> DEFINE s == events_tx
               x == [NoReceiver EXCEPT !.on = s, !.before = arrived[s]]
    <2>1. /\ s # None /\ rx' = [rx EXCEPT ![r] = x] /\ UNCHANGED <<vars, arrived, slots>>
          /\ connecting = None
        BY <1>2 DEF Subscribe
    <2>2. s \in Sessions /\ stage[s] \in {"running", "ended"} /\ s # connecting
        BY <2>1 DEF EventsInv, LifecycleInv, TypeOK, ChannelsInv, events_tx
    <2>3. arrived[s] \in Nat /\ slots[s] \in Seq(Nat)
        BY <2>2 DEF EventsInv, EventsTypeOK
    <2> HIDE DEF s
    <2>4. /\ NoReceiver \in Receiver /\ NoReceiver.behind = 0 /\ NoReceiver.got = <<>>
          /\ NoReceiver.missed = 0
        BY NoReceiverType DEF NoReceiver
    <2>5. /\ x.on = s /\ x.before = arrived[s] /\ x.behind = 0 /\ x.got = <<>>
          /\ x.missed = 0 /\ x \in Receiver
        BY <2>2, <2>3, <2>4 DEF Receiver
    <2> HIDE DEF x
    <2>6. Accounted(arrived[s], <<>>, 0, 0, arrived[s], slots[s])
        BY <2>3, AccountedFresh
    <2> QED BY <2>1, <2>2, <2>5, <2>6, OneReceiver
<1> QED BY <1>1, <1>2

LEMMA RecvEvents ==
    ASSUME EventsInv, NEW r \in Receivers, Recv(r)
    PROVE  EventsInv'
PROOF
<1> DEFINE old == rx[r]
           s == old.on
           b == old.behind
           q == slots[s]
           n == Len(q)
           e == q[n - b + 1]
           lagged == [old EXCEPT !.behind = n, !.missed = @ + b - n]
           given == [old EXCEPT !.behind = @ - 1, !.got = Append(@, e)]
<1>1. rx \in [Receivers -> Receiver] /\ old \in Receiver
    BY DEF EventsInv, EventsTypeOK
<1>2. s # None /\ UNCHANGED <<vars, arrived, slots>>
    BY DEF Recv
<1>3. \/ b > n /\ rx' = [rx EXCEPT ![r] = lagged]
      \/ b \in 1..n /\ rx' = [rx EXCEPT ![r] = given]
      \/ rx' = [rx EXCEPT ![r] = NoReceiver]
    BY <1>1 DEF Recv, Receiver
<1>4. /\ s \in Sessions /\ b \in Nat /\ old.before \in Nat /\ old.got \in Seq(Nat)
      /\ old.missed \in Nat
    BY <1>1, <1>2, ReceiverFields
<1>5. q \in Seq(Nat) /\ arrived[s] \in Nat
    BY <1>4 DEF EventsInv, EventsTypeOK
<1>6. /\ Accounted(old.before, old.got, old.missed, b, arrived[s], q)
      /\ stage[s] \in {"running", "ended"} /\ s # connecting
    BY <1>2, InvOfReceiver DEF ReceiverInv
<1>7. CASE rx' = [rx EXCEPT ![r] = NoReceiver]
    BY <1>2, <1>7, NoReceiverType, OneReceiver
<1>8. CASE b > n /\ rx' = [rx EXCEPT ![r] = lagged]
    <2>1. /\ lagged.on = s /\ lagged.before = old.before /\ lagged.got = old.got
          /\ lagged.behind = n /\ lagged.missed = old.missed + b - n
        BY <1>1 DEF Receiver
    <2>2. /\ old.missed + b - n \in Nat
          /\ Accounted(old.before, old.got, old.missed + b - n, n, arrived[s], q)
        BY <1>4, <1>5, <1>6, <1>8, AccountedLagged
    <2>3. n \in Nat
        BY <1>5, LenProperties
    <2>4. lagged \in Receiver
        BY <1>1, <2>2, <2>3 DEF Receiver
    <2> HIDE DEF lagged
    <2> QED BY <1>2, <1>6, <1>8, <2>1, <2>2, <2>4, OneReceiver
<1>9. CASE b \in 1..n /\ rx' = [rx EXCEPT ![r] = given]
    <2>1. /\ given.on = s /\ given.before = old.before /\ given.missed = old.missed
          /\ given.behind = b - 1 /\ given.got = Append(old.got, e)
        BY <1>1 DEF Receiver
    <2>2. /\ Append(old.got, e) \in Seq(Nat) /\ b - 1 \in Nat
          /\ Accounted(old.before, Append(old.got, e), old.missed, b - 1, arrived[s], q)
        BY <1>4, <1>5, <1>6, <1>9, AccountedGot
    <2>3. given \in Receiver
        BY <1>1, <2>2 DEF Receiver
    <2> HIDE DEF given
    <2> QED BY <1>2, <1>6, <1>9, <2>1, <2>2, <2>3, OneReceiver
<1> QED BY <1>3, <1>7, <1>8, <1>9

LEMMA OneBehind ==
    ASSUME NEW x \in Receiver, NEW y, y = [x EXCEPT !.behind = @ + 1]
    PROVE  /\ y \in Receiver /\ y.behind = x.behind + 1
           /\ y.on = x.on /\ y.before = x.before /\ y.got = x.got /\ y.missed = x.missed
PROOF BY DEF Receiver

LEMMA NewEventEvents ==
    ASSUME EventsInv, NEW s \in Sessions, NewEvent(s)
    PROVE  EventsInv'
PROOF
<1>1. /\ stage[s] = "running"
      /\ arrived' = [arrived EXCEPT ![s] = @ + 1]
      /\ IF \E r \in Receivers : rx[r].on = s
           THEN slots' = [slots EXCEPT ![s] = Broadcast(@, arrived'[s])]
           ELSE slots' = slots
      /\ rx' = [r \in Receivers |->
                  IF rx[r].on = s THEN [rx[r] EXCEPT !.behind = @ + 1] ELSE rx[r]]
      /\ UNCHANGED vars
    BY DEF NewEvent
<1>2. /\ arrived \in [Sessions -> Nat] /\ slots \in [Sessions -> Seq(Nat)]
      /\ rx \in [Receivers -> Receiver]
      /\ arrived[s] \in Nat /\ slots[s] \in Seq(Nat)
    BY DEF EventsInv, EventsTypeOK
<1>3. /\ arrived' \in [Sessions -> Nat] /\ arrived'[s] = arrived[s] + 1
      /\ \A t \in Sessions \ {s} : arrived'[t] = arrived[t]
    BY <1>1, <1>2
<1>4. /\ \A t \in Sessions \ {s} : slots'[t] = slots[t]
      /\ (\E r \in Receivers : rx[r].on = s) => slots'[s] = Broadcast(slots[s], arrived[s] + 1)
    BY <1>1, <1>2, <1>3
<1>5. ASSUME NEW r \in Receivers
      PROVE  /\ rx[r] \in Receiver /\ rx'[r] \in Receiver
             /\ rx'[r].on = rx[r].on /\ rx'[r].before = rx[r].before
             /\ rx'[r].got = rx[r].got /\ rx'[r].missed = rx[r].missed
             /\ rx'[r].behind = IF rx[r].on = s THEN rx[r].behind + 1 ELSE rx[r].behind
    <2>1. rx[r] \in Receiver
        BY <1>2
    <2>2. CASE rx[r].on = s
        <3>1. rx'[r] = [rx[r] EXCEPT !.behind = @ + 1]
            BY <1>1, <2>2
        <3> QED BY <2>1, <2>2, <3>1, OneBehind
    <2>3. CASE rx[r].on # s
        BY <1>1, <2>1, <2>3
    <2> QED BY <2>2, <2>3
<1>6. ASSUME NEW r \in Receivers, rx[r].on = s
      PROVE  Accounted(rx[r].before, rx[r].got, rx[r].missed, rx[r].behind, arrived[s], slots[s])
    BY <1>6, InvOfReceiver, SessionIds DEF ReceiverInv
<1>7. slots' \in [Sessions -> Seq(Nat)]
    <2>1. ASSUME NEW r \in Receivers, rx[r].on = s
          PROVE  slots'[s] \in Seq(Nat)
        <3>1. HoldsLast(slots[s], arrived[s], rx[r].behind)
            BY <1>6, <2>1 DEF Accounted
        <3>2. rx[r].behind \in Nat
            BY <1>5, ReceiverFields
        <3> QED BY <1>2, <1>4, <2>1, <3>1, <3>2, BroadcastKeepsLast
    <2>2. slots'[s] \in Seq(Nat)
        BY <1>1, <1>2, <2>1
    <2>3. DOMAIN slots' = Sessions /\ slots' = [t \in Sessions |-> slots'[t]]
        BY <1>1, <1>2
    <2> QED BY <1>2, <1>4, <2>2, <2>3
<1>8. ASSUME NEW r \in Receivers PROVE ReceiverInv(r)'
    <2>1. ReceiverInv(r) /\ stage' = stage /\ connecting' = connecting
        BY <1>1, InvOfReceiver DEF vars, taskVars, clientVars
    <2>2. /\ rx[r].on \in Sessions \cup {None} /\ rx[r].behind \in Nat
          /\ rx[r].before \in Nat /\ rx[r].got \in Seq(Nat) /\ rx[r].missed \in Nat
        BY <1>5, ReceiverFields
    <2>3. CASE rx[r].on = s
        <3>1. Accounted(rx[r].before, rx[r].got, rx[r].missed, rx[r].behind + 1,
                        arrived[s] + 1, Broadcast(slots[s], arrived[s] + 1))
            BY <1>2, <1>6, <2>2, <2>3, AccountedNew
        <3>2. /\ slots'[s] = Broadcast(slots[s], arrived[s] + 1)
              /\ arrived'[s] = arrived[s] + 1 /\ rx'[r].behind = rx[r].behind + 1
            BY <1>3, <1>4, <1>5, <2>3
        <3>3. Accounted(rx'[r].before, rx'[r].got, rx'[r].missed, rx'[r].behind,
                        arrived'[rx'[r].on], slots'[rx'[r].on])
            BY <1>5, <2>3, <3>1, <3>2
        <3> QED BY <1>1, <1>5, <2>1, <2>3, <3>3 DEF ReceiverInv
    <2>4. CASE rx[r].on # s
        <3>1. rx'[r].behind = rx[r].behind
            BY <1>5, <2>4
        <3>2. rx[r].on # None =>
                slots'[rx[r].on] = slots[rx[r].on] /\ arrived'[rx[r].on] = arrived[rx[r].on]
            BY <1>3, <1>4, <2>2, <2>4
        <3> QED BY <1>5, <2>1, <3>1, <3>2 DEF ReceiverInv
    <2> QED BY <2>3, <2>4
<1>9. EventsTypeOK'
    <2>1. rx' \in [Receivers -> Receiver]
        BY <1>1, <1>5
    <2> QED BY <1>3, <1>7, <2>1 DEF EventsTypeOK
<1> QED BY <1>1, <1>8, <1>9, ReceiversKept

-----------------------------------------------------------------------------
LEMMA EventsNextInv == EventsInv /\ [EventsNext]_allVars => EventsInv'
PROOF
<1> SUFFICES ASSUME EventsInv, [EventsNext]_allVars PROVE EventsInv'
    OBVIOUS
<1>1. CASE UNCHANGED allVars
    <2>1. UNCHANGED vars /\ UNCHANGED <<arrived, slots, rx, stage, connecting>>
        BY <1>1 DEF allVars, eventVars, vars, taskVars, clientVars
    <2>2. EventsTypeOK'
        BY <2>1 DEF EventsInv, EventsTypeOK
    <2>3. \A r \in Receivers : ReceiverInv(r)'
        BY <2>1, InvOfReceiver DEF ReceiverInv
    <2> QED BY <2>1, <2>2, <2>3, ReceiversKept
<1> QED BY <1>1, LifecycleEvents, NewEventEvents, SubscribeEvents, RecvEvents DEF EventsNext

LEMMA EventsInvariant == EventsSpec => []EventsInv
PROOF BY EventsInitInv, EventsNextInv, PTL DEF EventsSpec

(* Whatever the capacity of the broadcast channel, no receiver loses an      *)
(* event without being told how many it lost, and none out of order. *)
THEOREM NoSilentLoss == EventsSpec => []LossAccounted
PROOF
<1>1. EventsInv => LossAccounted
    BY DEF EventsInv
<1> QED BY <1>1, EventsInvariant, PTL

(* Only disconnect() and a lost stream leave receivers that wait for ever,   *)
(* and only those of the session whose sender the client still holds. *)
THEOREM DeafReceivers == EventsSpec => []DeafOnlyWhileHeld
PROOF
<1>1. EventsInv => DeafOnlyWhileHeld
    <2> SUFFICES ASSUME EventsInv, NEW r \in Receivers, rx[r].on # None, Deaf(rx[r].on)
                 PROVE  LET s == rx[r].on IN
                        /\ events_tx = s
                        /\ \/ /\ stage[s] = "ended" /\ signalled[s] = "sent"
                              /\ shutdown = None
                           \/ stage[s] = "running" /\ s \in broken /\ shutdown = s
        BY DEF DeafOnlyWhileHeld
    <2> DEFINE s == rx[r].on
    <2>1. s \in Sessions /\ stage[s] \in {"running", "ended"} /\ s # connecting
        BY DEF EventsInv, EventsTypeOK, Receiver, ChannelsInv
    <2>2. CASE stage[s] = "ended"
        <3>1. rpc_tx = s
            BY <2>2 DEF Deaf, Closed, events_tx
        <3>2. signalled[s] = "sent"
            BY <2>1, <2>2, <3>1 DEF EventsInv, ChannelsInv, events_tx
        <3> QED BY <2>2, <3>1, <3>2 DEF EventsInv, LifecycleInv, FieldsInv, events_tx
    <2>3. CASE stage[s] = "running"
        <3>1. s \in broken /\ signalled[s] = "held"
            BY <2>3 DEF Deaf, ShutdownReady
        <3>2. shutdown = s
            BY <2>1, <2>3, <3>1 DEF EventsInv, LifecycleInv, NoOrphanSession
        <3> QED BY <2>3, <3>1, <3>2 DEF EventsInv, LifecycleInv, FieldsInv, events_tx
    <2> QED BY <2>1, <2>2, <2>3
<1> QED BY <1>1, EventsInvariant, PTL
=============================================================================
