------------------------------- MODULE PubSub -------------------------------
(***************************************************************************)
(* What the event switch promises, without its queues, ids and select!s:   *)
(* published events are routed in the order of publication, each to the    *)
(* members its topic has then, of which at most one has joined or left     *)
(* since the publication, and every connection is given the events routed  *)
(* to it in that order, none twice and none left out. Connections may be   *)
(* gone, and may stop being given anything.                                *)
(***************************************************************************)
EXTENDS Integers, Sequences, Functions

CONSTANTS Conns, Topics

VARIABLES
    members,      \* topic -> the connections subscribed to it
    gone,         \* connections that have ended
    published,    \* every event: its topic and the members it then had
    audience,     \* the connections each routed event went to
    delivered     \* connection -> numbers of the events it was given

vars == <<members, gone, published, audience, delivered>>

Init ==
    /\ members = [t \in Topics |-> {}]
    /\ gone = {}
    /\ published = <<>>
    /\ audience = <<>>
    /\ delivered = [c \in Conns |-> <<>>]

Join(c, t) ==
    /\ members' = [members EXCEPT ![t] = @ \cup {c}]
    /\ UNCHANGED <<gone, published, audience, delivered>>

(* Members leave: one that unsubscribes, or all of them for good. *)
Leave ==
    /\ \A t \in Topics : members'[t] \subseteq members[t]
    /\ members' = [t \in Topics |-> members'[t]]
    /\ UNCHANGED <<gone, published, audience, delivered>>

End(c) ==
    /\ gone' = gone \cup {c}
    /\ UNCHANGED <<members, published, audience, delivered>>

Publish(t) ==
    /\ published' = Append(published, [topic |-> t, registered |-> members[t]])
    /\ UNCHANGED <<members, gone, audience, delivered>>

(* Has c joined or left the topic of event r since it was published? *)
Changed(c, r) == ~(c \in members[r.topic] <=> c \in r.registered)

(* The oldest event not yet routed goes to the members that are not gone;    *)
(* those that are gone cease to be members. *)
Route ==
    /\ Len(audience) < Len(published)
    /\ LET r == published[Len(audience) + 1]
       IN  /\ \A c, d \in Conns \ gone : Changed(c, r) /\ Changed(d, r) => c = d
           /\ audience' = Append(audience, members[r.topic] \ gone)
           /\ members' = [members EXCEPT ![r.topic] = @ \ gone]
    /\ UNCHANGED <<gone, published, delivered>>

(* The events c has to be given, of which the oldest is next. *)
Due(c) ==
    {e \in DOMAIN audience : c \in audience[e] /\ e \notin Range(delivered[c])}

Deliver(c) ==
    /\ \E e \in Due(c) :
         /\ \A d \in Due(c) : e <= d
         /\ delivered' = [delivered EXCEPT ![c] = Append(@, e)]
    /\ UNCHANGED <<members, gone, published, audience>>

Next ==
    \/ \E c \in Conns, t \in Topics : Join(c, t)
    \/ Leave
    \/ \E c \in Conns : End(c)
    \/ \E t \in Topics : Publish(t)
    \/ Route
    \/ \E c \in Conns : Deliver(c)

Spec == Init /\ [][Next]_vars
=============================================================================
