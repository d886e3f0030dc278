----------------------------- MODULE StateSync -----------------------------
(***************************************************************************)
(* Connection state: the code #[connection_state] generates                *)
(* (macros/src/lib.rs) lets RPC handlers change the state under a lock,    *)
(* sends the changed fields from a spawned task when the lock guard is     *)
(* dropped, and applies them to the client's copy; the connection loop and *)
(* the client loop carry them (src/server.rs, src/client.rs).              *)
(*                                                                         *)
(* The value of a field stands for its serialized form; field indices are  *)
(* the positions of the fields, as in the generated code.                  *)
(***************************************************************************)
EXTENDS Integers, Sequences, Functions

CONSTANTS
    NumFields,    \* fields of the state struct
    Values,       \* values of a field
    Default,      \* Default::default() of a field
    UpdateCap,    \* capacity of the state update channel (10)
    MaxWrites,    \* bound on write guards taken
    Runtimes,     \* tokio runtimes the server may run on
    Faults        \* "Send": send_msg fails; "Decode": a field cannot be decoded

Fields == 1..NumFields

ASSUME NumFieldsAssumption == NumFields \in Nat \ {0}
ASSUME DefaultAssumption == Default \in Values
ASSUME UpdateCapAssumption == UpdateCap \in Nat \ {0}
ASSUME MaxWritesAssumption == MaxWrites \in Nat
ASSUME RuntimesAssumption == Runtimes \subseteq {"current_thread", "multi_thread"}
ASSUME StateFaultsAssumption == Faults \subseteq {"Send", "Decode"}

State == [Fields -> Values]
(* Vec<StateUpdate>: the changed fields with their new values. *)
Changes == UNION {[F -> Values] : F \in (SUBSET Fields) \ {{}}}

VARIABLES
    runtime,          \* the runtime of the server
    state,            \* server: the state behind StateController's lock
    guard,            \* server: is a StateGuard held?
    starting_state,   \* server: the guard's copy of the state
    sending,          \* server: spawned tasks that have not sent yet
    channel,          \* mpsc channel: tasks -> connection loop
    wire,             \* StateChange messages on the stream
    reading,          \* client: does the application hold a read guard?
    client_state,     \* client: its copy of the state
    versions,         \* history: the state at every dropped guard
    spoiled,          \* history: fields with a lost update, or with two
                      \* updates in the tasks of several threads at once
    writes            \* bound

serverVars == <<state, guard, starting_state, sending, versions, writes>>
clientVars == <<reading, client_state>>
vars == <<runtime, serverVars, channel, wire, clientVars, spoiled>>

Defaults == [f \in Fields |-> Default]

Init ==
    /\ runtime \in Runtimes
    /\ state = Defaults
    /\ guard = FALSE
    /\ starting_state = Defaults
    /\ sending = <<>>
    /\ channel = <<>>
    /\ wire = <<>>
    /\ reading = FALSE
    /\ client_state = Defaults
    /\ versions = <<Defaults>>
    /\ spoiled = {}
    /\ writes = 0

-----------------------------------------------------------------------------
(* RPC handlers.                                                           *)

(* StateController::write: wait for the lock, remember the state. *)
Write ==
    /\ ~guard
    /\ writes < MaxWrites
    /\ writes' = writes + 1
    /\ guard' = TRUE
    /\ starting_state' = state
    /\ UNCHANGED <<runtime, state, sending, versions, spoiled, channel, wire,
                   clientVars>>

(* An assignment through DerefMut; awaits may come between two of them. *)
Assign(f, v) ==
    /\ guard
    /\ v # state[f]
    /\ state' = [state EXCEPT ![f] = v]
    /\ UNCHANGED <<runtime, guard, starting_state, sending, versions, spoiled,
                   writes, channel, wire, clientVars>>

Changed == {f \in Fields : state[f] # starting_state[f]}
DiffOf(F) == [f \in F |-> state[f]]

(* Mutant: a field set back to its default is not sent. *)
DiffForgetsDefault == DiffOf({f \in Changed : state[f] # Default})

Diff == DiffOf(Changed)

(* Drop for StateGuard, also when the handler panics: a task is spawned for *)
(* the changed fields before the lock is released; no task if there are     *)
(* none. *)
DropGuard ==
    /\ guard
    /\ guard' = FALSE
    /\ IF Changed = {}
         THEN UNCHANGED <<sending, versions, spoiled>>
         ELSE /\ sending' = Append(sending, Diff)
              /\ versions' = Append(versions, state)
              /\ spoiled' = IF runtime = "current_thread" THEN spoiled
                   ELSE spoiled \cup
                     {f \in Changed : \E u \in Range(sending) : f \in DOMAIN u}
    /\ UNCHANGED <<runtime, state, starting_state, writes, channel, wire,
                   clientVars>>

Without(s, i) == SubSeq(s, 1, i - 1) \o SubSeq(s, i + 1, Len(s))

(* Mutant: send() on an unbounded channel. *)
UnboundedChannel == TRUE

ChannelHasRoom == Len(channel) < UpdateCap

(* A spawned task gets its update into the channel. The current-thread       *)
(* runtime of #[tokio::test] runs tasks in the order they were spawned and   *)
(* the channel serves its senders in turn; the worker threads of             *)
(* #[tokio::main] run them in any order. *)
SendUpdate(i) ==
    /\ i \in DOMAIN sending
    /\ runtime = "current_thread" => i = 1
    /\ ChannelHasRoom
    /\ channel' = Append(channel, sending[i])
    /\ sending' = Without(sending, i)
    /\ UNCHANGED <<runtime, state, guard, starting_state, versions, spoiled,
                   writes, wire, clientVars>>

-----------------------------------------------------------------------------
(* The connection loop and the client loop.                                *)

(* send_msg(StateChange): a failure is logged and the update is lost. *)
ForwardUpdate ==
    /\ channel # <<>>
    /\ channel' = Tail(channel)
    /\ \/ /\ wire' = Append(wire, Head(channel))
          /\ UNCHANGED spoiled
       \/ /\ "Send" \in Faults
          /\ spoiled' = spoiled \cup DOMAIN Head(channel)
          /\ UNCHANGED wire
    /\ UNCHANGED <<runtime, serverVars, clientVars>>

(* The application looks at the state for a while. *)
TakeReadGuard ==
    /\ ~reading
    /\ reading' = TRUE
    /\ UNCHANGED <<runtime, serverVars, channel, wire, client_state, spoiled>>

DropReadGuard ==
    /\ reading
    /\ reading' = FALSE
    /\ UNCHANGED <<runtime, serverVars, channel, wire, client_state, spoiled>>

(* Mutant: the indices of the changes are off by one. *)
Misapplied(s, u, n) ==
    [f \in Fields |-> IF f + 1 \in DOMAIN u /\ f <= n THEN u[f + 1] ELSE s[f]]

(* apply_changes, cut short after field n. *)
Applied(s, u, n) ==
    [f \in Fields |-> IF f \in DOMAIN u /\ f <= n THEN u[f] ELSE s[f]]

(* The client loop takes the write lock and applies the changes; a field    *)
(* that cannot be decoded stops it, with the earlier fields already set. *)
ApplyChanges ==
    /\ wire # <<>>
    /\ ~reading
    /\ wire' = Tail(wire)
    /\ \E n \in 0..NumFields :
         /\ n < NumFields => "Decode" \in Faults
         /\ client_state' = Applied(client_state, Head(wire), n)
         /\ spoiled' = spoiled \cup {f \in DOMAIN Head(wire) : f > n}
    /\ UNCHANGED <<runtime, serverVars, channel, reading>>

-----------------------------------------------------------------------------
SendTask == \E i \in 1..MaxWrites : SendUpdate(i)

Next ==
    \/ Write
    \/ \E f \in Fields, v \in Values : Assign(f, v)
    \/ DropGuard
    \/ SendTask
    \/ ForwardUpdate
    \/ TakeReadGuard
    \/ DropReadGuard
    \/ ApplyChanges

Spec == Init /\ [][Next]_vars

(* Handlers let go of their guard, tokio polls every ready task, and the    *)
(* application lets the client loop have the write lock: tokio's RwLock     *)
(* serves a waiting writer before later readers, hence strong fairness. *)
Fairness ==
    /\ WF_vars(DropGuard)
    /\ WF_vars(SendTask)
    /\ WF_vars(ForwardUpdate)
    /\ WF_vars(DropReadGuard)
    /\ SF_vars(ApplyChanges)

FairSpec == Spec /\ Fairness

-----------------------------------------------------------------------------
(* Every variable has its type, and the update channel keeps its capacity. *)
TypeOK ==
    /\ runtime \in Runtimes
    /\ state \in State
    /\ guard \in BOOLEAN
    /\ starting_state \in State
    /\ sending \in Seq(Changes)
    /\ channel \in Seq(Changes)
    /\ Len(channel) <= UpdateCap
    /\ wire \in Seq(Changes)
    /\ reading \in BOOLEAN
    /\ client_state \in State
    /\ versions \in Seq(State) /\ versions # <<>>
    /\ spoiled \in SUBSET Fields
    /\ writes \in 0..MaxWrites

(* The updates the client has not seen, oldest first. *)
Unseen == wire \o channel \o sending

(* On the current-thread runtime, and until an update is lost, the client's  *)
(* copy is an earlier state of the server, the one before the updates it has *)
(* not seen: it never skips, repeats or invents a state. *)
ClientIsPastState ==
    runtime = "current_thread" /\ spoiled = {} =>
        client_state = versions[Len(versions) - Len(Unseen)]

(* Nothing is on its way and no handler holds the lock. *)
Quiet == Unseen = <<>> /\ ~guard

(* Once everything has been delivered the two copies are equal: "to keep     *)
(* connection state synchronized" (src/server.rs), "synced between client    *)
(* and server automatically" (README). *)
Synchronized == Quiet => client_state = state

(* What holds on either runtime and whatever is lost: at rest, a field       *)
(* agrees unless one of its updates was lost, or two were in the tasks of    *)
(* several threads at once; updates of other fields do not harm it. *)
UnspoiledFieldsAgree ==
    Quiet => \A f \in Fields \ spoiled : client_state[f] = state[f]

(* Every field of the client's copy has a value the server gave to that      *)
(* field, even after lost updates and partly applied changes. *)
FieldProvenance ==
    \A f \in Fields : \E i \in DOMAIN versions : client_state[f] = versions[i][f]

-----------------------------------------------------------------------------
(* The parts of the inductive invariant behind the three invariants above. *)

(* The state at the last dropped guard that changed something. *)
Published == versions[Len(versions)]

(* Only a held guard takes the state away from the last published version,  *)
(* and that version is what the guard will compare it with. *)
GuardInv == Published = IF guard THEN starting_state ELSE state

(* Every value on its way to the client is one the server gave its field. *)
PendingProvenance ==
    \A u \in Range(sending) \cup Range(channel) \cup Range(wire) :
        \A f \in DOMAIN u : \E i \in DOMAIN versions : u[f] = versions[i][f]

(* Each update the client has not seen takes a version to the next one, and  *)
(* the client's copy is the version before the first of them. *)
UnseenIsRecentHistory ==
    runtime = "current_thread" /\ spoiled = {} =>
        /\ Len(Unseen) < Len(versions)
        /\ \A i \in 1..Len(Unseen) :
             LET n == Len(versions) - Len(Unseen) + i
             IN  versions[n] = Applied(versions[n - 1], Unseen[i], NumFields)

(* No update in the queue is about field f. *)
Silent(q, f) == \A u \in Range(q) : f \notin DOMAIN u

(* The last update about field f in the queue gives it the value v. *)
EndsWith(q, f, v) ==
    \E i \in DOMAIN q :
        /\ f \in DOMAIN q[i]
        /\ q[i][f] = v
        /\ \A j \in DOMAIN q : j > i => f \notin DOMAIN q[j]

(* With several threads the tasks hold at most one update of such a field. *)
OneTaskPerField ==
    runtime = "multi_thread" =>
        \A f \in Fields \ spoiled : \A i, j \in DOMAIN sending :
            f \in DOMAIN sending[i] /\ f \in DOMAIN sending[j] => i = j

(* The last update of a field that is not spoiled, or the client's copy when *)
(* there is none on the way, holds the published value. *)
NewestIsLast ==
    \A f \in Fields \ spoiled :
        LET v == Published[f]
        IN  \/ EndsWith(sending, f, v)
            \/ Silent(sending, f) /\ EndsWith(channel, f, v)
            \/ Silent(sending, f) /\ Silent(channel, f) /\ EndsWith(wire, f, v)
            \/ /\ Silent(sending, f) /\ Silent(channel, f) /\ Silent(wire, f)
               /\ client_state[f] = v

(* The invariant: what is on its way, in order, is what separates the two    *)
(* copies of the state. *)
IInv ==
    /\ TypeOK
    /\ GuardInv
    /\ FieldProvenance
    /\ PendingProvenance
    /\ ClientIsPastState
    /\ UnseenIsRecentHistory
    /\ OneTaskPerField
    /\ NewestIsLast

-----------------------------------------------------------------------------
(* Once the handlers stop writing, every field that is not spoiled comes to  *)
(* agree for good, if handlers and the application let go of their guards. *)
Converges ==
    \A f \in Fields : <>[](client_state[f] = state[f] \/ f \in spoiled)
=============================================================================
