----------------------------- MODULE RpcService -----------------------------
(***************************************************************************)
(* What a HardLight connection promises the application about RPC calls,   *)
(* with no ids, queues, tasks or network in it:                            *)
(*   - the server handler is started at most once for a call;              *)
(*   - an answer is delivered only after that call's own handler returned, *)
(*     it is the answer of that handler, and it is delivered once;         *)
(*   - a caller is told that the answer is unreadable only after its       *)
(*     handler returned: the call has been executed;                       *)
(*   - a call the client library refuses with any other error has not been *)
(*     started and never will be (so it is safe to make it again).         *)
(* RpcConnection is shown to implement this specification.                 *)
(***************************************************************************)
CONSTANTS Calls,    \* calls the application may make
          NoCall    \* the answer of a call that has none

VARIABLES phase,    \* the caller's view of each call
          exec,     \* the handler's progress on each call
          answer    \* the call whose handler produced the answer

vars == <<phase, exec, answer>>

Phases == {"idle", "open", "answered", "unreadable", "rejected",
           "abandoned"}
ExecStates == {"no", "running", "returned", "panicked"}

TypeOK ==
    /\ phase \in [Calls -> Phases]
    /\ exec \in [Calls -> ExecStates]
    /\ answer \in [Calls -> Calls \cup {NoCall}]

Init ==
    /\ phase = [c \in Calls |-> "idle"]
    /\ exec = [c \in Calls |-> "no"]
    /\ answer = [c \in Calls |-> NoCall]

(* The application makes the call. *)
Issue(c) ==
    /\ phase[c] = "idle"
    /\ phase' = [phase EXCEPT ![c] = "open"]
    /\ UNCHANGED <<exec, answer>>

(* The server starts the handler, whether or not the caller still waits. *)
Start(c) ==
    /\ phase[c] \in {"open", "abandoned"}
    /\ exec[c] = "no"
    /\ exec' = [exec EXCEPT ![c] = "running"]
    /\ UNCHANGED <<phase, answer>>

(* The handler returns, or its task panics. *)
Finish(c, how) ==
    /\ exec[c] = "running"
    /\ exec' = [exec EXCEPT ![c] = how]
    /\ UNCHANGED <<phase, answer>>

(* The caller gets the answer its own handler returned. *)
Deliver(c) ==
    /\ phase[c] = "open"
    /\ exec[c] = "returned"
    /\ phase' = [phase EXCEPT ![c] = "answered"]
    /\ answer' = [answer EXCEPT ![c] = c]
    /\ UNCHANGED exec

(* The caller learns that there is an answer, which it cannot decode. *)
Garble(c) ==
    /\ phase[c] = "open"
    /\ exec[c] = "returned"
    /\ phase' = [phase EXCEPT ![c] = "unreadable"]
    /\ UNCHANGED <<exec, answer>>

(* The client library refuses a call that has not reached the server. *)
Reject(c) ==
    /\ phase[c] \in {"idle", "open"}
    /\ exec[c] = "no"
    /\ phase' = [phase EXCEPT ![c] = "rejected"]
    /\ UNCHANGED <<exec, answer>>

(* Callers stop waiting: one by its own choice, all when the client ends. *)
Abandon(C) ==
    /\ \A c \in C : phase[c] = "open"
    /\ phase' = [c \in Calls |-> IF c \in C THEN "abandoned" ELSE phase[c]]
    /\ UNCHANGED <<exec, answer>>

Next ==
    \/ \E c \in Calls :
         \/ Issue(c) \/ Start(c) \/ Deliver(c) \/ Garble(c) \/ Reject(c)
         \/ \E how \in {"returned", "panicked"} : Finish(c, how)
    \/ \E C \in SUBSET Calls : Abandon(C)

Spec == Init /\ [][Next]_vars
=============================================================================
